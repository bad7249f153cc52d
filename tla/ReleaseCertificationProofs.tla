---------------------- MODULE ReleaseCertificationProofs ----------------------
(***************************************************************************)
(* Proofs about ReleaseCertification for any workflows, commits, runs,     *)
(* certifications, re-runs, deaths and times.                              *)
(***************************************************************************)
EXTENDS ReleaseCertification, FiniteSetTheorems, TLAPS

-----------------------------------------------------------------------------
(* A set of runs of one workflow and commit that is not empty has a newest *)
(* one: of the intervals from their numbers to the largest, one is minimal.*)
LEMMA NewestExists ==
  ASSUME NEW ids \in SUBSET RunIds, ids # {}
  PROVE  newest(ids) \in ids /\ \A o \in ids : o[3] <= newest(ids)[3]
<1> DEFINE M == MaxRunsPerCommit
           above == {id[3]..M : id \in ids}
           less == StrictSubsetOrdering(1..M)
<1>1. M \in Nat /\ \A id \in ids : id[3] \in 1..M
  BY ConstantsAssumption DEF RunIds
<1>2. IsFiniteSet(1..M)
  BY <1>1, FS_Interval
<1>3. IsWellFoundedOn(less, SUBSET (1..M))
  BY <1>2, FS_StrictSubsetOrderingWellFounded, FS_FiniteSubsetsOfFinite
<1>4. above \subseteq SUBSET (1..M) /\ above # {}
  BY <1>1
<1>5. PICK x \in above : \A y \in above : <<y, x>> \notin less
  <2> HIDE DEF above, less
  <2>1. QED
    BY <1>3, <1>4, WFMin
<1>6. PICK id \in ids : x = id[3]..M
  BY <1>5
<1>7. ASSUME NEW o \in ids
      PROVE  o[3] <= id[3]
  <2>1. SUFFICES ASSUME o[3] > id[3]
                 PROVE  FALSE
    BY <1>1
  <2>2. <<o[3]..M, x>> \notin less
    BY <1>5
  <2>3. o[3]..M \subseteq 1..M /\ x \subseteq 1..M /\ o[3]..M \subseteq x
    BY <1>1, <1>6, <2>1
  <2>4. id[3] \in x /\ id[3] \notin o[3]..M
    BY <1>1, <1>6, <2>1
  <2>5. QED
    BY <2>2, <2>3, <2>4 DEF StrictSubsetOrdering
<1>8. QED
  BY <1>6, <1>7 DEF newest

-----------------------------------------------------------------------------
(* What the operators return. *)
LEMMA PassMeans ==
  ASSUME NEW run, result(run) = "PASS"
  PROVE  /\ run.status \notin {"absent", "in_progress"}
         /\ run.conclusion = "success" /\ ~(clock - run.started > MaxAge)
<1>1. run.status # "absent" /\ run.status # "in_progress"
  BY DEF result
<1>2. QED
  BY <1>1 DEF result

LEMMA AbsentType == Absent \in RunStates
BY ConstantsAssumption DEF Absent, RunStates, Statuses, Times, None

LEMMA ListingType ==
  ASSUME TypeOK, NEW c \in Commits, NEW w \in Mandatory
  PROVE  LET l == latest_by_workflow(c)[w] IN
         /\ l \in Listed
         /\ \/ l = NoRun /\ Eligible(w, c) = {}
            \/ /\ l.id \in Eligible(w, c) /\ l.run = runs[l.id]
               /\ \A o \in Eligible(w, c) : o[3] <= l.id[3]
<1> DEFINE ids == Eligible(w, c)
           l == latest_by_workflow(c)[w]
<1>1. CASE ids = {}
  BY <1>1 DEF latest_by_workflow, Listed
<1>2. CASE ids # {}
  <2>1. ids \in SUBSET RunIds
    BY DEF Eligible
  <2>2. newest(ids) \in ids /\ \A o \in ids : o[3] <= newest(ids)[3]
    BY <1>2, <2>1, NewestExists
  <2>3. l = [id |-> newest(ids), run |-> runs[newest(ids)]]
    BY <1>2 DEF latest_by_workflow
  <2>4. newest(ids) \in RunIds /\ runs[newest(ids)] \in RunStates
    BY <2>1, <2>2 DEF TypeOK
  <2>5. QED
    BY <2>2, <2>3, <2>4 DEF Listed
<1>3. QED
  BY <1>1, <1>2

LEMMA ListingsType ==
  ASSUME TypeOK, NEW c \in Commits
  PROVE  latest_by_workflow(c) \in [Mandatory -> Listed]
<1>1. \A w \in Mandatory : latest_by_workflow(c)[w] \in Listed
  BY ListingType
<1>2. QED
  BY <1>1 DEF latest_by_workflow

LEMMA IdleType ==
  ASSUME NEW stage \in Stages
  PROVE  /\ IdleCert \in CertStates
         /\ [IdleCert EXCEPT !.stage = stage] \in CertStates
<1>1. NoListing \in [Mandatory -> Listed]
  BY DEF NoListing, Listed
<1>2. 0 \in Times /\ 1 \in 1..LastCommit
  BY ConstantsAssumption DEF Times
<1>3. QED
  BY <1>1, <1>2 DEF IdleCert, CertStates, Stages

(* The steps of GitHub keep the types of the runs. *)
LEMMA StartedType ==
  ASSUME TypeOK, NEW id \in RunIds
  PROVE  Started(runs[id].attempt + 1, runs[id].artifact) \in RunStates
<1>1. runs[id] \in RunStates
  BY DEF TypeOK
<1>2. runs[id].attempt + 1 \in Nat /\ runs[id].artifact \in Times \cup {None}
  <2>1. runs[id].attempt \in Nat /\ runs[id].artifact \in Times \cup {None}
    BY <1>1 DEF RunStates
  <2>2. QED
    BY <2>1
<1>3. clock \in Times /\ "in_progress" \in Statuses
  BY DEF TypeOK, Statuses
<1>4. QED
  BY <1>2, <1>3 DEF RunStates, Started

LEMMA EndedType ==
  ASSUME TypeOK, NEW id \in RunIds, NEW conclusion \in Conclusions,
         NEW artifact \in {clock, runs[id].artifact},
         NEW run, run = [runs[id] EXCEPT !.artifact = artifact]
  PROVE  /\ [run EXCEPT !.status = "completed", !.conclusion = conclusion] \in RunStates
         /\ AttemptOf(run, conclusion) \in Attempts
<1>1. runs[id] \in RunStates /\ clock \in Times
  BY DEF TypeOK
<1>2. artifact \in Times \cup {None}
  BY <1>1 DEF RunStates
<1>3. run \in RunStates
  BY <1>1, <1>2 DEF RunStates
<1>4. QED
  BY <1>3 DEF RunStates, Statuses, AttemptOf, Attempts

GitHubTypes ==
  runs \in [RunIds -> RunStates] /\ past \in [RunIds -> SUBSET Attempts]

LEMMA StartRunsType ==
  ASSUME TypeOK, NEW ids, NEW groups, StartRuns(ids, groups)
  PROVE  GitHubTypes'
<1> DEFINE ended(id) == [runs[id] EXCEPT !.status = "completed", !.conclusion = "cancelled"]
<1>1. ASSUME NEW id \in RunIds
      PROVE  ended(id) \in RunStates /\ AttemptOf(runs[id], "cancelled") \in Attempts
  <2>1. runs[id] = [runs[id] EXCEPT !.artifact = runs[id].artifact]
    BY DEF TypeOK, RunStates
  <2>2. QED
    BY <2>1, EndedType DEF Conclusions
<1>2. \A id \in RunIds : runs[id] \in RunStates /\ past[id] \in SUBSET Attempts
  BY DEF TypeOK
<1>3. QED
  BY <1>1, <1>2, StartedType DEF StartRuns, GitHubTypes

LEMMA CompleteType ==
  ASSUME TypeOK, NEW id \in RunIds, Complete(id)
  PROVE  GitHubTypes'
<1>1. PICK conclusion \in RunConclusions, artifact \in {clock, runs[id].artifact} :
        LET run == [runs[id] EXCEPT !.artifact = artifact] IN
        /\ runs' = [runs EXCEPT ![id] = [run EXCEPT !.status = "completed",
                                                    !.conclusion = conclusion]]
        /\ past' = [past EXCEPT ![id] = @ \cup {AttemptOf(run, conclusion)}]
  BY DEF Complete
<1> DEFINE run == [runs[id] EXCEPT !.artifact = artifact]
           ended == [run EXCEPT !.status = "completed", !.conclusion = conclusion]
<1>2. conclusion \in Conclusions
  BY DEF Conclusions
<1>3. ended \in RunStates /\ AttemptOf(run, conclusion) \in Attempts
  BY <1>2, EndedType
<1>4. past[id] \in SUBSET Attempts
  BY DEF TypeOK
<1> HIDE DEF ended
<1>5. runs' = [runs EXCEPT ![id] = ended]
  BY <1>1 DEF ended
<1>6. QED
  BY <1>1, <1>3, <1>4, <1>5 DEF TypeOK, GitHubTypes

(* The steps of the jobs keep the types of the certifications. *)
LEMMA AfreshType ==
  ASSUME TypeOK, NEW c \in Commits, NEW stage \in Stages, Afresh(c, stage) \/ NotReady(c)
  PROVE  cert' \in [Commits -> CertStates]
BY IdleType DEF TypeOK, Afresh, NotReady

LEMMA CertType ==
  ASSUME TypeOK, NEW c \in Commits
  PROVE  /\ cert[c] \in CertStates
         /\ cert[c].stage \in Stages /\ cert[c].polls \in Nat
         /\ cert[c].listing \in [Mandatory -> Listed] /\ cert[c].todo \subseteq Mandatory
         /\ cert[c].listed \in Times /\ cert[c].main \in 1..LastCommit
BY DEF TypeOK, CertStates

LEMMA GotoType ==
  ASSUME TypeOK, NEW c \in Commits, NEW stage \in Stages, Goto(c, stage)
  PROVE  cert' \in [Commits -> CertStates]
<1>1. [cert[c] EXCEPT !.stage = stage] \in CertStates
  BY CertType DEF CertStates
<1>2. cert' = [cert EXCEPT ![c] = [cert[c] EXCEPT !.stage = stage]]
  BY DEF Goto
<1>3. QED
  BY <1>1, <1>2 DEF TypeOK

LEMMA PollRunsType ==
  ASSUME TypeOK, NEW c \in Commits, PollRuns(c)
  PROVE  cert' \in [Commits -> CertStates]
<1> DEFINE final == [cert[c] EXCEPT !.stage = "final", !.polls = cert[c].polls + 1,
                                    !.listing = latest_by_workflow(c)]
           poll == [cert[c] EXCEPT !.stage = "poll", !.polls = cert[c].polls + 1]
<1>1. final \in CertStates /\ poll \in CertStates
  <2>1. cert[c].polls + 1 \in Nat /\ latest_by_workflow(c) \in [Mandatory -> Listed]
    BY CertType, ListingsType
  <2>2. QED
    BY <2>1, CertType DEF CertStates, Stages
<1>2. cert' = [cert EXCEPT ![c] = final] \/ cert' = [cert EXCEPT ![c] = poll]
  BY DEF PollRuns
<1> HIDE DEF final, poll
<1>3. QED
  BY <1>1, <1>2 DEF TypeOK

LEMMA FinalCheckType ==
  ASSUME TypeOK, NEW c \in Commits, FinalCheck(c)
  PROVE  cert' \in [Commits -> CertStates]
<1> DEFINE checked == [cert[c] EXCEPT !.stage = "artifacts", !.todo = Mandatory]
<1>1. checked \in CertStates
  BY CertType DEF CertStates, Stages
<1>2. cert' = [cert EXCEPT ![c] = checked] \/ NotReady(c)
  BY DEF FinalCheck
<1> HIDE DEF checked
<1>3. QED
  BY <1>1, <1>2, IdleType DEF TypeOK, NotReady, Stages

LEMMA CheckArtifactType ==
  ASSUME TypeOK, NEW c \in Commits, NEW w \in Mandatory, CheckArtifact(c, w)
  PROVE  cert' \in [Commits -> CertStates]
<1> DEFINE checked == [cert[c] EXCEPT !.todo = cert[c].todo \ {w}]
<1>1. checked \in CertStates
  BY CertType DEF CertStates
<1>2. cert' = [cert EXCEPT ![c] = checked] \/ NotReady(c) \/ Afresh(c, "ready")
  BY DEF CheckArtifact
<1>3. "ready" \in Stages
  BY DEF Stages
<1> HIDE DEF checked
<1>4. QED
  BY <1>1, <1>2, <1>3, AfreshType DEF TypeOK

LEMMA CollectType ==
  ASSUME TypeOK, NEW c \in Commits, Collect(c)
  PROVE  cert' \in [Commits -> CertStates]
<1> DEFINE collected == [cert[c] EXCEPT !.stage = "gate", !.listing = latest_by_workflow(c),
                                        !.listed = clock, !.main = head]
<1>1. collected \in CertStates
  <2>1. latest_by_workflow(c) \in [Mandatory -> Listed] /\ clock \in Times
        /\ head \in 1..LastCommit
    BY ListingsType DEF TypeOK
  <2>2. QED
    BY <2>1, CertType DEF CertStates, Stages
<1>2. cert' = [cert EXCEPT ![c] = collected]
  BY DEF Collect
<1> HIDE DEF collected
<1>3. QED
  BY <1>1, <1>2 DEF TypeOK

(* A certificate that the gate gives. *)
Certificate(c) ==
  [commit |-> c, at |-> clock, listed |-> cert[c].listed, main |-> cert[c].main,
   evidence |-> evidence(cert[c].listing)]

LEMMA PassedIsListed ==
  ASSUME TypeOK, NEW c \in Commits, NEW w \in Mandatory,
         result(cert[c].listing[w].run) = "PASS"
  PROVE  LET l == cert[c].listing[w] IN
         /\ l # NoRun /\ l.id \in RunIds /\ l.run \in RunStates
         /\ l.run.status = "completed" /\ l.run.conclusion = "success"
         /\ clock - l.run.started <= MaxAge
<1> DEFINE l == cert[c].listing[w]
<1>1. l \in Listed
  BY CertType
<1>2. /\ l.run.status \notin {"absent", "in_progress"}
      /\ l.run.conclusion = "success" /\ ~(clock - l.run.started > MaxAge)
  BY PassMeans
<1>3. l # NoRun
  <2>1. NoRun.run.status = "absent"
    BY DEF NoRun, Absent
  <2>2. QED
    BY <1>2, <2>1
<1>4. l.id \in RunIds /\ l.run \in RunStates
  BY <1>1, <1>3 DEF Listed
<1>5. clock \in Int /\ l.run.started \in Int /\ MaxAge \in Int
  <2>1. clock \in Times /\ l.run.started \in Times
    BY <1>4 DEF TypeOK, RunStates
  <2>2. QED
    BY <2>1, ConstantsAssumption DEF Times
<1>6. l.run.status \in Statuses
  BY <1>4 DEF RunStates
<1>7. QED
  BY <1>2, <1>3, <1>4, <1>5, <1>6 DEF Statuses

LEMMA CertificateType ==
  ASSUME TypeOK, NEW c \in Commits, decide(cert[c].listing)
  PROVE  Certificate(c) \in Certificates
<1> DEFINE listing == cert[c].listing
<1>1. ASSUME NEW w \in Mandatory
      PROVE  listing[w].id \in RunIds /\ listing[w].run.attempt \in Nat
  <2>1. listing[w].id \in RunIds /\ listing[w].run \in RunStates
    BY PassedIsListed DEF decide
  <2>2. QED
    BY <2>1 DEF RunStates
<1>2. evidence(listing) \in [Mandatory -> RunIds \X Nat]
  BY <1>1 DEF evidence
<1>3. QED
  BY <1>2, CertType DEF Certificate, Certificates, TypeOK

LEMMA GateFacts ==
  ASSUME NEW c \in Commits, Gate(c)
  PROVE  /\ runs' = runs /\ past' = past /\ clock' = clock
         /\ At(c, "gate")
         /\ \/ /\ decide(cert[c].listing) /\ NotReady(c)
               /\ certificates' = certificates \cup {Certificate(c)}
            \/ Afresh(c, "refused") /\ certificates' = certificates
BY DEF Gate, Certificate, github

LEMMA TypeInit == Init => TypeOK
<1> SUFFICES ASSUME Init
             PROVE  TypeOK
  OBVIOUS
<1>1. 0 \in Times /\ 1 \in 1..LastCommit
  BY ConstantsAssumption DEF Times
<1>2. runs \in [RunIds -> RunStates]
  <2>1. Started(1, None) \in RunStates
    <3>1. clock \in Times /\ "in_progress" \in Statuses
      BY <1>1 DEF Init, Statuses
    <3>2. QED
      BY <3>1 DEF Started, RunStates
  <2>2. PICK ids \in SUBSET FirstRuns(1) :
          runs = [id \in RunIds |-> IF id \in ids THEN Started(1, None) ELSE Absent]
    BY DEF Init
  <2>3. QED
    BY <2>1, <2>2, AbsentType
<1>3. cert \in [Commits -> CertStates]
  <2>1. IdleCert \in CertStates
    BY IdleType DEF Stages
  <2>2. QED
    BY <2>1 DEF Init
<1>4. QED
  BY <1>1, <1>2, <1>3 DEF Init, TypeOK

LEMMA TypeStep ==
  ASSUME TypeOK, [Next]_vars
  PROVE  TypeOK'
<1> USE DEF TypeOK
<1>1. CASE Push
  <2>1. GitHubTypes'
    BY <1>1, StartRunsType DEF Push
  <2>2. head' \in 1..LastCommit
    BY <1>1, ConstantsAssumption DEF Push
  <2>3. QED
    BY <1>1, <2>1, <2>2 DEF Push, GitHubTypes, counters
<1>2. CASE Tick
  <2>1. clock' \in Times
    BY <1>2, ConstantsAssumption DEF Tick, Times
  <2>2. QED
    BY <1>2, <2>1 DEF Tick, github, counters
<1>3. ASSUME NEW id \in RunIds, RunAgain(id) \/ Rerun(id)
      PROVE  TypeOK'
  <2>1. GitHubTypes'
    BY <1>3, StartRunsType DEF RunAgain, Rerun, StartRun
  <2>2. /\ reruns' = reruns + 1
        /\ UNCHANGED <<head, clock, waiting, cert, certificates, requests, kills>>
    BY <1>3 DEF RunAgain, Rerun
  <2>3. QED
    BY <2>1, <2>2 DEF GitHubTypes
<1>4. ASSUME NEW id \in RunIds, Complete(id)
      PROVE  TypeOK'
  <2>1. GitHubTypes'
    BY <1>4, CompleteType
  <2>2. QED
    BY <1>4, <2>1 DEF Complete, GitHubTypes, counters
<1>5. ASSUME NEW c \in Commits, Request(c)
      PROVE  TypeOK'
  BY <1>5 DEF Request, github
<1>6. ASSUME NEW c \in Commits, Start(c)
      PROVE  TypeOK'
  <2>1. cert' \in [Commits -> CertStates]
    BY <1>6, AfreshType DEF Start, Stages
  <2>2. QED
    BY <1>6, <2>1 DEF Start, github, counters
<1>7. ASSUME NEW c \in Commits, RerunCertify(c)
      PROVE  TypeOK'
  <2>1. cert' \in [Commits -> CertStates]
    BY <1>7, GotoType DEF RerunCertify, Stages
  <2>2. QED
    BY <1>7, <2>1 DEF RerunCertify, github
<1>8. ASSUME NEW c \in Commits, Kill(c)
      PROVE  TypeOK'
  <2>1. cert' \in [Commits -> CertStates]
    BY <1>8, AfreshType DEF Kill, Stages
  <2>2. QED
    BY <1>8, <2>1 DEF Kill, github
<1>9. ASSUME NEW c \in Commits, Gate(c)
      PROVE  TypeOK'
  <2>1. cert' \in [Commits -> CertStates]
    BY <1>9, GateFacts, AfreshType DEF Stages
  <2>2. certificates' \subseteq Certificates
    BY <1>9, GateFacts, CertificateType
  <2>3. QED
    BY <1>9, <2>1, <2>2 DEF Gate, github, counters
<1>10. ASSUME NEW c \in Commits, Step(c), ~Gate(c)
       PROVE  TypeOK'
  <2>1. cert' \in [Commits -> CertStates]
    <3>1. Resolve(c) \/ PollMain(c) => cert' \in [Commits -> CertStates]
      BY GotoType, AfreshType DEF Resolve, PollMain, Stages
    <3>2. QED
      BY <1>10, <3>1, PollRunsType, FinalCheckType, CheckArtifactType, CollectType DEF Step
  <2>2. JobOnly
    BY <1>10 DEF Step, Resolve, PollMain, PollRuns, FinalCheck, CheckArtifact, Collect
  <2>3. QED
    BY <2>1, <2>2 DEF JobOnly, github, counters
<1>11. CASE UNCHANGED vars
  BY <1>11 DEF vars, counters
<1>12. QED
  BY <1>1, <1>2, <1>3, <1>4, <1>5, <1>6, <1>7, <1>8, <1>9, <1>10, <1>11 DEF Next

(* Every reachable state is well typed, and a certificate names a run and  *)
(* an attempt for every mandatory workflow (qa_release_gate.py).           *)
THEOREM CertificationTypes == Spec => []TypeOK
<1>1. Init => TypeOK
  BY TypeInit
<1>2. TypeOK /\ [Next]_vars => TypeOK'
  BY TypeStep
<1>3. QED
  BY <1>1, <1>2, PTL DEF Spec

-----------------------------------------------------------------------------
(***************************************************************************)
(* The inductive invariant.                                                *)
(***************************************************************************)

(* Runs begin and end before now, a completed attempt is remembered, and   *)
(* the latest attempt is the last of them.                                 *)
RunSound(id) ==
  /\ runs[id].started <= clock /\ runs[id].artifact <= clock
  /\ runs[id].status = "absent" => past[id] = {}
  /\ runs[id].status = "completed" => AttemptOf(runs[id], runs[id].conclusion) \in past[id]
  /\ \A a \in past[id] : a.attempt <= runs[id].attempt

(* A run of a listing is an eligible run as it was at some time. *)
IsListed(w, c, l) ==
  /\ l.id \in Eligible(w, c)
  /\ l.run.status = "completed" => AttemptOf(l.run, l.run.conclusion) \in past[l.id]

(* What is newer than that attempt of that run has started since t. *)
NewestAt(w, c, id, attempt, t) ==
  /\ \A o \in Eligible(w, c) : o[3] > id[3] =>
       runs[o].started >= t /\ \A a \in past[o] : a.started >= t
  /\ runs[id].attempt > attempt => runs[id].started >= t
  /\ \A a \in past[id] : a.attempt > attempt => a.started >= t

(* The artifact of a passed attempt, or of a later one. *)
HasArtifact(w, c) ==
  \E id \in Eligible(w, c) :
    \E a \in past[id] : a.conclusion = "success" /\ runs[id].artifact >= a.started

(* What a certification k of commit c knows is so. *)
CertSound(k, c) ==
  /\ \A w \in Mandatory : k.listing[w] = NoRun \/ IsListed(w, c, k.listing[w])
  /\ k.stage = "gate" =>
       /\ k.listed <= clock
       /\ \A w \in Mandatory : k.listing[w] # NoRun =>
            NewestAt(w, c, k.listing[w].id, k.listing[w].run.attempt, k.listed)
  /\ k.stage = "artifacts" => \A w \in Mandatory :
       /\ k.listing[w] # NoRun
       /\ k.listing[w].run.status = "completed" /\ k.listing[w].run.conclusion = "success"
       /\ w \notin k.todo => HasArtifact(w, c)
  /\ k.stage \in {"ready", "gate", "refused"} => \A w \in Mandatory : HasArtifact(w, c)

CertificateSound(x) ==
  /\ x.listed <= clock
  /\ \A w \in Mandatory :
       /\ x.evidence[w][1] \in Eligible(w, x.commit)
       /\ \E a \in past[x.evidence[w][1]] : /\ a.attempt = x.evidence[w][2]
                                            /\ a.conclusion = "success"
                                            /\ x.at - a.started <= MaxAge
       /\ NewestAt(w, x.commit, x.evidence[w][1], x.evidence[w][2], x.listed)
       /\ HasArtifact(w, x.commit)

RunsSound == \A id \in RunIds : RunSound(id)
CertsSound == \A c \in Commits : CertSound(cert[c], c)
CertificatesSound == \A x \in certificates : CertificateSound(x)
Sound == TypeOK /\ RunsSound /\ CertsSound /\ CertificatesSound

(* What any step does to the runs: time goes on, no attempt is forgotten,  *)
(* artifacts get newer, a new attempt starts now.                          *)
RunEvolves(id) ==
  /\ past[id] \subseteq past'[id]
  /\ runs'[id].artifact \in Int /\ runs[id].artifact <= runs'[id].artifact
  /\ \A a \in past'[id] \ past[id] :
       /\ runs[id].status # "absent"
       /\ a.attempt = runs[id].attempt /\ a.started = runs[id].started
  /\ \/ /\ runs'[id].attempt = runs[id].attempt /\ runs'[id].started = runs[id].started
        /\ (runs'[id].status = "absent") <=> (runs[id].status = "absent")
     \/ /\ runs'[id].attempt = runs[id].attempt + 1 /\ runs'[id].started = clock
        /\ runs'[id].status # "absent"
Evolves ==
  /\ clock' \in Times /\ clock <= clock'
  /\ \A id \in RunIds : RunEvolves(id)

-----------------------------------------------------------------------------
LEMMA RunType ==
  ASSUME TypeOK, NEW id \in RunIds
  PROVE  /\ runs[id].started \in Int /\ runs[id].artifact \in Int
         /\ runs[id].attempt \in Nat /\ runs[id].status \in Statuses /\ clock \in Int
         /\ \A a \in past[id] : a.started \in Int /\ a.attempt \in Nat
<1>1. \A t \in Times \cup {None} : t \in Int
  BY ConstantsAssumption DEF Times, None
<1>2. runs[id] \in RunStates /\ past[id] \subseteq Attempts /\ clock \in Times
  BY DEF TypeOK
<1>3. runs[id].started \in Times /\ runs[id].artifact \in Times \cup {None}
      /\ runs[id].attempt \in Nat /\ runs[id].status \in Statuses
  BY <1>2 DEF RunStates
<1>4. \A a \in past[id] : a.started \in Times /\ a.attempt \in Nat
  BY <1>2 DEF Attempts
<1>5. QED
  BY <1>1, <1>2, <1>3, <1>4

LEMMA StartedFields ==
  ASSUME NEW attempt, NEW artifact
  PROVE  /\ Started(attempt, artifact).attempt = attempt
         /\ Started(attempt, artifact).started = clock
         /\ Started(attempt, artifact).artifact = artifact
         /\ Started(attempt, artifact).status = "in_progress"
BY DEF Started

(* The runs of ids start, others of their groups are cancelled. *)
LEMMA StartRunsEvolves ==
  ASSUME TypeOK, RunsSound, NEW ids, NEW groups, StartRuns(ids, groups), clock' = clock
  PROVE  Evolves /\ RunsSound'
<1>1. SUFFICES ASSUME NEW id \in RunIds
               PROVE  RunEvolves(id) /\ RunSound(id)'
  <2>1. clock' \in Times /\ clock <= clock'
    BY ConstantsAssumption DEF TypeOK, Times
  <2>2. QED
    BY <2>1 DEF Evolves, RunsSound
<1>2. RunSound(id)
  BY DEF RunsSound
<1> DEFINE old == runs[id]
           new == runs'[id]
<1>3. CASE new = Started(old.attempt + 1, old.artifact) /\ past'[id] = past[id]
  <2>1. /\ new.attempt = old.attempt + 1 /\ new.started = clock /\ new.artifact = old.artifact
        /\ new.status = "in_progress"
    BY <1>3, StartedFields
  <2> HIDE DEF new
  <2>2. RunEvolves(id)
    BY <1>3, <2>1, RunType DEF RunEvolves, new
  <2>3. RunSound(id)'
    BY <1>2, <1>3, <2>1, RunType DEF RunSound, new
  <2>4. QED
    BY <2>2, <2>3
<1>4. CASE /\ old.status = "in_progress"
           /\ new = [old EXCEPT !.status = "completed", !.conclusion = "cancelled"]
           /\ past'[id] = past[id] \cup {AttemptOf(old, "cancelled")}
  <2>1. /\ new.attempt = old.attempt /\ new.started = old.started /\ new.artifact = old.artifact
        /\ new.status = "completed" /\ new.conclusion = "cancelled"
    BY <1>4, RunType DEF TypeOK, RunStates
  <2>2. AttemptOf(new, new.conclusion) = AttemptOf(old, "cancelled")
    BY <2>1 DEF AttemptOf
  <2>3. /\ AttemptOf(old, "cancelled").attempt = old.attempt
        /\ AttemptOf(old, "cancelled").started = old.started
    BY DEF AttemptOf
  <2> HIDE DEF new
  <2>4. RunEvolves(id)
    BY <1>4, <2>1, <2>3, RunType DEF RunEvolves, new
  <2>5. RunSound(id)'
    <3>1. AttemptOf(runs'[id], runs'[id].conclusion) \in past'[id]
      BY <1>4, <2>2 DEF new
    <3>2. \A a \in past'[id] : a.attempt <= runs'[id].attempt
      BY <1>2, <1>4, <2>1, <2>3, RunType DEF RunSound, new
    <3>3. QED
      BY <1>2, <2>1, <3>1, <3>2 DEF RunSound, new, AttemptOf
  <2>6. QED
    BY <2>4, <2>5
<1>5. CASE new = old /\ past'[id] = past[id]
  BY <1>2, <1>5, RunType DEF RunEvolves, RunSound, AttemptOf
<1>6. QED
  BY <1>3, <1>4, <1>5 DEF StartRuns

LEMMA CompleteEvolves ==
  ASSUME TypeOK, TypeOK', RunsSound, NEW end \in RunIds, Complete(end)
  PROVE  Evolves /\ RunsSound'
<1>1. PICK conclusion \in RunConclusions, artifact \in {clock, runs[end].artifact} :
        LET run == [runs[end] EXCEPT !.artifact = artifact] IN
        /\ runs' = [runs EXCEPT ![end] = [run EXCEPT !.status = "completed",
                                                     !.conclusion = conclusion]]
        /\ past' = [past EXCEPT ![end] = @ \cup {AttemptOf(run, conclusion)}]
  BY DEF Complete
<1>2. clock' = clock /\ runs[end].status = "in_progress"
  BY DEF Complete
<1>3. SUFFICES ASSUME NEW id \in RunIds
               PROVE  RunEvolves(id) /\ RunSound(id)'
  <2>1. clock' \in Times /\ clock <= clock'
    BY <1>2, ConstantsAssumption DEF TypeOK, Times
  <2>2. QED
    BY <2>1 DEF Evolves, RunsSound
<1>4. RunSound(id)
  BY DEF RunsSound
<1> DEFINE old == runs[id]
           new == runs'[id]
           attempt == AttemptOf([old EXCEPT !.artifact = artifact], conclusion)
<1>5. CASE id = end
  <2>1. old \in RunStates /\ id \in DOMAIN runs /\ id \in DOMAIN past
    BY DEF TypeOK
  <2>2. new = [[old EXCEPT !.artifact = artifact] EXCEPT !.status = "completed",
                                                         !.conclusion = conclusion]
        /\ past'[id] = past[id] \cup {attempt}
    BY <1>1, <1>5, <2>1
  <2>3. /\ new.attempt = old.attempt /\ new.started = old.started /\ new.artifact = artifact
        /\ new.status = "completed" /\ new.conclusion = conclusion
    BY <2>1, <2>2 DEF RunStates
  <2>4. /\ attempt.attempt = old.attempt /\ attempt.started = old.started
        /\ AttemptOf(new, new.conclusion) = attempt
    BY <2>1, <2>3 DEF AttemptOf, RunStates
  <2>5. artifact \in Int /\ old.artifact <= artifact /\ artifact <= clock
    BY <1>4, <1>5, RunType DEF RunSound
  <2> HIDE DEF new, attempt
  <2>6. RunEvolves(id)
    BY <1>2, <1>5, <2>2, <2>3, <2>4, <2>5, RunType DEF RunEvolves, new
  <2>7. RunSound(id)'
    <3>1. AttemptOf(runs'[id], runs'[id].conclusion) \in past'[id]
      BY <2>2, <2>4 DEF new
    <3>2. \A a \in past'[id] : a.attempt <= runs'[id].attempt
      BY <1>4, <2>2, <2>3, <2>4, RunType DEF RunSound, new
    <3>3. QED
      BY <1>2, <1>4, <2>3, <2>5, <3>1, <3>2 DEF RunSound, new, AttemptOf
  <2>8. QED
    BY <2>6, <2>7
<1>6. CASE id # end
  <2>1. new = old /\ past'[id] = past[id]
    BY <1>1, <1>6 DEF TypeOK
  <2>2. QED
    BY <1>2, <1>4, <2>1, RunType DEF RunEvolves, RunSound, AttemptOf
<1>7. QED
  BY <1>5, <1>6

LEMMA QuietEvolves ==
  ASSUME TypeOK, RunsSound, runs' = runs, past' = past, clock' \in Times, clock <= clock'
  PROVE  Evolves /\ RunsSound'
<1>1. SUFFICES ASSUME NEW id \in RunIds
               PROVE  RunEvolves(id) /\ RunSound(id)'
  BY DEF Evolves, RunsSound
<1>2. RunSound(id) /\ clock' \in Int
  BY ConstantsAssumption DEF RunsSound, Times
<1>3. QED
  BY <1>2, RunType DEF RunEvolves, RunSound, AttemptOf

LEMMA NextEvolves ==
  ASSUME TypeOK, TypeOK', RunsSound, [Next]_vars
  PROVE  Evolves /\ RunsSound'
<1>1. CASE Push
  BY <1>1, StartRunsEvolves DEF Push
<1>2. ASSUME NEW id \in RunIds, RunAgain(id) \/ Rerun(id)
      PROVE  Evolves /\ RunsSound'
  BY <1>2, StartRunsEvolves DEF RunAgain, Rerun, StartRun
<1>3. ASSUME NEW id \in RunIds, Complete(id)
      PROVE  Evolves /\ RunsSound'
  BY <1>3, CompleteEvolves
<1>4. CASE Tick
  <2>1. runs' = runs /\ past' = past /\ clock' = clock + 1 /\ clock' \in Times
    BY <1>4 DEF Tick, github, TypeOK
  <2>2. clock <= clock'
    BY <2>1, ConstantsAssumption DEF TypeOK, Times
  <2>3. QED
    BY <2>1, <2>2, QuietEvolves
<1>5. ASSUME UNCHANGED <<runs, past, clock>>
      PROVE  Evolves /\ RunsSound'
  <2>1. clock' \in Times /\ clock <= clock'
    BY <1>5, ConstantsAssumption DEF TypeOK, Times
  <2>2. QED
    BY <1>5, <2>1, QuietEvolves
<1>6. ASSUME NEW c \in Commits,
             Request(c) \/ Start(c) \/ Step(c) \/ RerunCertify(c) \/ Kill(c)
      PROVE  UNCHANGED <<runs, past, clock>>
  BY <1>6 DEF Request, Start, Step, RerunCertify, Kill, Resolve, PollMain, PollRuns, FinalCheck,
              CheckArtifact, Collect, Gate, JobOnly, github
<1>7. CASE UNCHANGED vars
  BY <1>5, <1>7 DEF vars
<1>8. QED
  BY <1>1, <1>2, <1>3, <1>4, <1>5, <1>6, <1>7 DEF Next

-----------------------------------------------------------------------------
(* What is so of runs stays so while they evolve. *)
LEMMA EligibleStays ==
  ASSUME Evolves, NEW w, NEW c, NEW id \in Eligible(w, c)
  PROVE  id \in RunIds /\ id \in Eligible(w, c)'
<1>1. id \in RunIds /\ runs[id].status # "absent"
  BY DEF Eligible
<1>2. runs'[id].status # "absent"
  BY <1>1 DEF Evolves, RunEvolves
<1>3. QED
  BY <1>1, <1>2 DEF Eligible

LEMMA ListedStays ==
  ASSUME Evolves, NEW w, NEW c, NEW l, IsListed(w, c, l)
  PROVE  IsListed(w, c, l)'
<1>1. l.id \in Eligible(w, c)
  BY DEF IsListed
<1>2. l.id \in RunIds /\ l.id \in Eligible(w, c)'
  BY <1>1, EligibleStays
<1>3. past[l.id] \subseteq past'[l.id]
  BY <1>2 DEF Evolves, RunEvolves
<1>4. QED
  BY <1>2, <1>3 DEF IsListed, AttemptOf

LEMMA HasArtifactStays ==
  ASSUME TypeOK, Evolves, NEW w, NEW c, HasArtifact(w, c)
  PROVE  HasArtifact(w, c)'
<1>1. PICK id \in Eligible(w, c) :
        \E a \in past[id] : a.conclusion = "success" /\ runs[id].artifact >= a.started
  BY DEF HasArtifact
<1> PICK a \in past[id] : a.conclusion = "success" /\ runs[id].artifact >= a.started
  BY <1>1
<1>2. id \in RunIds /\ id \in Eligible(w, c)'
  BY EligibleStays
<1>3. /\ a \in past'[id] /\ runs'[id].artifact \in Int
      /\ runs[id].artifact <= runs'[id].artifact
  BY <1>2 DEF Evolves, RunEvolves
<1>4. runs'[id].artifact >= a.started
  BY <1>1, <1>2, <1>3, RunType
<1>5. QED
  BY <1>1, <1>2, <1>3, <1>4 DEF HasArtifact

LEMMA NewestStays ==
  ASSUME TypeOK, RunsSound, Evolves, NEW w, NEW c, NEW id \in RunIds, NEW attempt \in Nat,
         NEW t \in Int, t <= clock, NewestAt(w, c, id, attempt, t)
  PROVE  NewestAt(w, c, id, attempt, t)'
<1>1. clock \in Int
  BY RunType
<1>2. ASSUME NEW o \in Eligible(w, c)', o[3] > id[3]
      PROVE  runs'[o].started >= t /\ \A a \in past'[o] : a.started >= t
  <2>1. o \in RunIds /\ WorkflowOf(o) = w /\ CommitOf(o) = c
        /\ EventOf(o) \in ALLOWED_RELEASE_EVENTS /\ runs'[o].status # "absent"
    BY DEF Eligible
  <2>2. RunEvolves(o) /\ RunSound(o)
    BY <2>1 DEF Evolves, RunsSound
  <2>3. CASE runs[o].status = "absent"
    <3>1. past[o] = {} /\ past'[o] \ past[o] = {}
      BY <2>2, <2>3 DEF RunSound, RunEvolves
    <3>2. runs'[o].started = clock
      BY <2>1, <2>2, <2>3 DEF RunEvolves
    <3>3. QED
      BY <1>1, <3>1, <3>2
  <2>4. CASE runs[o].status # "absent"
    <3>1. o \in Eligible(w, c)
      BY <2>1, <2>4 DEF Eligible
    <3>2. runs[o].started >= t /\ \A a \in past[o] : a.started >= t
      BY <1>2, <3>1 DEF NewestAt
    <3>3. QED
      BY <1>1, <2>1, <2>2, <3>2, RunType DEF RunEvolves
  <2>5. QED
    BY <2>3, <2>4
<1>3. RunEvolves(id)
  BY DEF Evolves
<1>4. runs'[id].attempt > attempt => runs'[id].started >= t
  BY <1>1, <1>3, RunType DEF NewestAt, RunEvolves
<1>5. ASSUME NEW a \in past'[id], a.attempt > attempt
      PROVE  a.started >= t
  <2>1. CASE a \in past[id]
    BY <1>5, <2>1 DEF NewestAt
  <2>2. CASE a \notin past[id]
    BY <1>3, <1>5, <2>2, RunType DEF NewestAt, RunEvolves
  <2>3. QED
    BY <2>1, <2>2
<1>6. QED
  BY <1>2, <1>4, <1>5 DEF NewestAt

LEMMA CertStays ==
  ASSUME TypeOK, RunsSound, Evolves, NEW k \in CertStates, NEW c, CertSound(k, c)
  PROVE  CertSound(k, c)'
<1>1. ASSUME NEW w \in Mandatory
      PROVE  k.listing[w] = NoRun \/ IsListed(w, c, k.listing[w])'
  BY ListedStays DEF CertSound
<1>2. ASSUME k.stage = "gate"
      PROVE  /\ k.listed <= clock'
             /\ \A w \in Mandatory : k.listing[w] # NoRun =>
                  NewestAt(w, c, k.listing[w].id, k.listing[w].run.attempt, k.listed)'
  <2>1. k.listed \in Int /\ clock \in Int /\ clock' \in Int
    BY ConstantsAssumption DEF CertStates, TypeOK, Evolves, Times
  <2>2. k.listed <= clock /\ k.listed <= clock'
    BY <1>2, <2>1 DEF CertSound, Evolves
  <2>3. ASSUME NEW w \in Mandatory, k.listing[w] # NoRun
        PROVE  NewestAt(w, c, k.listing[w].id, k.listing[w].run.attempt, k.listed)'
    <3>1. k.listing[w] \in Listed
      BY DEF CertStates
    <3>2. k.listing[w].id \in RunIds /\ k.listing[w].run.attempt \in Nat
      BY <2>3, <3>1 DEF Listed, RunStates
    <3>3. NewestAt(w, c, k.listing[w].id, k.listing[w].run.attempt, k.listed)
      BY <1>2, <2>3 DEF CertSound
    <3>4. QED
      BY <2>1, <2>2, <3>2, <3>3, NewestStays
  <2>4. QED
    BY <2>2, <2>3
<1>3. \A w \in Mandatory : HasArtifact(w, c) => HasArtifact(w, c)'
  BY HasArtifactStays
<1>4. QED
  BY <1>1, <1>2, <1>3 DEF CertSound

LEMMA CertificateStays ==
  ASSUME TypeOK, RunsSound, Evolves, NEW x \in Certificates, CertificateSound(x)
  PROVE  CertificateSound(x)'
<1>1. x.listed \in Int /\ clock \in Int /\ clock' \in Int
  BY ConstantsAssumption DEF Certificates, TypeOK, Evolves, Times
<1>2. x.listed <= clock /\ x.listed <= clock'
  BY <1>1 DEF CertificateSound, Evolves
<1>3. ASSUME NEW w \in Mandatory
      PROVE  /\ x.evidence[w][1] \in Eligible(w, x.commit)'
             /\ \E a \in past'[x.evidence[w][1]] : /\ a.attempt = x.evidence[w][2]
                                                   /\ a.conclusion = "success"
                                                   /\ x.at - a.started <= MaxAge
             /\ NewestAt(w, x.commit, x.evidence[w][1], x.evidence[w][2], x.listed)'
             /\ HasArtifact(w, x.commit)'
  <2>1. x.evidence[w] \in RunIds \X Nat
    BY DEF Certificates
  <2>2. x.evidence[w][1] \in RunIds /\ x.evidence[w][2] \in Nat
    BY <2>1
  <2>3. x.evidence[w][1] \in Eligible(w, x.commit)'
    BY EligibleStays DEF CertificateSound
  <2>4. past[x.evidence[w][1]] \subseteq past'[x.evidence[w][1]]
    BY <2>2 DEF Evolves, RunEvolves
  <2>5. NewestAt(w, x.commit, x.evidence[w][1], x.evidence[w][2], x.listed)'
    BY <1>1, <1>2, <2>2, NewestStays DEF CertificateSound
  <2>6. HasArtifact(w, x.commit)'
    BY HasArtifactStays DEF CertificateSound
  <2>7. QED
    BY <2>3, <2>4, <2>5, <2>6 DEF CertificateSound
<1>4. QED
  BY <1>2, <1>3 DEF CertificateSound

-----------------------------------------------------------------------------
(* The steps of a certification. *)
LEMMA OneCertChanges ==
  ASSUME Sound, Evolves, NEW c \in Commits, NEW k \in CertStates, CertSound(k, c),
         cert' = [cert EXCEPT ![c] = k]
  PROVE  CertsSound'
<1>1. ASSUME NEW d \in Commits
      PROVE  CertSound(cert[d], d)'
  <2>1. cert[d] \in CertStates
    BY DEF Sound, TypeOK
  <2>2. PICK known \in CertStates : known = cert'[d] /\ CertSound(known, d)
    BY <2>1 DEF Sound, CertsSound, TypeOK
  <2>3. CertSound(known, d)'
    BY <2>2, CertStays DEF Sound
  <2>4. QED
    BY <2>2, <2>3 DEF CertSound
<1>2. QED
  BY <1>1 DEF CertsSound

LEMMA NoCertChanges ==
  ASSUME Sound, Evolves, cert' = cert
  PROVE  CertsSound'
<1>1. ASSUME NEW d \in Commits
      PROVE  CertSound(cert[d], d)'
  <2>1. PICK known \in CertStates : known = cert[d] /\ CertSound(known, d)
    BY DEF Sound, CertsSound, TypeOK
  <2>2. CertSound(known, d)'
    BY <2>1, CertStays DEF Sound
  <2>3. QED
    BY <2>1, <2>2 DEF CertSound
<1>2. QED
  BY <1>1 DEF CertsSound

LEMMA IdleSound ==
  ASSUME NEW c \in Commits, NEW stage \in Stages \ {"gate", "artifacts"},
         stage \in {"ready", "refused"} => \A w \in Mandatory : HasArtifact(w, c)
  PROVE  CertSound([IdleCert EXCEPT !.stage = stage], c)
<1> DEFINE k == [IdleCert EXCEPT !.stage = stage]
<1>1. k.stage = stage /\ \A w \in Mandatory : k.listing[w] = NoRun
  BY DEF IdleCert, NoListing
<1> HIDE DEF k
<1>2. CertSound(k, c)
  BY <1>1 DEF CertSound
<1>3. QED
  BY <1>2 DEF k

LEMMA AfreshSound ==
  ASSUME Sound, Evolves, NEW c \in Commits, NEW stage \in Stages \ {"gate", "artifacts"},
         stage \in {"ready", "refused"} => \A w \in Mandatory : HasArtifact(w, c),
         Afresh(c, stage)
  PROVE  CertsSound'
<1>1. [IdleCert EXCEPT !.stage = stage] \in CertStates
  BY IdleType
<1>2. CertSound([IdleCert EXCEPT !.stage = stage], c)
  BY IdleSound
<1>3. QED
  BY <1>1, <1>2, OneCertChanges DEF Afresh

LEMMA NotReadySound ==
  ASSUME Sound, Evolves, NEW c \in Commits, NotReady(c)
  PROVE  CertsSound'
<1>1. IdleCert = [IdleCert EXCEPT !.stage = "idle"]
  BY DEF IdleCert
<1>2. Afresh(c, "idle")
  BY <1>1 DEF NotReady, Afresh
<1>3. QED
  BY <1>2, AfreshSound DEF Stages

LEMMA GotoSound ==
  ASSUME Sound, Evolves, NEW c \in Commits, NEW stage \in Stages \ {"gate", "artifacts"},
         stage \in {"ready", "refused"} => \A w \in Mandatory : HasArtifact(w, c),
         Goto(c, stage)
  PROVE  CertsSound'
<1> DEFINE k == [cert[c] EXCEPT !.stage = stage]
<1>1. k \in CertStates /\ k.stage = stage /\ k.listing = cert[c].listing
  BY CertType DEF CertStates, Sound
<1>2. CertSound(cert[c], c)
  BY DEF Sound, CertsSound
<1>3. cert' = [cert EXCEPT ![c] = k]
  BY DEF Goto
<1> HIDE DEF k
<1>4. CertSound(k, c)
  BY <1>1, <1>2 DEF CertSound
<1>5. QED
  BY <1>1, <1>3, <1>4, OneCertChanges

(* What a listing shows is so when it is made. *)
LEMMA ListingSound ==
  ASSUME Sound, NEW c \in Commits, NEW w \in Mandatory,
         NEW l, l = latest_by_workflow(c)[w]
  PROVE  /\ l = NoRun \/ IsListed(w, c, l)
         /\ l # NoRun => NewestAt(w, c, l.id, l.run.attempt, clock)
<1>1. SUFFICES ASSUME l # NoRun
               PROVE  IsListed(w, c, l) /\ NewestAt(w, c, l.id, l.run.attempt, clock)
  OBVIOUS
<1>2. /\ l.id \in Eligible(w, c) /\ l.run = runs[l.id]
      /\ \A o \in Eligible(w, c) : o[3] <= l.id[3]
  BY <1>1, ListingType DEF Sound
<1>3. l.id \in RunIds /\ RunSound(l.id)
  BY <1>2 DEF Eligible, Sound, RunsSound
<1>4. \A o \in Eligible(w, c) : ~(o[3] > l.id[3])
  <2>1. \A o \in RunIds : o[3] \in Int
    BY ConstantsAssumption DEF RunIds
  <2>2. \A o \in Eligible(w, c) : o[3] \in Int
    BY <2>1 DEF Eligible
  <2>3. QED
    BY <1>2, <2>2
<1>5. ~(runs[l.id].attempt > l.run.attempt)
      /\ \A a \in past[l.id] : ~(a.attempt > l.run.attempt)
  BY <1>2, <1>3, RunType DEF RunSound, Sound
<1>6. QED
  BY <1>2, <1>3, <1>4, <1>5 DEF IsListed, NewestAt, RunSound

LEMMA PollRunsSound ==
  ASSUME Sound, Evolves, NEW c \in Commits, PollRuns(c)
  PROVE  CertsSound'
<1> DEFINE final == [cert[c] EXCEPT !.stage = "final", !.polls = cert[c].polls + 1,
                                    !.listing = latest_by_workflow(c)]
           poll == [cert[c] EXCEPT !.stage = "poll", !.polls = cert[c].polls + 1]
<1>1. cert[c].polls + 1 \in Nat /\ latest_by_workflow(c) \in [Mandatory -> Listed]
  BY CertType, ListingsType DEF Sound
<1>2. /\ final \in CertStates /\ final.stage = "final" /\ final.listing = latest_by_workflow(c)
      /\ poll \in CertStates /\ poll.stage = "poll" /\ poll.listing = cert[c].listing
  BY <1>1, CertType DEF CertStates, Stages, Sound
<1>3. cert' = [cert EXCEPT ![c] = final] \/ cert' = [cert EXCEPT ![c] = poll]
  BY DEF PollRuns
<1>4. CertSound(cert[c], c)
  BY DEF Sound, CertsSound
<1> HIDE DEF final, poll
<1>5. CertSound(final, c) /\ CertSound(poll, c)
  BY <1>2, <1>4, ListingSound DEF CertSound
<1>6. QED
  BY <1>2, <1>3, <1>5, OneCertChanges

LEMMA FinalCheckSound ==
  ASSUME Sound, Evolves, NEW c \in Commits, FinalCheck(c)
  PROVE  CertsSound'
<1> DEFINE checked == [cert[c] EXCEPT !.stage = "artifacts", !.todo = Mandatory]
<1>1. /\ checked \in CertStates /\ checked.stage = "artifacts" /\ checked.todo = Mandatory
      /\ checked.listing = cert[c].listing
  BY CertType DEF CertStates, Stages, Sound
<1>2. \/ NotReady(c)
      \/ cert' = [cert EXCEPT ![c] = checked] /\ decide(cert[c].listing)
  BY DEF FinalCheck
<1>3. CertSound(cert[c], c)
  BY DEF Sound, CertsSound
<1> HIDE DEF checked
<1>4. ASSUME decide(cert[c].listing)
      PROVE  CertSound(checked, c)
  BY <1>1, <1>3, <1>4, PassedIsListed DEF CertSound, decide, Sound
<1>5. QED
  BY <1>1, <1>2, <1>4, OneCertChanges, NotReadySound

LEMMA CheckArtifactSound ==
  ASSUME Sound, Evolves, NEW c \in Commits, NEW w \in Mandatory, CheckArtifact(c, w)
  PROVE  CertsSound'
<1> DEFINE l == cert[c].listing[w]
           checked == [cert[c] EXCEPT !.todo = cert[c].todo \ {w}]
<1>1. CertSound(cert[c], c) /\ cert[c].stage = "artifacts" /\ w \in cert[c].todo
  BY DEF Sound, CertsSound, CheckArtifact, At
<1>2. ASSUME artifact_ok(l)
      PROVE  HasArtifact(w, c)
  <2>1. l # NoRun /\ runs[l.id].artifact >= l.run.started
    BY <1>2 DEF artifact_ok
  <2>2. IsListed(w, c, l) /\ l.run.status = "completed" /\ l.run.conclusion = "success"
    BY <1>1, <2>1 DEF CertSound
  <2>3. /\ AttemptOf(l.run, l.run.conclusion) \in past[l.id] /\ l.id \in Eligible(w, c)
        /\ AttemptOf(l.run, l.run.conclusion).started = l.run.started
        /\ AttemptOf(l.run, l.run.conclusion).conclusion = "success"
    BY <2>2 DEF IsListed, AttemptOf
  <2>4. QED
    BY <2>1, <2>3 DEF HasArtifact
<1>3. CASE ~artifact_ok(l)
  BY <1>3, NotReadySound DEF CheckArtifact
<1>4. CASE artifact_ok(l) /\ cert[c].todo = {w}
  <2>1. \A v \in Mandatory : HasArtifact(v, c)
    BY <1>1, <1>2, <1>4 DEF CertSound
  <2>2. Afresh(c, "ready")
    BY <1>4 DEF CheckArtifact
  <2>3. QED
    BY <2>1, <2>2, AfreshSound DEF Stages
<1>5. CASE artifact_ok(l) /\ cert[c].todo # {w}
  <2>1. /\ checked \in CertStates /\ checked.stage = "artifacts"
        /\ checked.todo = cert[c].todo \ {w} /\ checked.listing = cert[c].listing
    BY <1>1, CertType DEF CertStates, Sound
  <2>2. cert' = [cert EXCEPT ![c] = checked]
    BY <1>5 DEF CheckArtifact
  <2> HIDE DEF checked
  <2>3. CertSound(checked, c)
    BY <1>1, <1>2, <1>5, <2>1 DEF CertSound
  <2>4. QED
    BY <2>1, <2>2, <2>3, OneCertChanges
<1>6. QED
  BY <1>3, <1>4, <1>5

LEMMA CollectSound ==
  ASSUME Sound, Evolves, NEW c \in Commits, Collect(c)
  PROVE  CertsSound'
<1> DEFINE collected == [cert[c] EXCEPT !.stage = "gate", !.listing = latest_by_workflow(c),
                                        !.listed = clock, !.main = head]
<1>1. latest_by_workflow(c) \in [Mandatory -> Listed] /\ clock \in Times /\ clock \in Int
      /\ head \in 1..LastCommit
  BY ListingsType, ConstantsAssumption DEF TypeOK, Sound, Times
<1>2. /\ collected \in CertStates /\ collected.stage = "gate"
      /\ collected.listing = latest_by_workflow(c) /\ collected.listed = clock
  BY <1>1, CertType DEF CertStates, Stages, Sound
<1>3. cert' = [cert EXCEPT ![c] = collected]
  BY DEF Collect
<1>4. \A w \in Mandatory : HasArtifact(w, c)
  BY DEF Sound, CertsSound, CertSound, Collect, At
<1> HIDE DEF collected
<1>5. CertSound(collected, c)
  BY <1>1, <1>2, <1>4, ListingSound DEF CertSound
<1>6. QED
  BY <1>2, <1>3, <1>5, OneCertChanges

-----------------------------------------------------------------------------
(* The gate: a certificate is sound when it is given. *)
LEMMA GivenSound ==
  ASSUME Sound, NEW c \in Commits, At(c, "gate"), decide(cert[c].listing),
         NEW x, x = Certificate(c)
  PROVE  x \in Certificates /\ CertificateSound(x)
<1>1. CertSound(cert[c], c) /\ cert[c].stage = "gate"
  BY DEF Sound, CertsSound, At
<1>2. /\ x.commit = c /\ x.at = clock /\ x.listed = cert[c].listed
      /\ x.evidence = evidence(cert[c].listing)
  BY DEF Certificate
<1>3. ASSUME NEW w \in Mandatory
      PROVE  /\ x.evidence[w][1] \in Eligible(w, c)
             /\ \E a \in past[x.evidence[w][1]] : /\ a.attempt = x.evidence[w][2]
                                                  /\ a.conclusion = "success"
                                                  /\ x.at - a.started <= MaxAge
             /\ NewestAt(w, c, x.evidence[w][1], x.evidence[w][2], x.listed)
             /\ HasArtifact(w, c)
  <2> DEFINE l == cert[c].listing[w]
             attempt == AttemptOf(l.run, l.run.conclusion)
  <2>1. x.evidence[w][1] = l.id /\ x.evidence[w][2] = l.run.attempt
    BY <1>2 DEF evidence
  <2>2. /\ l # NoRun /\ l.run.status = "completed" /\ l.run.conclusion = "success"
        /\ clock - l.run.started <= MaxAge
    BY PassedIsListed DEF decide, Sound
  <2>3. l.id \in Eligible(w, c) /\ attempt \in past[l.id]
    BY <1>1, <2>2 DEF CertSound, IsListed
  <2>4. attempt.attempt = l.run.attempt /\ attempt.conclusion = "success"
        /\ attempt.started = l.run.started
    BY <2>2 DEF AttemptOf
  <2>5. NewestAt(w, c, l.id, l.run.attempt, cert[c].listed) /\ HasArtifact(w, c)
    BY <1>1, <2>2 DEF CertSound
  <2> HIDE DEF l, attempt
  <2>6. QED
    BY <1>2, <2>1, <2>2, <2>3, <2>4, <2>5
<1>4. x \in Certificates
  BY CertificateType DEF Sound
<1>5. QED
  BY <1>1, <1>2, <1>3, <1>4 DEF CertSound, CertificateSound

LEMMA CertificatesStay ==
  ASSUME Sound, Evolves, NEW new, \A x \in new : x \in Certificates /\ CertificateSound(x),
         certificates' = certificates \cup new
  PROVE  CertificatesSound'
<1>1. ASSUME NEW x \in certificates'
      PROVE  CertificateSound(x)'
  <2>1. x \in Certificates /\ CertificateSound(x)
    BY DEF Sound, TypeOK, CertificatesSound
  <2>2. QED
    BY <2>1, CertificateStays DEF Sound
<1>2. QED
  BY <1>1 DEF CertificatesSound

LEMMA SoundInit == Init => Sound
<1> SUFFICES ASSUME Init
             PROVE  Sound
  OBVIOUS
<1>1. TypeOK
  BY TypeInit
<1>2. RunsSound
  <2>1. ASSUME NEW id \in RunIds
        PROVE  RunSound(id)
    <3>1. PICK ids \in SUBSET FirstRuns(1) :
            runs = [i \in RunIds |-> IF i \in ids THEN Started(1, None) ELSE Absent]
      BY DEF Init
    <3>2. runs[id] = Started(1, None) \/ runs[id] = Absent
      BY <3>1
    <3>3. runs[id].started = 0 /\ runs[id].artifact = None /\ runs[id].status # "completed"
      <4>1. CASE runs[id] = Started(1, None)
        <5>1. clock = 0
          BY DEF Init
        <5>2. /\ Started(1, None).started = clock /\ Started(1, None).artifact = None
              /\ Started(1, None).status = "in_progress"
          BY StartedFields
        <5>3. QED
          BY <4>1, <5>1, <5>2
      <4>2. CASE runs[id] = Absent
        <5>1. Absent.started = 0 /\ Absent.artifact = None /\ Absent.status = "absent"
          BY DEF Absent
        <5>2. QED
          BY <4>2, <5>1
      <4>3. QED
        BY <3>2, <4>1, <4>2
    <3>4. past[id] = {} /\ clock = 0 /\ None <= 0
      BY DEF Init, None
    <3>5. QED
      BY <3>3, <3>4 DEF RunSound
  <2>2. QED
    BY <2>1 DEF RunsSound
<1>3. CertsSound
  <2>1. IdleCert = [IdleCert EXCEPT !.stage = "idle"]
    BY DEF IdleCert
  <2>2. \A c \in Commits : CertSound(IdleCert, c)
    BY <2>1, IdleSound DEF Stages
  <2>3. QED
    BY <2>2 DEF CertsSound, Init
<1>4. CertificatesSound
  BY DEF CertificatesSound, Init
<1>5. QED
  BY <1>1, <1>2, <1>3, <1>4 DEF Sound

LEMMA SoundStep ==
  ASSUME Sound, [Next]_vars
  PROVE  Sound'
<1>1. TypeOK'
  BY TypeStep DEF Sound
<1>2. Evolves /\ RunsSound'
  BY <1>1, NextEvolves DEF Sound
<1>3. CertsSound'
  <2>1. ASSUME NEW c \in Commits, Start(c)
        PROVE  CertsSound'
    BY <1>2, <2>1, AfreshSound DEF Start, Stages
  <2>2. ASSUME NEW c \in Commits, Resolve(c) \/ PollMain(c)
        PROVE  CertsSound'
    BY <1>2, <2>2, GotoSound, NotReadySound DEF Resolve, PollMain, Stages
  <2>3. ASSUME NEW c \in Commits, Gate(c)
        PROVE  CertsSound'
    <3>1. \A w \in Mandatory : HasArtifact(w, c)
      BY <2>3, GateFacts DEF Sound, CertsSound, CertSound, At
    <3>2. QED
      BY <1>2, <2>3, <3>1, GateFacts, AfreshSound, NotReadySound DEF Stages
  <2>4. ASSUME NEW c \in Commits, RerunCertify(c)
        PROVE  CertsSound'
    <3>1. \A w \in Mandatory : HasArtifact(w, c)
      BY <2>4 DEF RerunCertify, Sound, CertsSound, CertSound, At
    <3>2. QED
      BY <1>2, <2>4, <3>1, GotoSound DEF RerunCertify, Stages
  <2>5. ASSUME NEW c \in Commits, Kill(c)
        PROVE  CertsSound'
    <3>1. CASE cert[c].stage \in {"ready", "gate"}
      <4>1. \A w \in Mandatory : HasArtifact(w, c)
        BY <3>1 DEF Sound, CertsSound, CertSound
      <4>2. Afresh(c, "refused")
        BY <2>5, <3>1 DEF Kill
      <4>3. QED
        BY <1>2, <4>1, <4>2, AfreshSound DEF Stages
    <3>2. CASE cert[c].stage \notin {"ready", "gate"}
      BY <1>2, <2>5, <3>2, NotReadySound DEF Kill
    <3>3. QED
      BY <3>1, <3>2
  <2>6. ASSUME NEW c \in Commits, Step(c), ~(Resolve(c) \/ PollMain(c) \/ Gate(c))
        PROVE  CertsSound'
    BY <1>2, <2>6, PollRunsSound, FinalCheckSound, CheckArtifactSound, CollectSound DEF Step
  <2>7. ASSUME cert' = cert
        PROVE  CertsSound'
    BY <1>2, <2>7, NoCertChanges
  <2>8. Push \/ Tick \/ (\E id \in RunIds : RunAgain(id) \/ Rerun(id) \/ Complete(id))
          \/ (\E c \in Commits : Request(c)) \/ UNCHANGED vars => cert' = cert
    BY DEF Push, Tick, RunAgain, Rerun, Complete, Request, vars
  <2>9. QED
    BY <2>1, <2>2, <2>3, <2>4, <2>5, <2>6, <2>7, <2>8 DEF Next
<1>4. CertificatesSound'
  <2>1. ASSUME certificates' = certificates
        PROVE  CertificatesSound'
    <3>1. PICK new : new = {}
      OBVIOUS
    <3>2. certificates' = certificates \cup new
      BY <2>1, <3>1
    <3>3. \A x \in new : x \in Certificates /\ CertificateSound(x)
      BY <3>1
    <3>4. QED
      BY <1>2, <3>2, <3>3, CertificatesStay
  <2>2. ASSUME NEW c \in Commits, Gate(c)
        PROVE  CertificatesSound'
    <3>1. CASE decide(cert[c].listing) /\ certificates' = certificates \cup {Certificate(c)}
      <4>1. \A x \in {Certificate(c)} : x \in Certificates /\ CertificateSound(x)
        BY <2>2, <3>1, GateFacts, GivenSound
      <4>2. PICK new : new = {Certificate(c)}
        OBVIOUS
      <4>3. QED
        BY <1>2, <3>1, <4>1, <4>2, CertificatesStay
    <3>2. CASE certificates' = certificates
      BY <2>1, <3>2
    <3>3. QED
      BY <2>2, <3>1, <3>2, GateFacts
  <2>3. (\E c \in Commits : Gate(c)) \/ certificates' = certificates
    BY DEF Next, vars, Push, Tick, RunAgain, Rerun, Complete, Request, Start, Step, RerunCertify,
           Kill, Resolve, PollMain, PollRuns, FinalCheck, CheckArtifact, Collect, JobOnly
  <2>4. QED
    BY <2>1, <2>2, <2>3
<1>5. QED
  BY <1>1, <1>2, <1>3, <1>4 DEF Sound

LEMMA AlwaysSound == Spec => []Sound
<1>1. Sound /\ [Next]_vars => Sound'
  BY SoundStep
<1>2. QED
  BY <1>1, SoundInit, PTL DEF Spec

-----------------------------------------------------------------------------
(* A certificate rests on passed, fresh attempts of eligible runs of its   *)
(* commit, one for each mandatory workflow (qa_release_gate.py).           *)
THEOREM CertificatesBacked == Spec => []CertificateIsBacked
<1>1. Sound => CertificateIsBacked
  BY DEF Sound, CertificatesSound, CertificateSound, CertificateIsBacked, Eligible
<1>2. QED
  BY <1>1, AlwaysSound, PTL

(* What is newer than the evidence of a certificate began after the        *)
(* certify job's listing (latest_by_workflow).                             *)
THEOREM NewestCounts == Spec => []NewestVerdictCounts
<1>1. Sound => NewestVerdictCounts
  BY DEF Sound, CertificatesSound, CertificateSound, NewestAt, NewestVerdictCounts
<1>2. QED
  BY <1>1, AlwaysSound, PTL

(* A certified commit has an artifact of a passed attempt, or of a later   *)
(* one, for each mandatory workflow, although the certify job does not     *)
(* look at artifacts (qa-release-certification.yml).                       *)
THEOREM ArtifactsOwn == Spec => []CertifiedHasOwnArtifacts
<1>1. Sound => CertifiedHasOwnArtifacts
  BY DEF Sound, CertificatesSound, CertificateSound, HasArtifact, CertifiedHasOwnArtifacts
<1>2. QED
  BY <1>1, AlwaysSound, PTL
=============================================================================

---------------------------- MODULE QualityHistory ----------------------------
(***************************************************************************)
(* The hash-chained quality history of src/saqa/history.py and the process *)
(* that appends to it and verifies it (scripts/generate_qe_observability). *)
(*                                                                         *)
(* The file is a sequence of lines.  An append is written in three parts,  *)
(* the text up to some point, its rest, the newline: other processes and   *)
(* crashes come in between, and a reader sees what is there.  SHA-256 is   *)
(* ideal: the digest of an entry is the sequence of payloads up to it.     *)
(***************************************************************************)
EXTENDS Sequences, Integers, FiniteSets

CONSTANTS
  Writers,     \* processes that append to one history
  Nobody,      \* no process
  Payloads,    \* commit and records of an append
  HasFcntl,    \* the platform has fcntl
  MaxAppends,  \* bound: appends begun
  MaxCrashes   \* bound: processes that die, or whose write fails, half way

ASSUME ConstantsAssumption ==
  /\ Nobody \notin Writers
  /\ HasFcntl \in BOOLEAN
  /\ MaxAppends \in Nat /\ MaxCrashes \in Nat

VARIABLES
  file,      \* lines: an entry, and how much of it is on the line
  ended,     \* the last line has its newline
  holder,    \* who holds the lock file's flock
  pc,        \* pc[w]: the next step of process w
  payload,   \* payload[w]: what w appends
  previous,  \* previous[w]: the digest w chains its entry to
  acked,     \* digests append_history has returned
  appends, crashes

vars == <<file, ended, holder, pc, payload, previous, acked, appends, crashes>>

GENESIS == <<>>
Locations == {"idle", "lock", "check", "read", "head", "tail", "end", "unlock", "verify"}
Lines == [previous : Seq(Payloads), payload : Payloads, state : {"head", "full", "corrupt"}]

TypeOK ==
  /\ file \in Seq(Lines)
  /\ ended \in BOOLEAN
  /\ holder \in Writers \cup {Nobody}
  /\ pc \in [Writers -> Locations]
  /\ payload \in [Writers -> Payloads]
  /\ previous \in [Writers -> Seq(Payloads)]
  /\ acked \subseteq Seq(Payloads)
  /\ appends \in Nat /\ crashes \in Nat

Init ==
  /\ file = <<>> /\ ended = TRUE
  /\ holder = Nobody
  /\ pc = [w \in Writers |-> "idle"]
  /\ payload \in [Writers -> Payloads]
  /\ previous = [w \in Writers |-> GENESIS]
  /\ acked = {}
  /\ appends = 0 /\ crashes = 0

-----------------------------------------------------------------------------
digest(line) == Append(line.previous, line.payload)

(* The digest the line after the i-th must name. *)
tip(i) == IF i = 0 THEN GENESIS ELSE digest(file[i])

(* Mutant: the links are checked, whole lines are not. *)
verify_links == file # <<>> /\ \A i \in 1..Len(file) : file[i].previous = tip(i - 1)

verify_history ==
  /\ file # <<>>
  /\ \A i \in 1..Len(file) : file[i].state = "full" /\ file[i].previous = tip(i - 1)

Mark(state) == [file EXCEPT ![Len(file)].state = state]

(* Mutant: the entry does not name its predecessor. *)
NewLineUnchained(w, state) == Append(file, [payload |-> payload[w], state |-> state])

NewLine(w, state) ==
  Append(file, [previous |-> previous[w], payload |-> payload[w], state |-> state])
OwnLine(w) ==
  /\ ~ended /\ file # <<>>
  /\ file[Len(file)] = [previous |-> previous[w], payload |-> payload[w], state |-> "head"]

Goto(w, location) == pc' = [pc EXCEPT ![w] = location]

-----------------------------------------------------------------------------
Begin(w) ==
  /\ pc[w] = "idle" /\ appends < MaxAppends
  /\ \E p \in Payloads : payload' = [payload EXCEPT ![w] = p]
  /\ appends' = appends + 1
  /\ Goto(w, "lock")
  /\ UNCHANGED <<file, ended, holder, previous, acked, crashes>>

(* Mutant: the lock is shared. *)
LockShared(w) ==
  /\ pc[w] = "lock"
  /\ holder' = w
  /\ Goto(w, "check")
  /\ UNCHANGED <<file, ended, payload, previous, acked, appends, crashes>>

(* flock(LOCK_EX), or nothing where fcntl does not exist. *)
Lock(w) ==
  /\ pc[w] = "lock"
  /\ IF HasFcntl THEN holder = Nobody /\ holder' = w ELSE UNCHANGED holder
  /\ Goto(w, "check")
  /\ UNCHANGED <<file, ended, payload, previous, acked, appends, crashes>>

(* Mutant: the lock outlives the process that held it. *)
UnlockedNever(w) == holder

Unlocked(w) == IF holder = w THEN Nobody ELSE holder

(* An empty or absent file starts a chain; a file that does not verify     *)
(* raises "cannot append to corrupted quality history".                    *)
Check(w) ==
  /\ pc[w] = "check"
  /\ \/ /\ file = <<>>
        /\ Goto(w, "head")
        /\ previous' = [previous EXCEPT ![w] = GENESIS]
        /\ UNCHANGED holder
     \/ /\ verify_history
        /\ Goto(w, "read")
        /\ UNCHANGED <<previous, holder>>
     \/ /\ file # <<>> /\ ~verify_history
        /\ Goto(w, "idle")
        /\ holder' = Unlocked(w)
        /\ UNCHANGED previous
  /\ UNCHANGED <<file, ended, payload, acked, appends, crashes>>

(* The file is read again for the last digest; a last line that does not   *)
(* parse raises.                                                           *)
Read(w) ==
  /\ pc[w] = "read"
  /\ IF file[Len(file)].state = "full"
     THEN /\ previous' = [previous EXCEPT ![w] = tip(Len(file))]
          /\ Goto(w, "head")
          /\ UNCHANGED holder
     ELSE /\ Goto(w, "idle")
          /\ holder' = Unlocked(w)
          /\ UNCHANGED previous
  /\ UNCHANGED <<file, ended, payload, acked, appends, crashes>>

(* open("a"): whatever is written goes to the end of the file, onto the    *)
(* last line if that has no newline.                                       *)
WriteHead(w) ==
  /\ pc[w] = "head"
  /\ IF ended THEN file' = NewLine(w, "head") ELSE file' = Mark("corrupt")
  /\ ended' = FALSE
  /\ Goto(w, "tail")
  /\ UNCHANGED <<holder, payload, previous, acked, appends, crashes>>

WriteTail(w) ==
  /\ pc[w] = "tail"
  /\ IF OwnLine(w) THEN file' = Mark("full")
     ELSE IF ended THEN file' = NewLine(w, "corrupt") ELSE file' = Mark("corrupt")
  /\ ended' = FALSE
  /\ Goto(w, "end")
  /\ UNCHANGED <<holder, payload, previous, acked, appends, crashes>>

WriteEnd(w) ==
  /\ pc[w] = "end"
  /\ ended' = TRUE
  /\ Goto(w, "unlock")
  /\ UNCHANGED <<file, holder, payload, previous, acked, appends, crashes>>

(* append_history returns the digest of its entry. *)
Unlock(w) ==
  /\ pc[w] = "unlock"
  /\ holder' = Unlocked(w)
  /\ acked' = acked \cup {Append(previous[w], payload[w])}
  /\ Goto(w, "verify")
  /\ UNCHANGED <<file, ended, payload, previous, appends, crashes>>

(* "if not verify_history(history): raise SystemExit", without the lock. *)
Verify(w) ==
  /\ pc[w] = "verify"
  /\ Goto(w, "idle")
  /\ UNCHANGED <<file, ended, holder, payload, previous, acked, appends, crashes>>

(* The process dies or its write fails; either way its flock goes away. *)
Crash(w) ==
  /\ pc[w] # "idle" /\ crashes < MaxCrashes
  /\ crashes' = crashes + 1
  /\ holder' = Unlocked(w)
  /\ Goto(w, "idle")
  /\ UNCHANGED <<file, ended, payload, previous, acked, appends>>

Step(w) ==
  Lock(w) \/ Check(w) \/ Read(w) \/ WriteHead(w) \/ WriteTail(w) \/ WriteEnd(w)
    \/ Unlock(w) \/ Verify(w)

Next == \E w \in Writers : Begin(w) \/ Step(w) \/ Crash(w)

Spec == Init /\ [][Next]_vars

(* A process that runs keeps running, and flock is granted to every        *)
(* process that keeps asking.                                              *)
FairSpec == Spec /\ \A w \in Writers : WF_vars(Step(w)) /\ SF_vars(Lock(w))

-----------------------------------------------------------------------------
(* A history that nobody is writing verifies (append_history leaves a      *)
(* chain from GENESIS, whatever the order of the appends).                 *)
QuietHistoryVerifies ==
  (\A w \in Writers : pc[w] \notin {"tail", "end"}) /\ file # <<>> => verify_history

(* A digest that append_history returned stays the digest of a line of the *)
(* history: what a caller was told is recorded is never lost.              *)
AcknowledgedIsRecorded ==
  \A d \in acked : \E i \in 1..Len(file) : file[i].state = "full" /\ digest(file[i]) = d

(* Nothing is built on a damaged line: only the last line of the file can  *)
(* be incomplete or garbled, and those before it are one chain, even after *)
(* crashes (append_history refuses a history that does not verify).        *)
NothingFollowsDamage ==
  \A i \in 1..(Len(file) - 1) : file[i].state = "full" /\ file[i].previous = tip(i - 1)

(* A crash can cost an acknowledged entry: an append that starts on a line *)
(* whose newline was never written spoils it, and its own.  It never costs *)
(* one unnoticed: from then on the history does not verify, and no append  *)
(* is accepted (append_history, verify_history).                           *)
LossIsNoticed == verify_history => AcknowledgedIsRecorded

(* Every append that has begun ends, successfully or not: no crash leaves  *)
(* the lock taken.                                                         *)
AppendsEnd == \A w \in Writers : pc[w] = "lock" ~> pc[w] = "idle"

(* The payloads of the lines that are whole, as the log of HistoryLog.     *)
Whole == IF file # <<>> /\ file[Len(file)].state # "full" THEN Len(file) - 1 ELSE Len(file)
Log == INSTANCE HistoryLog WITH log <- tip(Whole)
ImplementsLog == Log!Spec
=============================================================================

------------------------- MODULE QualityHistoryProofs -------------------------
(***************************************************************************)
(* Proofs about QualityHistory for any number of processes and appends.    *)
(***************************************************************************)
EXTENDS QualityHistory, TLAPS

Writing == {"tail", "end"}
Critical == {"check", "read", "head", "tail", "end", "unlock"}

(* The first n lines are one chain of whole lines. *)
Chain(n) == \A i \in 1..n : file[i].state = "full" /\ file[i].previous = tip(i - 1)

(* With fcntl, the process in the critical section holds the lock. *)
Locked == \A w \in Writers : pc[w] \in Critical => holder = w

LEMMA LineTypes ==
  ASSUME TypeOK, NEW i \in 1..Len(file)
  PROVE  /\ file[i] \in Lines /\ digest(file[i]) \in Seq(Payloads)
         /\ tip(i) = digest(file[i])
<1>1. file[i] \in Lines
  BY DEF TypeOK
<1>2. digest(file[i]) \in Seq(Payloads)
  <2>1. file[i].previous \in Seq(Payloads) /\ file[i].payload \in Payloads
    BY <1>1 DEF Lines
  <2>2. QED
    BY <2>1 DEF digest
<1>3. tip(i) = digest(file[i])
  <2>1. i # 0
    BY DEF TypeOK
  <2>2. QED
    BY <2>1 DEF tip
<1>4. QED
  BY <1>1, <1>2, <1>3

LEMMA TipType ==
  ASSUME TypeOK, NEW i \in 0..Len(file)
  PROVE  tip(i) \in Seq(Payloads)
BY LineTypes DEF tip, GENESIS

(* What Mark changes: the state of the last line, and no digest. *)
LEMMA MarkFacts ==
  ASSUME TypeOK, file # <<>>, NEW s \in {"head", "full", "corrupt"}, file' = Mark(s)
  PROVE  /\ file' \in Seq(Lines) /\ Len(file') = Len(file) /\ Len(file) > 0
         /\ \A i \in 1..Len(file) : i # Len(file) => file'[i] = file[i]
         /\ file'[Len(file)].state = s
         /\ file'[Len(file)].previous = file[Len(file)].previous
         /\ file'[Len(file)].payload = file[Len(file)].payload
         /\ \A i \in 0..Len(file) : tip(i)' = tip(i)
<1>1. Len(file) \in Nat /\ Len(file) > 0 /\ file[Len(file)] \in Lines
  BY DEF TypeOK
<1>2. file' = [file EXCEPT ![Len(file)] = [file[Len(file)] EXCEPT !.state = s]]
  BY DEF Mark
<1>3. [file[Len(file)] EXCEPT !.state = s] \in Lines
  BY <1>1 DEF Lines
<1>4. /\ file' \in Seq(Lines) /\ Len(file') = Len(file)
      /\ \A i \in 1..Len(file) : i # Len(file) => file'[i] = file[i]
      /\ file'[Len(file)] = [file[Len(file)] EXCEPT !.state = s]
  <2> DEFINE line == [file[Len(file)] EXCEPT !.state = s]
             n == Len(file)
  <2>1. line \in Lines /\ n \in 1..Len(file) /\ file \in Seq(Lines)
    BY <1>1, <1>3 DEF TypeOK
  <2>2. file' = [file EXCEPT ![n] = line]
    BY <1>2
  <2>3. file' \in Seq(Lines) /\ Len(file') = Len(file)
        /\ \A i \in 1..Len(file) : file'[i] = IF i = n THEN line ELSE file[i]
    <3> HIDE DEF line, n
    <3>1. QED
      BY <2>1, <2>2
  <2>4. QED
    BY <2>1, <2>3
<1>5. /\ file'[Len(file)].state = s
      /\ file'[Len(file)].previous = file[Len(file)].previous
      /\ file'[Len(file)].payload = file[Len(file)].payload
  BY <1>1, <1>4 DEF Lines
<1>6. ASSUME NEW i \in 0..Len(file)
      PROVE  tip(i)' = tip(i)
  <2>1. i # 0 => /\ file'[i].previous = file[i].previous
                 /\ file'[i].payload = file[i].payload
    <3>1. CASE i = Len(file)
      BY <1>5, <3>1
    <3>2. CASE i # Len(file) /\ i # 0
      <4>1. i \in 1..Len(file)
        BY <1>1, <3>2
      <4>2. QED
        BY <1>4, <3>2, <4>1
    <3>3. QED
      BY <3>1, <3>2
  <2>2. i # 0 => digest(file'[i]) = digest(file[i])
    BY <2>1 DEF digest
  <2>3. QED
    BY <2>2 DEF tip
<1>7. QED
  BY <1>1, <1>4, <1>5, <1>6

LEMMA NewLineFacts ==
  ASSUME TypeOK, NEW w \in Writers, NEW s \in {"head", "full", "corrupt"},
         file' = NewLine(w, s)
  PROVE  /\ file' \in Seq(Lines) /\ Len(file') = Len(file) + 1 /\ Len(file) \in Nat
         /\ \A i \in 1..Len(file) : file'[i] = file[i]
         /\ file'[Len(file) + 1] =
              [previous |-> previous[w], payload |-> payload[w], state |-> s]
         /\ \A i \in 0..Len(file) : tip(i)' = tip(i)
<1>1. [previous |-> previous[w], payload |-> payload[w], state |-> s] \in Lines
  BY DEF TypeOK, Lines
<1>2. /\ file' \in Seq(Lines) /\ Len(file') = Len(file) + 1 /\ Len(file) \in Nat
      /\ \A i \in 1..Len(file) : file'[i] = file[i]
      /\ file'[Len(file) + 1] =
           [previous |-> previous[w], payload |-> payload[w], state |-> s]
  BY <1>1 DEF NewLine, TypeOK
<1>3. QED
  BY <1>2 DEF tip, digest

(* An empty file awaits no newline. *)
EmptyEnded == file = <<>> => ended

LEMMA InitTypeOK == Init => TypeOK /\ EmptyEnded
BY ConstantsAssumption DEF Init, TypeOK, EmptyEnded, Locations, GENESIS

LEMMA StepTypeOK ==
  ASSUME TypeOK, EmptyEnded, NEW w \in Writers, Step(w)
  PROVE  TypeOK' /\ EmptyEnded'
<1>1. CASE Lock(w)
  BY <1>1 DEF Lock, Goto, TypeOK, EmptyEnded, Locations
<1>2. CASE Check(w)
  <2>1. GENESIS \in Seq(Payloads)
    BY DEF GENESIS
  <2>2. previous' \in [Writers -> Seq(Payloads)]
    BY <1>2, <2>1 DEF Check, TypeOK
  <2>3. holder' \in Writers \cup {Nobody} /\ pc' \in [Writers -> Locations]
    BY <1>2 DEF Check, Goto, Unlocked, TypeOK, Locations
  <2>4. QED
    BY <1>2, <2>2, <2>3 DEF Check, TypeOK, EmptyEnded
<1>3. CASE Read(w)
  <2>1. tip(Len(file)) \in Seq(Payloads)
    BY TipType DEF TypeOK
  <2>2. previous' \in [Writers -> Seq(Payloads)]
    BY <1>3, <2>1 DEF Read, TypeOK
  <2>3. holder' \in Writers \cup {Nobody} /\ pc' \in [Writers -> Locations]
    BY <1>3 DEF Read, Goto, Unlocked, TypeOK, Locations
  <2>4. QED
    BY <1>3, <2>2, <2>3 DEF Read, TypeOK, EmptyEnded
<1>4. CASE WriteHead(w)
  <2>1. file' \in Seq(Lines) /\ file' # <<>>
    <3>1. CASE ended
      <4>1. file' = NewLine(w, "head")
        BY <1>4, <3>1 DEF WriteHead
      <4>2. file' \in Seq(Lines) /\ Len(file') = Len(file) + 1 /\ Len(file) \in Nat
        BY <4>1, NewLineFacts
      <4>3. QED
        BY <4>2
    <3>2. CASE ~ended
      <4>1. file # <<>> /\ file' = Mark("corrupt")
        BY <1>4, <3>2 DEF WriteHead, EmptyEnded
      <4>2. file' \in Seq(Lines) /\ Len(file') = Len(file) /\ Len(file) > 0
        BY <4>1, MarkFacts
      <4>3. QED
        BY <4>2
    <3>3. QED
      BY <3>1, <3>2
  <2>2. QED
    BY <1>4, <2>1 DEF WriteHead, Goto, TypeOK, EmptyEnded, Locations
<1>5. CASE WriteTail(w)
  <2>1. file' \in Seq(Lines) /\ file' # <<>>
    <3>1. CASE file' = NewLine(w, "corrupt")
      <4>1. file' \in Seq(Lines) /\ Len(file') = Len(file) + 1 /\ Len(file) \in Nat
        BY <3>1, NewLineFacts
      <4>2. QED
        BY <4>1
    <3>2. CASE ~ended /\ \E s \in {"head", "full", "corrupt"} : file' = Mark(s)
      <4>1. file' \in Seq(Lines) /\ Len(file') = Len(file) /\ Len(file) > 0
        BY <3>2, MarkFacts DEF EmptyEnded
      <4>2. QED
        BY <4>1
    <3>3. QED
      BY <1>5, <3>1, <3>2 DEF WriteTail, OwnLine, TypeOK
  <2>2. QED
    BY <1>5, <2>1 DEF WriteTail, Goto, TypeOK, EmptyEnded, Locations
<1>6. CASE WriteEnd(w)
  BY <1>6 DEF WriteEnd, Goto, TypeOK, EmptyEnded, Locations
<1>7. CASE Unlock(w)
  <2>1. Append(previous[w], payload[w]) \in Seq(Payloads)
    BY DEF TypeOK
  <2>2. acked' \subseteq Seq(Payloads)
    BY <1>7, <2>1 DEF Unlock, TypeOK
  <2>3. QED
    BY <1>7, <2>2 DEF Unlock, Goto, Unlocked, TypeOK, EmptyEnded, Locations
<1>8. CASE Verify(w)
  BY <1>8 DEF Verify, Goto, TypeOK, EmptyEnded, Locations
<1>9. QED
  BY <1>1, <1>2, <1>3, <1>4, <1>5, <1>6, <1>7, <1>8 DEF Step

LEMMA NextTypeOK ==
  ASSUME TypeOK, EmptyEnded, [Next]_vars
  PROVE  TypeOK' /\ EmptyEnded'
<1>1. CASE UNCHANGED vars
  BY <1>1 DEF vars, TypeOK, EmptyEnded
<1>2. ASSUME NEW w \in Writers, Begin(w)
      PROVE  TypeOK' /\ EmptyEnded'
  BY <1>2 DEF Begin, Goto, TypeOK, EmptyEnded, Locations
<1>3. ASSUME NEW w \in Writers, Crash(w)
      PROVE  TypeOK' /\ EmptyEnded'
  BY <1>3 DEF Crash, Goto, Unlocked, TypeOK, EmptyEnded, Locations
<1>4. QED
  BY <1>1, <1>2, <1>3, StepTypeOK DEF Next

(* Every variable keeps its type.                                          *)
THEOREM HistoryTypes == Spec => []TypeOK
<1>1. QED
  BY InitTypeOK, NextTypeOK, PTL DEF Spec

-----------------------------------------------------------------------------
(***************************************************************************)
(* With the lock, and with any number of crashes, only the last line can   *)
(* be damaged.                                                             *)
(***************************************************************************)
Undamaged ==
  /\ Locked
  /\ NothingFollowsDamage
  /\ \A w \in Writers :
       /\ pc[w] \in {"read", "head"} => file = <<>> \/ verify_history
       /\ pc[w] = "tail" => ~ended

LEMMA LockedStep ==
  ASSUME TypeOK, Locked, HasFcntl, [Next]_vars
  PROVE  Locked'
<1>1. CASE UNCHANGED vars
  BY <1>1 DEF vars, Locked
<1>2. ASSUME NEW w \in Writers, Begin(w) \/ Crash(w)
      PROVE  Locked'
  BY <1>2 DEF Begin, Crash, Goto, Unlocked, Locked, Critical, TypeOK
<1>3. ASSUME NEW w \in Writers, Lock(w)
      PROVE  Locked'
  BY <1>3, ConstantsAssumption DEF Lock, Goto, Locked, TypeOK
<1>4. ASSUME NEW w \in Writers, Check(w) \/ Read(w) \/ WriteHead(w) \/ WriteTail(w)
      PROVE  Locked'
  BY <1>4 DEF Check, Read, WriteHead, WriteTail, Goto, Unlocked, Locked, Critical, TypeOK
<1>5. ASSUME NEW w \in Writers, WriteEnd(w) \/ Unlock(w) \/ Verify(w)
      PROVE  Locked'
  BY <1>5 DEF WriteEnd, Unlock, Verify, Goto, Unlocked, Locked, Critical, TypeOK
<1>6. QED
  BY <1>1, <1>2, <1>3, <1>4, <1>5 DEF Next, Step

(* A step that leaves the file alone and moves one process anywhere but to *)
(* a place that relies on the file.                                        *)
LEMMA UndamagedElsewhere ==
  ASSUME Undamaged, Locked', UNCHANGED <<file, ended>>,
         \A w \in Writers : pc'[w] \in {"read", "head", "tail"} => pc'[w] = pc[w]
  PROVE  Undamaged'
BY DEF Undamaged, NothingFollowsDamage, verify_history, tip, digest

LEMMA NextUndamaged ==
  ASSUME TypeOK, EmptyEnded, Undamaged, HasFcntl, [Next]_vars
  PROVE  Undamaged'
<1>1. Locked'
  BY LockedStep DEF Undamaged
<1>2. CASE UNCHANGED vars
  BY <1>1, <1>2, UndamagedElsewhere DEF vars
<1>3. ASSUME NEW w \in Writers, Begin(w) \/ Crash(w) \/ Lock(w) \/ Unlock(w) \/ Verify(w)
      PROVE  Undamaged'
  <2>1. /\ UNCHANGED <<file, ended>>
        /\ \A v \in Writers : pc'[v] \in {"read", "head", "tail"} => pc'[v] = pc[v]
    BY <1>3 DEF Begin, Crash, Lock, Unlock, Verify, Goto, TypeOK
  <2>2. QED
    BY <1>1, <2>1, UndamagedElsewhere
<1>4. ASSUME NEW w \in Writers, Check(w) \/ Read(w)
      PROVE  Undamaged'
  <2>1. /\ UNCHANGED <<file, ended>>
        /\ \A v \in Writers : pc'[v] = "tail" => pc'[v] = pc[v]
        /\ \A v \in Writers : pc'[v] \in {"read", "head"} /\ pc'[v] # pc[v] =>
             file = <<>> \/ verify_history
    BY <1>4 DEF Check, Read, Goto, TypeOK, Undamaged
  <2>2. QED
    BY <1>1, <2>1 DEF Undamaged, NothingFollowsDamage, verify_history, tip, digest
<1>5. ASSUME NEW w \in Writers, WriteHead(w) \/ WriteTail(w) \/ WriteEnd(w)
      PROVE  Undamaged'
  <2>1. \A v \in Writers : v # w => pc'[v] = pc[v] /\ pc[v] \notin Critical
    BY <1>5 DEF WriteHead, WriteTail, WriteEnd, Goto, TypeOK, Undamaged, Locked, Critical
  <2>2. \A v \in Writers :
          /\ pc'[v] \notin {"read", "head"}
          /\ pc'[v] = "tail" => ~ended'
    BY <1>5, <2>1 DEF WriteHead, WriteTail, WriteEnd, Goto, TypeOK, Critical
  <2>3. NothingFollowsDamage'
    <3>1. CASE WriteHead(w) /\ ended
      <4>1. file = <<>> \/ verify_history
        BY <3>1 DEF WriteHead, Undamaged
      <4>2. \A i \in 1..Len(file) : file[i].state = "full" /\ file[i].previous = tip(i - 1)
        BY <4>1 DEF verify_history, TypeOK
      <4>3. /\ Len(file') = Len(file) + 1 /\ Len(file) \in Nat
            /\ \A i \in 1..Len(file) : file'[i] = file[i]
            /\ \A i \in 0..Len(file) : tip(i)' = tip(i)
        BY <3>1, NewLineFacts DEF WriteHead
      <4>4. QED
        BY <4>2, <4>3 DEF NothingFollowsDamage
    <3>2. CASE file # <<>> /\ \E s \in {"head", "full", "corrupt"} : file' = Mark(s)
      <4>1. /\ Len(file') = Len(file) /\ Len(file) > 0
            /\ \A i \in 1..Len(file) : i # Len(file) => file'[i] = file[i]
            /\ \A i \in 0..Len(file) : tip(i)' = tip(i)
        BY <3>2, MarkFacts
      <4>2. Len(file) \in Nat
        BY DEF TypeOK
      <4>3. QED
        BY <4>1, <4>2 DEF NothingFollowsDamage, Undamaged
    <3>3. CASE UNCHANGED file
      BY <3>3 DEF NothingFollowsDamage, Undamaged, tip, digest
    <3>4. CASE WriteHead(w) /\ ~ended
      <4>1. file # <<>> /\ file' = Mark("corrupt")
        BY <3>4 DEF WriteHead, EmptyEnded
      <4>2. QED
        BY <3>2, <4>1
    <3>5. CASE WriteTail(w)
      <4>1. file # <<>> /\ (file' = Mark("corrupt") \/ file' = Mark("full"))
        BY <3>5 DEF WriteTail, EmptyEnded, Undamaged
      <4>2. QED
        BY <3>2, <4>1
    <3>6. QED
      BY <1>5, <3>1, <3>3, <3>4, <3>5 DEF WriteEnd, TypeOK
  <2>4. QED
    BY <1>1, <2>2, <2>3 DEF Undamaged
<1>6. QED
  BY <1>2, <1>3, <1>4, <1>5 DEF Next, Step

(* Where fcntl exists, a crash damages at most the last line, and nothing  *)
(* is ever appended to a damaged history.                                  *)
THEOREM DamageStaysLast ==
  ASSUME HasFcntl
  PROVE  Spec => []NothingFollowsDamage
<1>1. Init => Undamaged
  BY DEF Init, Undamaged, Locked, NothingFollowsDamage, Critical
<1>2. TypeOK /\ EmptyEnded /\ Undamaged /\ [Next]_vars => Undamaged'
  BY NextUndamaged
<1>3. TypeOK /\ EmptyEnded /\ [Next]_vars => (TypeOK /\ EmptyEnded)'
  BY NextTypeOK
<1>4. Undamaged => NothingFollowsDamage
  BY DEF Undamaged
<1>5. QED
  BY <1>1, <1>2, <1>3, <1>4, InitTypeOK, PTL DEF Spec

-----------------------------------------------------------------------------
(***************************************************************************)
(* With any number of crashes, an acknowledged entry is lost only with the *)
(* validity of the whole history.                                          *)
(***************************************************************************)
LastIs(w) ==
  /\ file # <<>> /\ file[Len(file)].state = "full"
  /\ digest(file[Len(file)]) = Append(previous[w], payload[w])

Spoiled == file # <<>> /\ file[Len(file)].state = "corrupt"

Kept ==
  /\ AcknowledgedIsRecorded
  /\ \A w \in Writers : /\ pc[w] = "tail" => OwnLine(w)
                        /\ pc[w] \in {"end", "unlock"} => LastIs(w)

Noticed == Spoiled \/ Kept

(* Nobody but the process that writes is in the critical section. *)
LEMMA WritesAlone ==
  ASSUME TypeOK, Undamaged, NEW w \in Writers, NEW v \in Writers,
         pc[w] \in Critical, v # w
  PROVE  pc[v] \notin Critical
BY DEF Undamaged, Locked

LEMMA StaysSpoiled ==
  ASSUME TypeOK, Undamaged, Spoiled, [Next]_vars
  PROVE  Spoiled'
<1>1. CASE UNCHANGED file
  BY <1>1 DEF Spoiled
<1>2. ASSUME NEW w \in Writers, WriteHead(w)
      PROVE  FALSE
  <2>1. verify_history
    BY <1>2 DEF WriteHead, Undamaged, Spoiled
  <2>2. Len(file) \in 1..Len(file)
    BY DEF TypeOK, Spoiled
  <2>3. QED
    BY <2>1, <2>2 DEF verify_history, Spoiled
<1>3. ASSUME NEW w \in Writers, WriteTail(w)
      PROVE  Spoiled'
  <2>1. ~ended /\ ~OwnLine(w)
    BY <1>3 DEF WriteTail, Undamaged, OwnLine, Spoiled
  <2>2. file' = Mark("corrupt") /\ file # <<>>
    BY <1>3, <2>1 DEF WriteTail, Spoiled
  <2>3. Len(file') = Len(file) /\ Len(file) > 0 /\ file'[Len(file)].state = "corrupt"
    BY <2>2, MarkFacts
  <2>4. file' # <<>>
    BY <2>3
  <2>5. QED
    BY <2>3, <2>4 DEF Spoiled
<1>4. QED
  BY <1>1, <1>2, <1>3
    DEF Next, Step, vars, Begin, Lock, Check, Read, WriteEnd, Unlock, Verify, Crash

LEMMA WriteHeadNoticed ==
  ASSUME TypeOK, EmptyEnded, Undamaged, Kept, NEW w \in Writers, WriteHead(w)
  PROVE  Noticed'
<1>1. /\ pc[w] = "head" /\ pc' = [pc EXCEPT ![w] = "tail"]
      /\ payload' = payload /\ previous' = previous /\ acked' = acked /\ ended' = FALSE
  BY DEF WriteHead, Goto
<1>2. CASE ~ended
  <2>1. file' = Mark("corrupt") /\ file # <<>>
    BY <1>2 DEF WriteHead, EmptyEnded
  <2>2. Len(file') = Len(file) /\ Len(file) > 0 /\ file'[Len(file)].state = "corrupt"
    BY <2>1, MarkFacts
  <2>3. file' # <<>>
    BY <2>2
  <2>4. QED
    BY <2>2, <2>3 DEF Noticed, Spoiled
<1>3. CASE ended
  <2>1. file' = NewLine(w, "head")
    BY <1>3 DEF WriteHead
  <2>2. /\ Len(file') = Len(file) + 1 /\ Len(file) \in Nat
        /\ \A i \in 1..Len(file) : file'[i] = file[i]
        /\ file'[Len(file')] =
             [previous |-> previous[w], payload |-> payload[w], state |-> "head"]
    BY <2>1, NewLineFacts
  <2>3. OwnLine(w)'
    BY <1>1, <2>2 DEF OwnLine
  <2>4. \A v \in Writers : v # w => pc'[v] \notin Critical
    BY <1>1, WritesAlone DEF Critical, TypeOK
  <2>5. pc'[w] = "tail"
    BY <1>1 DEF TypeOK
  <2>6. AcknowledgedIsRecorded'
    <3>1. \A i \in 1..Len(file) : i \in 1..Len(file')
      BY <2>2
    <3>2. QED
      BY <1>1, <2>2, <3>1 DEF Kept, AcknowledgedIsRecorded, digest
  <2>7. QED
    BY <2>3, <2>4, <2>5, <2>6 DEF Noticed, Kept, Critical
<1>4. QED
  BY <1>2, <1>3

LEMMA WriteTailNoticed ==
  ASSUME TypeOK, Undamaged, Kept, NEW w \in Writers, WriteTail(w)
  PROVE  Noticed'
<1>1. /\ pc[w] = "tail" /\ pc' = [pc EXCEPT ![w] = "end"]
      /\ payload' = payload /\ previous' = previous /\ acked' = acked
  BY DEF WriteTail, Goto
<1>2. OwnLine(w)
  BY <1>1 DEF Kept
<1>3. file' = Mark("full") /\ file # <<>>
  BY <1>2 DEF WriteTail, OwnLine
<1>4. /\ Len(file') = Len(file) /\ Len(file) > 0
      /\ \A i \in 1..Len(file) : i # Len(file) => file'[i] = file[i]
      /\ file'[Len(file)].state = "full"
      /\ file'[Len(file)].previous = file[Len(file)].previous
      /\ file'[Len(file)].payload = file[Len(file)].payload
  BY <1>3, MarkFacts
<1>5. /\ file[Len(file)].previous = previous[w] /\ file[Len(file)].payload = payload[w]
      /\ file[Len(file)].state = "head"
  BY <1>2 DEF OwnLine
<1>6. file' # <<>>
  BY <1>4
<1>7. LastIs(w)'
  BY <1>1, <1>4, <1>5, <1>6 DEF LastIs, digest
<1>8. pc'[w] = "end" /\ \A v \in Writers : v # w => pc'[v] \notin Critical
  BY <1>1, WritesAlone DEF Critical, TypeOK
<1>9. AcknowledgedIsRecorded'
  <2>1. ASSUME NEW d \in acked
        PROVE  \E i \in 1..Len(file') : file'[i].state = "full" /\ digest(file'[i]) = d
    <3>1. PICK i \in 1..Len(file) : file[i].state = "full" /\ digest(file[i]) = d
      BY DEF Kept, AcknowledgedIsRecorded
    <3>2. i # Len(file)
      BY <1>5, <3>1
    <3>3. QED
      BY <1>4, <3>1, <3>2
  <2>2. QED
    BY <1>1, <2>1 DEF AcknowledgedIsRecorded
<1>10. QED
  BY <1>7, <1>8, <1>9 DEF Noticed, Kept, Critical

LEMMA NextNoticed ==
  ASSUME TypeOK, EmptyEnded, Undamaged, Noticed, [Next]_vars
  PROVE  Noticed'
<1> SUFFICES ASSUME Kept
             PROVE  Noticed'
  BY StaysSpoiled DEF Noticed
<1>1. CASE UNCHANGED vars
  BY <1>1 DEF vars, Noticed, Kept, AcknowledgedIsRecorded, OwnLine, LastIs, digest
<1>2. ASSUME NEW w \in Writers,
             Begin(w) \/ Lock(w) \/ Check(w) \/ Read(w) \/ Verify(w) \/ Crash(w)
      PROVE  Kept'
  <2>1. /\ UNCHANGED <<file, ended, acked>>
        /\ pc'[w] \notin {"tail", "end", "unlock"}
        /\ \A v \in Writers : v # w =>
             pc'[v] = pc[v] /\ payload'[v] = payload[v] /\ previous'[v] = previous[v]
    BY <1>2 DEF Begin, Lock, Check, Read, Verify, Crash, Goto, TypeOK
  <2>2. AcknowledgedIsRecorded'
    BY <2>1 DEF Kept, AcknowledgedIsRecorded, digest
  <2>3. ASSUME NEW v \in Writers
        PROVE  /\ pc'[v] = "tail" => OwnLine(v)'
               /\ pc'[v] \in {"end", "unlock"} => LastIs(v)'
    <3>1. CASE v = w
      BY <2>1, <3>1
    <3>2. CASE v # w
      BY <2>1, <3>2 DEF Kept, OwnLine, LastIs, digest
    <3>3. QED
      BY <3>1, <3>2
  <2>4. QED
    BY <2>2, <2>3 DEF Kept
<1>3. ASSUME NEW w \in Writers, WriteEnd(w) \/ Unlock(w)
      PROVE  Kept'
  <2>1. /\ UNCHANGED <<file, payload, previous>> /\ LastIs(w)
        /\ pc'[w] \in {"unlock", "verify"}
        /\ pc[w] \in Critical
        /\ \A v \in Writers : v # w => pc'[v] = pc[v]
        /\ acked' \subseteq acked \cup {Append(previous[w], payload[w])}
    BY <1>3 DEF WriteEnd, Unlock, Goto, TypeOK, Kept, Critical
  <2>2. Len(file) \in 1..Len(file)
    BY <2>1 DEF LastIs, TypeOK
  <2>3. AcknowledgedIsRecorded'
    BY <2>1, <2>2 DEF Kept, AcknowledgedIsRecorded, LastIs, digest
  <2>4. \A v \in Writers : v # w => pc'[v] \notin Critical
    BY <2>1, WritesAlone
  <2>5. LastIs(w)'
    BY <2>1 DEF LastIs, digest
  <2>6. QED
    BY <2>1, <2>3, <2>4, <2>5 DEF Kept, Critical
<1>4. QED
  BY <1>1, <1>2, <1>3, WriteHeadNoticed, WriteTailNoticed DEF Next, Step, Noticed

(* Where fcntl exists, an acknowledged entry that is missing shows: the    *)
(* history does not verify, whatever crashed and when.                     *)
THEOREM LossShows ==
  ASSUME HasFcntl
  PROVE  Spec => []LossIsNoticed
<1> DEFINE Inv == TypeOK /\ EmptyEnded /\ Undamaged /\ Noticed
<1>1. Init => Inv
  <2>1. Init => Undamaged
    BY DEF Init, Undamaged, Locked, NothingFollowsDamage, Critical
  <2>2. Init => Noticed
    BY DEF Init, Noticed, Kept, AcknowledgedIsRecorded
  <2>3. QED
    BY <2>1, <2>2, InitTypeOK
<1>2. Inv /\ [Next]_vars => Inv'
  BY NextTypeOK, NextUndamaged, NextNoticed
<1>3. Inv => LossIsNoticed
  <2>1. ASSUME TypeOK, Spoiled, verify_history
        PROVE  FALSE
    <3>1. Len(file) \in 1..Len(file)
      BY <2>1 DEF Spoiled, TypeOK
    <3>2. QED
      BY <2>1, <3>1 DEF Spoiled, verify_history
  <2>2. QED
    BY <2>1 DEF LossIsNoticed, Noticed, Kept
<1>4. QED
  BY <1>1, <1>2, <1>3, PTL DEF Spec

-----------------------------------------------------------------------------
(***************************************************************************)
(* Without crashes the history is always one chain, but for the line that  *)
(* is being written, and implements the log.                               *)
(***************************************************************************)
Sound ==
  /\ \A w \in Writers :
       /\ pc[w] = "head" => previous[w] = tip(Len(file))
       /\ pc[w] = "tail" => OwnLine(w) /\ previous[w] = tip(Len(file) - 1)
       /\ pc[w] \in {"end", "unlock"} => LastIs(w)
  /\ (\A w \in Writers : pc[w] # "tail") => Chain(Len(file))
  /\ (\A w \in Writers : pc[w] \notin Writing) => ended
  /\ AcknowledgedIsRecorded

(* What the proofs below take from the invariants above. *)
Safe == TypeOK /\ EmptyEnded /\ Undamaged /\ Sound

(* Steps that leave the file alone. *)
LEMMA SoundElsewhere ==
  ASSUME Safe, UNCHANGED <<file, ended>>, NEW w \in Writers,
         \A v \in Writers : v # w =>
           pc'[v] = pc[v] /\ payload'[v] = payload[v] /\ previous'[v] = previous[v],
         pc[w] # "tail", pc'[w] # "tail", pc[w] \in Writing => pc'[w] \in Writing,
         pc'[w] = "head" => previous'[w] = tip(Len(file)),
         pc'[w] \in {"end", "unlock"} => LastIs(w)',
         AcknowledgedIsRecorded'
  PROVE  Sound'
<1>1. \A i \in Int : tip(i)' = tip(i)
  BY DEF tip, digest
<1>2. Len(file) \in Nat
  BY DEF Safe, TypeOK
<1>3. ASSUME NEW v \in Writers
      PROVE  /\ pc'[v] = "head" => previous'[v] = tip(Len(file))'
             /\ pc'[v] = "tail" => OwnLine(v)' /\ previous'[v] = tip(Len(file) - 1)'
             /\ pc'[v] \in {"end", "unlock"} => LastIs(v)'
  <2>1. CASE v = w
    BY <1>1, <1>2, <2>1
  <2>2. CASE v # w
    <3>1. /\ pc'[v] = pc[v] /\ payload'[v] = payload[v] /\ previous'[v] = previous[v]
      BY <2>2
    <3>2. OwnLine(v)' = OwnLine(v) /\ LastIs(v)' = LastIs(v)
      BY <3>1 DEF OwnLine, LastIs, digest
    <3>3. QED
      BY <1>1, <1>2, <3>1, <3>2 DEF Safe, Sound
  <2>3. QED
    BY <2>1, <2>2
<1>4. (\A v \in Writers : pc'[v] # "tail") => Chain(Len(file))'
  <2>1. (\A v \in Writers : pc'[v] # "tail") => (\A v \in Writers : pc[v] # "tail")
    OBVIOUS
  <2>2. Chain(Len(file)) => Chain(Len(file))'
    BY DEF Chain, tip, digest
  <2>3. QED
    BY <2>1, <2>2 DEF Safe, Sound
<1>5. (\A v \in Writers : pc'[v] \notin Writing) => ended'
  BY DEF Safe, Sound
<1>6. QED
  BY <1>3, <1>4, <1>5 DEF Sound

LEMMA WriteHeadSound ==
  ASSUME Safe, NEW w \in Writers, WriteHead(w)
  PROVE  Sound'
<1>1. /\ TypeOK /\ Undamaged /\ pc[w] = "head" /\ pc' = [pc EXCEPT ![w] = "tail"]
      /\ payload' = payload /\ previous' = previous /\ acked' = acked /\ ended' = FALSE
  BY DEF Safe, WriteHead, Goto
<1>2. \A v \in Writers : v # w => pc[v] \notin Critical /\ pc'[v] = pc[v]
  BY <1>1, WritesAlone DEF Critical, TypeOK
<1>3. /\ ended /\ Chain(Len(file)) /\ previous[w] = tip(Len(file))
      /\ pc'[w] = "tail"
  BY <1>1, <1>2 DEF Safe, Sound, Critical, Writing, TypeOK
<1>4. file' = NewLine(w, "head")
  BY <1>3 DEF WriteHead
<1>5. /\ file' \in Seq(Lines) /\ Len(file') = Len(file) + 1 /\ Len(file) \in Nat
      /\ \A i \in 1..Len(file) : file'[i] = file[i]
      /\ file'[Len(file')] =
           [previous |-> previous[w], payload |-> payload[w], state |-> "head"]
      /\ \A i \in 0..Len(file) : tip(i)' = tip(i)
  BY <1>1, <1>4, NewLineFacts
<1>6. OwnLine(w)'
  BY <1>1, <1>5 DEF OwnLine
<1>7. previous'[w] = tip(Len(file) - 1)'
  BY <1>1, <1>3, <1>5
<1>8. AcknowledgedIsRecorded'
  <2>1. \A i \in 1..Len(file) : i \in 1..Len(file')
    BY <1>5
  <2>2. QED
    BY <1>1, <1>5, <2>1 DEF Safe, Sound, AcknowledgedIsRecorded, digest
<1>9. QED
  BY <1>1, <1>2, <1>3, <1>6, <1>7, <1>8 DEF Sound, Critical, Writing

LEMMA WriteTailSound ==
  ASSUME Safe, NEW w \in Writers, WriteTail(w)
  PROVE  Sound'
<1>1. /\ TypeOK /\ Undamaged /\ pc[w] = "tail" /\ pc' = [pc EXCEPT ![w] = "end"]
      /\ payload' = payload /\ previous' = previous /\ acked' = acked
  BY DEF Safe, WriteTail, Goto
<1>2. \A v \in Writers : v # w => pc[v] \notin Critical /\ pc'[v] = pc[v]
  BY <1>1, WritesAlone DEF Critical, TypeOK
<1>3. OwnLine(w) /\ previous[w] = tip(Len(file) - 1) /\ pc'[w] = "end"
  BY <1>1 DEF Safe, Sound, TypeOK
<1>4. file' = Mark("full") /\ file # <<>>
  BY <1>3 DEF WriteTail, OwnLine
<1>5. /\ Len(file') = Len(file) /\ Len(file) > 0 /\ Len(file) \in Nat
      /\ \A i \in 1..Len(file) : i # Len(file) => file'[i] = file[i]
      /\ file'[Len(file)].state = "full"
      /\ file'[Len(file)].previous = file[Len(file)].previous
      /\ file'[Len(file)].payload = file[Len(file)].payload
      /\ \A i \in 0..Len(file) : tip(i)' = tip(i)
  BY <1>1, <1>4, MarkFacts DEF TypeOK
<1>6. /\ file[Len(file)].previous = previous[w] /\ file[Len(file)].payload = payload[w]
      /\ file[Len(file)].state = "head"
  BY <1>3 DEF OwnLine
<1>7. file' # <<>>
  BY <1>5
<1>8. LastIs(w)'
  BY <1>1, <1>5, <1>6, <1>7 DEF LastIs, digest
<1>9. Chain(Len(file))'
  <2>1. ASSUME NEW i \in 1..Len(file)
        PROVE  file'[i].state = "full" /\ file'[i].previous = tip(i - 1)'
    <3>1. i - 1 \in 0..Len(file) /\ tip(i - 1)' = tip(i - 1)
      BY <1>5
    <3>2. CASE i = Len(file)
      BY <1>3, <1>5, <1>6, <3>1, <3>2
    <3>3. CASE i # Len(file)
      BY <1>1, <1>5, <3>1, <3>3 DEF Undamaged, NothingFollowsDamage
    <3>4. QED
      BY <3>2, <3>3
  <2>2. QED
    BY <1>5, <2>1 DEF Chain
<1>10. AcknowledgedIsRecorded'
  <2>1. ASSUME NEW d \in acked
        PROVE  \E i \in 1..Len(file') : file'[i].state = "full" /\ digest(file'[i]) = d
    <3>1. PICK i \in 1..Len(file) : file[i].state = "full" /\ digest(file[i]) = d
      BY DEF Safe, Sound, AcknowledgedIsRecorded
    <3>2. i # Len(file)
      BY <1>6, <3>1
    <3>3. QED
      BY <1>5, <3>1, <3>2
  <2>2. QED
    BY <1>1, <2>1 DEF AcknowledgedIsRecorded
<1>11. QED
  BY <1>1, <1>2, <1>3, <1>8, <1>9, <1>10 DEF Sound, Critical, Writing

LEMMA NextSound ==
  ASSUME Safe, crashes' = 0, [Next]_vars
  PROVE  Sound'
<1>1. CASE UNCHANGED vars
  <2>1. \A i \in Int : tip(i)' = tip(i)
    BY <1>1 DEF vars, tip, digest
  <2>2. QED
    BY <1>1, <2>1 DEF vars, Safe, TypeOK, Sound, OwnLine, LastIs, Chain, digest, tip,
                      AcknowledgedIsRecorded
<1>2. ASSUME NEW w \in Writers, Begin(w) \/ Lock(w) \/ Verify(w)
      PROVE  Sound'
  <2>1. AcknowledgedIsRecorded'
    BY <1>2 DEF Begin, Lock, Verify, Safe, Sound, AcknowledgedIsRecorded, digest
  <2>2. /\ UNCHANGED <<file, ended>> /\ pc[w] \notin Writing
        /\ pc'[w] \in {"lock", "check", "idle"}
        /\ \A v \in Writers : v # w =>
             pc'[v] = pc[v] /\ payload'[v] = payload[v] /\ previous'[v] = previous[v]
    BY <1>2 DEF Begin, Lock, Verify, Goto, Safe, TypeOK, Writing
  <2>3. QED
    BY <2>1, <2>2, SoundElsewhere DEF Writing
<1>3. ASSUME NEW w \in Writers, Check(w) \/ Read(w)
      PROVE  Sound'
  <2>1. AcknowledgedIsRecorded'
    BY <1>3 DEF Check, Read, Safe, Sound, AcknowledgedIsRecorded, digest
  <2>2. /\ UNCHANGED <<file, ended>> /\ pc[w] \notin Writing
        /\ pc'[w] \in {"head", "read", "idle"}
        /\ \A v \in Writers : v # w =>
             pc'[v] = pc[v] /\ payload'[v] = payload[v] /\ previous'[v] = previous[v]
    BY <1>3 DEF Check, Read, Goto, Safe, TypeOK, Writing
  <2>3. pc'[w] = "head" => previous'[w] = tip(Len(file))
    BY <1>3 DEF Check, Read, Goto, Safe, TypeOK, tip
  <2>4. QED
    BY <2>1, <2>2, <2>3, SoundElsewhere DEF Writing
<1>4. ASSUME NEW w \in Writers, WriteHead(w) \/ WriteTail(w)
      PROVE  Sound'
  BY <1>4, WriteHeadSound, WriteTailSound
<1>5. ASSUME NEW w \in Writers, WriteEnd(w)
      PROVE  Sound'
  <2>1. /\ pc[w] = "end" /\ pc' = [pc EXCEPT ![w] = "unlock"] /\ TypeOK /\ Undamaged
        /\ UNCHANGED <<file, payload, previous, acked>> /\ ended'
    BY <1>5 DEF WriteEnd, Goto, Safe
  <2>2. \A v \in Writers : v # w => pc[v] \notin Critical /\ pc'[v] = pc[v]
    BY <2>1, WritesAlone DEF Critical, TypeOK
  <2>3. LastIs(w)' /\ pc'[w] = "unlock"
    BY <2>1 DEF Safe, Sound, LastIs, digest, TypeOK
  <2>4. Chain(Len(file))'
    <3>1. Chain(Len(file))
      BY <2>1, <2>2 DEF Safe, Sound, Critical
    <3>2. QED
      BY <2>1, <3>1 DEF Chain, tip, digest
  <2>5. AcknowledgedIsRecorded'
    BY <2>1 DEF Safe, Sound, AcknowledgedIsRecorded, digest
  <2>6. QED
    BY <2>1, <2>2, <2>3, <2>4, <2>5 DEF Sound, Critical
<1>6. ASSUME NEW w \in Writers, Unlock(w)
      PROVE  Sound'
  <2>1. /\ UNCHANGED <<file, ended>> /\ pc[w] = "unlock" /\ pc'[w] = "verify"
        /\ \A v \in Writers : v # w =>
             pc'[v] = pc[v] /\ payload'[v] = payload[v] /\ previous'[v] = previous[v]
        /\ acked' = acked \cup {Append(previous[w], payload[w])}
    BY <1>6 DEF Unlock, Goto, Safe, TypeOK
  <2>2. LastIs(w) /\ Len(file) \in 1..Len(file)
    BY <2>1 DEF Safe, Sound, LastIs, TypeOK
  <2>3. AcknowledgedIsRecorded'
    BY <2>1, <2>2 DEF Safe, Sound, AcknowledgedIsRecorded, LastIs, digest
  <2>4. QED
    BY <2>1, <2>3, SoundElsewhere DEF Writing
<1>7. ASSUME NEW w \in Writers, Crash(w)
      PROVE  FALSE
  BY <1>7 DEF Crash, Safe, TypeOK
<1>8. QED
  BY <1>1, <1>2, <1>3, <1>4, <1>5, <1>6, <1>7 DEF Next, Step

(* Until the first crash the whole invariant holds; after it, the parts    *)
(* of it that crashes cannot break.                                        *)
UntilCrash ==
  /\ TypeOK /\ EmptyEnded /\ Undamaged /\ crashes <= MaxCrashes
  /\ crashes = 0 => Sound

LEMMA SafeUntilCrash ==
  ASSUME HasFcntl
  PROVE  Spec => []UntilCrash
<1>1. Init => UntilCrash
  <2>1. Init => Undamaged
    BY DEF Init, Undamaged, Locked, NothingFollowsDamage, Critical
  <2>2. Init => Sound
    BY DEF Init, Sound, Chain, AcknowledgedIsRecorded
  <2>3. QED
    BY <2>1, <2>2, InitTypeOK, ConstantsAssumption DEF UntilCrash, Init
<1>2. UntilCrash /\ [Next]_vars => UntilCrash'
  <2> SUFFICES ASSUME UntilCrash, [Next]_vars
               PROVE  UntilCrash'
    OBVIOUS
  <2>1. TypeOK' /\ EmptyEnded' /\ Undamaged'
    BY NextTypeOK, NextUndamaged DEF UntilCrash
  <2>2. crashes' = crashes \/ (crashes < MaxCrashes /\ crashes' = crashes + 1)
    BY DEF Next, Step, vars, Begin, Lock, Check, Read, WriteHead, WriteTail, WriteEnd,
           Unlock, Verify, Crash
  <2>3. ASSUME crashes' = 0
        PROVE  Sound'
    <3>1. crashes = 0
      BY <2>2, <2>3 DEF UntilCrash, TypeOK
    <3>2. Safe
      BY <3>1 DEF UntilCrash, Safe
    <3>3. QED
      BY <2>3, <3>2, NextSound
  <2>4. crashes' <= MaxCrashes
    BY <2>2, ConstantsAssumption DEF UntilCrash, TypeOK
  <2>5. QED
    BY <2>1, <2>3, <2>4 DEF UntilCrash
<1>3. QED
  BY <1>1, <1>2, PTL DEF Spec

(* Until a process dies, a history nobody writes verifies and every digest *)
(* that was returned is in it, for any number of deaths that may follow:   *)
(* what append_history promises is only ever lost to a crash.              *)
THEOREM KeptUntilCrash ==
  ASSUME HasFcntl
  PROVE  Spec => [](crashes = 0 => QuietHistoryVerifies /\ AcknowledgedIsRecorded)
<1>1. UntilCrash => (crashes = 0 => QuietHistoryVerifies /\ AcknowledgedIsRecorded)
  BY DEF UntilCrash, Sound, QuietHistoryVerifies, Chain, verify_history
<1>2. QED
  BY <1>1, SafeUntilCrash, PTL

LEMMA SafeAlways ==
  ASSUME HasFcntl, MaxCrashes = 0
  PROVE  Spec => []Safe
<1>1. UntilCrash => Safe
  <2>1. UntilCrash => crashes = 0
    BY DEF UntilCrash, TypeOK
  <2>2. QED
    BY <2>1 DEF UntilCrash, Safe
<1>2. QED
  BY <1>1, SafeUntilCrash, PTL

(* Without crashes, a history nobody writes verifies.                      *)
THEOREM QuietVerifies ==
  ASSUME HasFcntl, MaxCrashes = 0
  PROVE  Spec => []QuietHistoryVerifies
<1>1. Safe => QuietHistoryVerifies
  BY DEF Safe, Sound, QuietHistoryVerifies, Chain, verify_history
<1>2. QED
  BY <1>1, SafeAlways, PTL

(* Without crashes, every digest that was returned is in the history.      *)
THEOREM AcknowledgedStays ==
  ASSUME HasFcntl, MaxCrashes = 0
  PROVE  Spec => []AcknowledgedIsRecorded
<1>1. Safe => AcknowledgedIsRecorded
  BY DEF Safe, Sound
<1>2. QED
  BY <1>1, SafeAlways, PTL

(* Without crashes, the whole lines are an append-only log of payloads.    *)
THEOREM RefinesLog ==
  ASSUME HasFcntl, MaxCrashes = 0
  PROVE  Spec => ImplementsLog
<1>1. Init => Log!Init
  BY DEF Init, Log!Init, Whole, tip, GENESIS
<1>2. Safe /\ Safe' /\ [Next]_vars => [Log!Next]_(tip(Whole))
  <2> SUFFICES ASSUME Safe, Safe', [Next]_vars
               PROVE  Log!Next \/ tip(Whole)' = tip(Whole)
    OBVIOUS
  <2>1. CASE UNCHANGED file
    BY <2>1 DEF Whole, tip, digest
  <2>2. ASSUME NEW w \in Writers, WriteHead(w)
        PROVE  tip(Whole)' = tip(Whole)
    <3>1. /\ TypeOK /\ Undamaged /\ pc[w] = "head"
      BY <2>2 DEF Safe, WriteHead
    <3>2. \A v \in Writers : pc[v] \notin Writing
      BY <3>1, WritesAlone DEF Critical, Writing
    <3>3. ended /\ Chain(Len(file))
      BY <3>2 DEF Safe, Sound, Writing
    <3>4. file' = NewLine(w, "head")
      BY <2>2, <3>3 DEF WriteHead
    <3>5. /\ Len(file') = Len(file) + 1 /\ Len(file) \in Nat
          /\ \A i \in 1..Len(file) : file'[i] = file[i]
          /\ file'[Len(file) + 1] =
               [previous |-> previous[w], payload |-> payload[w], state |-> "head"]
      BY <3>1, <3>4, NewLineFacts
    <3>6. Whole = Len(file)
      BY <3>3, <3>5 DEF Chain, Whole, Safe, TypeOK
    <3>7. Whole' = Len(file)
      <4>1. file' # <<>> /\ file'[Len(file')].state # "full"
        BY <3>5
      <4>2. QED
        BY <3>5, <4>1 DEF Whole
    <3>8. Len(file) # 0 => file'[Len(file)] = file[Len(file)]
      BY <3>5
    <3>9. tip(Whole)' = IF Whole' = 0 THEN GENESIS ELSE digest(file'[Whole'])
      BY DEF tip, digest
    <3>10. tip(Whole) = IF Whole = 0 THEN GENESIS ELSE digest(file[Whole])
      BY DEF tip
    <3>11. QED
      BY <3>6, <3>7, <3>8, <3>9, <3>10
  <2>3. ASSUME NEW w \in Writers, WriteTail(w)
        PROVE  Log!Next
    <3>1. /\ TypeOK /\ pc[w] = "tail" /\ OwnLine(w) /\ previous[w] = tip(Len(file) - 1)
      BY <2>3 DEF Safe, Sound, WriteTail
    <3>2. file' = Mark("full") /\ file # <<>>
      BY <2>3, <3>1 DEF WriteTail, OwnLine
    <3>3. /\ Len(file') = Len(file) /\ Len(file) > 0 /\ Len(file) \in Nat
          /\ file'[Len(file)].state = "full"
          /\ file'[Len(file)].previous = file[Len(file)].previous
          /\ file'[Len(file)].payload = file[Len(file)].payload
      BY <3>1, <3>2, MarkFacts DEF TypeOK
    <3>4. Whole = Len(file) - 1 /\ Whole' = Len(file)
      BY <3>1, <3>3 DEF Whole, OwnLine
    <3>5. tip(Whole) = previous[w]
      BY <3>1, <3>4
    <3>6. tip(Whole)' = digest(file'[Len(file)])
      BY <3>3, <3>4 DEF tip, digest
    <3>7. digest(file'[Len(file)]) = Append(previous[w], payload[w])
      BY <3>1, <3>3 DEF digest, OwnLine
    <3>8. payload[w] \in Payloads
      BY <3>1 DEF TypeOK
    <3>9. QED
      BY <3>5, <3>6, <3>7, <3>8 DEF Log!Next
  <2>4. QED
    BY <2>1, <2>2, <2>3
      DEF Next, Step, vars, Begin, Lock, Check, Read, WriteEnd, Unlock, Verify, Crash
<1>3. QED
  BY <1>1, <1>2, SafeAlways, PTL DEF Spec, ImplementsLog, Log!Spec
=============================================================================

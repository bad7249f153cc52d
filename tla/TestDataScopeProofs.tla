------------------------ MODULE TestDataScopeProofs ------------------------
(***************************************************************************)
(* What holds of TestDataScope for any number of cleanups.                 *)
(***************************************************************************)
EXTENDS TestDataScope, TLAPS

(* Everything a close has gone past it has called once more than what it   *)
(* has still to call; what nobody called yet waits for the first close.    *)
Distinct == \A i, j \in DOMAIN _cleanup : _cleanup[i] = _cleanup[j] => i = j

Quiet ==
  /\ \A c \in Cleanups : c \notin registered => calls[c] = 0
  /\ body = "runs" => ~closing /\ ~closed /\ ~interrupted /\ late = {} /\ \A c \in Cleanups : calls[c] = 0
  /\ ~closing /\ ~closed /\ ~interrupted => body = "runs"
  /\ closing => ~closed
  /\ interrupted => raised # "nothing"

Passed ==
  closing =>
    /\ cursor <= Len(_cleanup)
    /\ \A i, j \in DOMAIN _cleanup :
         i <= cursor /\ cursor < j /\ _cleanup[j] \notin late =>
           calls[_cleanup[j]] >= calls[_cleanup[i]] + 1
    /\ \A i \in DOMAIN _cleanup : i <= cursor => calls[_cleanup[i]] < 2
    /\ \A j \in DOMAIN _cleanup : cursor < j /\ _cleanup[j] \notin late => calls[_cleanup[j]] >= 1
    /\ ~interrupted => \A i \in DOMAIN _cleanup : i <= cursor => calls[_cleanup[i]] = 0

Once == ~interrupted => \A c \in Cleanups : calls[c] <= 1

(* The two halves of the types: the provers treat flags and numbers apart. *)
Flags == closing \in BOOLEAN /\ closed \in BOOLEAN /\ interrupted \in BOOLEAN

Data ==
  /\ _cleanup \in Seq(Cleanups)
  /\ cursor \in 0..Len(_cleanup)
  /\ errors \subseteq Cleanups /\ late \subseteq Cleanups
  /\ calls \in [Cleanups -> 0..2]
  /\ body \in {"runs", "passed", "raised"}
  /\ raised \in {"nothing", "the test", "the cleanup", "the interrupt"}

ScopeTypes == Flags /\ Data /\ Distinct
ScopeInv == ScopeTypes /\ Quiet /\ Passed /\ Once /\ CleanupIsComplete

USE DEF registered

LEMMA DataFacts ==
  ASSUME ScopeInv
  PROVE  /\ _cleanup \in Seq(Cleanups) /\ Len(_cleanup) \in Nat /\ DOMAIN _cleanup = 1..Len(_cleanup)
         /\ cursor \in Nat /\ cursor <= Len(_cleanup)
         /\ calls \in [Cleanups -> 0..2]
         /\ \A i \in DOMAIN _cleanup :
              i \in Nat /\ i > 0 /\ _cleanup[i] \in Cleanups /\ calls[_cleanup[i]] \in 0..2
<1>1. Data
  BY DEF ScopeInv, ScopeTypes
<1>2. cursor \in 0..Len(_cleanup) /\ _cleanup \in Seq(Cleanups)
  BY <1>1 DEF Data
<1>3. calls \in [Cleanups -> 0..2]
  BY <1>1 DEF Data
<1> QED BY <1>2, <1>3

LEMMA ScopeInitInv == ScopeInit => ScopeInv
<1> SUFFICES ASSUME ScopeInit PROVE ScopeInv
  OBVIOUS
<1>1. /\ _cleanup = <<>> /\ DOMAIN _cleanup = {} /\ Len(_cleanup) = 0 /\ _cleanup \in Seq(Cleanups)
      /\ cursor = 0 /\ calls = [c \in Cleanups |-> 0]
  BY DEF ScopeInit
<1>2. Flags /\ Data
  <2>1. Flags
    BY DEF ScopeInit, Flags
  <2>2. Data
    BY <1>1 DEF ScopeInit, Data
  <2> QED BY <2>1, <2>2
<1>3. Distinct /\ ReverseOrder
  BY <1>1 DEF Distinct, ReverseOrder
<1>4. Quiet /\ Passed /\ Once
  BY <1>1 DEF ScopeInit, Quiet, Passed, Once
<1>5. ClosedCalledAll /\ OutcomeIsKept
  BY DEF ScopeInit, ClosedCalledAll, OutcomeIsKept
<1> QED BY <1>2, <1>3, <1>4, <1>5 DEF ScopeInv, ScopeTypes, CleanupIsComplete

LEMMA RegisterPreserves ==
  ASSUME ScopeInv, NEW c \in Cleanups, register(c)
  PROVE  ScopeInv'
<1> DEFINE n == Len(_cleanup) + 1
<1>a. _cleanup \in Seq(Cleanups) /\ calls \in [Cleanups -> 0..2] /\ cursor \in Nat
  BY DataFacts
<1>b. /\ _cleanup' = Append(_cleanup, c) /\ calls' = calls /\ cursor' = cursor /\ closing' = closing
      /\ closed' = closed /\ ~closed /\ interrupted' = interrupted
  BY Zenon DEF register
<1>1. /\ _cleanup \in Seq(Cleanups) /\ _cleanup' = Append(_cleanup, c)
      /\ calls \in [Cleanups -> 0..2] /\ calls' = calls /\ cursor' = cursor /\ closing' = closing
      /\ closed' = closed /\ ~closed /\ interrupted' = interrupted /\ cursor \in Nat
  BY <1>a, <1>b, Zenon
<1>2. /\ _cleanup' \in Seq(Cleanups) /\ DOMAIN _cleanup' = DOMAIN _cleanup \cup {n}
      /\ n \notin DOMAIN _cleanup /\ n = Len(_cleanup') /\ n \in Nat
      /\ \A i \in DOMAIN _cleanup : _cleanup'[i] = _cleanup[i] /\ i < n
      /\ _cleanup'[n] = c
  BY <1>1
<1>3. c \notin {_cleanup[i] : i \in DOMAIN _cleanup}
  BY DEF register
<1>4. Distinct'
  BY <1>2, <1>3 DEF ScopeInv, ScopeTypes, Distinct
<1>5. Flags'
  BY <1>b, Zenon DEF ScopeInv, ScopeTypes, Flags
<1>c. Data'
  <2>1. cursor' \in 0..Len(_cleanup')
    BY <1>1, <1>2, DataFacts
  <2>2. late' \subseteq Cleanups
    BY DEF ScopeInv, ScopeTypes, Data, register
  <2>3. calls' \in [Cleanups -> 0..2] /\ _cleanup' \in Seq(Cleanups)
    BY <1>1, <1>2
  <2>4. /\ errors' \subseteq Cleanups /\ body' \in {"runs", "passed", "raised"}
        /\ raised' \in {"nothing", "the test", "the cleanup", "the interrupt"}
    BY Zenon DEF ScopeInv, ScopeTypes, Data, register
  <2> QED BY <2>1, <2>2, <2>3, <2>4, Zenon DEF Data
<1>6. ScopeTypes'
  BY <1>4, <1>5, <1>c DEF ScopeTypes
<1>7. late' = IF closing THEN late \cup {c} ELSE late
  BY DEF register
<1>8. closing \/ body = "runs"
  BY DEF register
<1>9. calls[c] = 0
  BY <1>3 DEF ScopeInv, Quiet
<1>10. Quiet'
  BY <1>1, <1>2, <1>7, <1>8 DEF ScopeInv, Quiet, register
<1>11. Passed'
  BY <1>1, <1>2, <1>7, <1>8 DEF ScopeInv, Quiet, Passed
<1>12. Once'
  BY <1>1 DEF ScopeInv, Once
<1>13. ReverseOrder'
  <2> SUFFICES ASSUME NEW i \in DOMAIN _cleanup', NEW j \in DOMAIN _cleanup',
                      i < j, _cleanup'[j] \notin late'
               PROVE  calls[_cleanup'[j]] >= calls[_cleanup'[i]]
    BY <1>1 DEF ReverseOrder
  <2>1. CASE j = n
    <3>1. ~closing
      BY <2>1, <1>2, <1>7
    <3>2. calls[_cleanup'[i]] = 0 /\ calls[_cleanup'[j]] = 0
      BY <3>1, <1>1, <1>2, <1>8 DEF ScopeInv, Quiet
    <3> QED BY <3>2
  <2>2. CASE j # n
    BY <2>2, <1>2, <1>7 DEF ScopeInv, CleanupIsComplete, ReverseOrder
  <2> QED BY <2>1, <2>2
<1>14. ClosedCalledAll' /\ OutcomeIsKept'
  BY <1>1 DEF ClosedCalledAll, OutcomeIsKept
<1> QED BY <1>6, <1>10, <1>11, <1>12, <1>13, <1>14 DEF ScopeInv, CleanupIsComplete

LEMMA BeginClosePreserves ==
  ASSUME ScopeInv, NEW outcome \in {"passed", "raised"}, BeginClose(outcome)
  PROVE  ScopeInv'
<1>1. /\ _cleanup \in Seq(Cleanups) /\ Len(_cleanup) \in Nat /\ DOMAIN _cleanup = 1..Len(_cleanup)
  BY DataFacts
<1>2. ScopeTypes'
  <2>1. Flags'
    BY DEF ScopeInv, ScopeTypes, Flags, BeginClose
  <2>2. Data'
    <3>1. _cleanup' \in Seq(Cleanups) /\ cursor' \in 0..Len(_cleanup')
      BY DataFacts DEF BeginClose
    <3>2. calls' \in [Cleanups -> 0..2]
      BY DataFacts DEF BeginClose
    <3>3. errors' \subseteq Cleanups /\ late' \subseteq Cleanups
      BY DEF ScopeInv, ScopeTypes, Data, BeginClose
    <3>4. /\ body' \in {"runs", "passed", "raised"}
          /\ raised' \in {"nothing", "the test", "the cleanup", "the interrupt"}
      BY DEF ScopeInv, ScopeTypes, Data, BeginClose
    <3> QED BY <3>1, <3>2, <3>3, <3>4, Zenon DEF Data
  <2>3. Distinct'
    BY DEF ScopeInv, ScopeTypes, Distinct, BeginClose
  <2> QED BY <2>1, <2>2, <2>3 DEF ScopeTypes
<1>3. Quiet'
  BY DEF ScopeInv, Quiet, BeginClose
<1>4. \A c \in Cleanups : calls[c] < 2
  BY DEF ScopeInv, Quiet, BeginClose
<1>5. Passed'
  BY <1>1, <1>4 DEF ScopeInv, Quiet, Passed, BeginClose
<1>6. Once' /\ CleanupIsComplete'
  BY DEF ScopeInv, Once, CleanupIsComplete, ClosedCalledAll, ReverseOrder, OutcomeIsKept, BeginClose
<1> QED BY <1>2, <1>3, <1>5, <1>6 DEF ScopeInv

(* The next callable is called once more, whatever comes of it.            *)
LEMMA Called ==
  ASSUME ScopeInv, closing, cursor > 0,
         calls' = [calls EXCEPT ![_cleanup[cursor]] = @ + 1], UNCHANGED <<_cleanup, late>>
  PROVE  /\ cursor \in DOMAIN _cleanup /\ _cleanup[cursor] \in Cleanups
         /\ calls' \in [Cleanups -> 0..2]
         /\ calls'[_cleanup[cursor]] = calls[_cleanup[cursor]] + 1
         /\ calls[_cleanup[cursor]] \in 0..1
         /\ ~interrupted => calls[_cleanup[cursor]] = 0
         /\ \A i \in DOMAIN _cleanup : i # cursor => calls'[_cleanup[i]] = calls[_cleanup[i]]
         /\ \A c \in Cleanups : c \notin registered => calls'[c] = 0
         /\ \A i \in DOMAIN _cleanup : _cleanup[i] \in Cleanups /\ calls[_cleanup[i]] \in 0..2
         /\ ReverseOrder'
<1>1. /\ _cleanup \in Seq(Cleanups) /\ calls \in [Cleanups -> 0..2]
      /\ cursor \in Nat /\ cursor <= Len(_cleanup)
  BY DataFacts
<1>2. cursor \in DOMAIN _cleanup /\ \A i \in DOMAIN _cleanup : i \in Nat /\ _cleanup[i] \in Cleanups
  BY <1>1
<1>3. calls[_cleanup[cursor]] \in 0..1 /\ (~interrupted => calls[_cleanup[cursor]] = 0)
  BY <1>1, <1>2 DEF ScopeInv, Passed
<1>4. \A i \in DOMAIN _cleanup : i # cursor => _cleanup[i] # _cleanup[cursor]
  BY <1>2 DEF ScopeInv, ScopeTypes, Distinct
<1>5. /\ calls' \in [Cleanups -> 0..2]
      /\ calls'[_cleanup[cursor]] = calls[_cleanup[cursor]] + 1
      /\ \A c \in Cleanups : c # _cleanup[cursor] => calls'[c] = calls[c]
  BY <1>1, <1>2, <1>3
<1>6. \A i \in DOMAIN _cleanup : i # cursor => calls'[_cleanup[i]] = calls[_cleanup[i]]
  BY <1>2, <1>4, <1>5
<1>7. \A c \in Cleanups : c \notin registered => calls'[c] = 0
  BY <1>2, <1>5 DEF ScopeInv, Quiet
<1>8. ReverseOrder'
  <2> SUFFICES ASSUME NEW i \in DOMAIN _cleanup, NEW j \in DOMAIN _cleanup,
                      i < j, _cleanup[j] \notin late
               PROVE  calls'[_cleanup[j]] >= calls'[_cleanup[i]]
    BY DEF ReverseOrder
  <2>1. calls[_cleanup[j]] >= calls[_cleanup[i]]
    BY DEF ScopeInv, CleanupIsComplete, ReverseOrder
  <2>2. i = cursor => calls[_cleanup[j]] >= calls[_cleanup[i]] + 1
    BY <1>2, <1>1 DEF ScopeInv, Passed
  <2>3. i \in Nat /\ j \in Nat /\ calls[_cleanup[i]] \in 0..2 /\ calls[_cleanup[j]] \in 0..2
    BY <1>1, <1>2
  <2>4. CASE i = cursor
    BY <2>2, <2>3, <2>4, <1>5, <1>6
  <2>5. CASE i # cursor
    BY <2>1, <2>3, <2>5, <1>5, <1>6, <1>3
  <2> QED BY <2>4, <2>5
<1> QED BY <1>1, <1>2, <1>3, <1>5, <1>6, <1>7, <1>8

LEMMA CallCleanupPreserves ==
  ASSUME ScopeInv, NEW raises \in BOOLEAN, CallCleanup(raises)
  PROVE  ScopeInv'
<1>1. /\ cursor \in DOMAIN _cleanup /\ _cleanup[cursor] \in Cleanups
      /\ calls' \in [Cleanups -> 0..2]
      /\ calls'[_cleanup[cursor]] = calls[_cleanup[cursor]] + 1
      /\ calls[_cleanup[cursor]] \in 0..1
      /\ ~interrupted => calls[_cleanup[cursor]] = 0
      /\ \A i \in DOMAIN _cleanup : i # cursor => calls'[_cleanup[i]] = calls[_cleanup[i]]
      /\ \A c \in Cleanups : c \notin registered => calls'[c] = 0
      /\ \A i \in DOMAIN _cleanup : _cleanup[i] \in Cleanups /\ calls[_cleanup[i]] \in 0..2
      /\ ReverseOrder'
  BY Called DEF CallCleanup
<1>2. /\ cursor \in Nat /\ cursor > 0 /\ cursor' = cursor - 1 /\ _cleanup' = _cleanup /\ late' = late
      /\ closing /\ closing' /\ ~closed' /\ interrupted' = interrupted /\ cursor <= Len(_cleanup)
      /\ \A i \in DOMAIN _cleanup : i \in Nat
  <2>1. cursor \in Nat /\ cursor <= Len(_cleanup) /\ \A i \in DOMAIN _cleanup : i \in Nat
    BY DataFacts
  <2>2. /\ cursor > 0 /\ cursor' = cursor - 1 /\ _cleanup' = _cleanup /\ late' = late
        /\ closing /\ closing' /\ ~closed' /\ interrupted' = interrupted
    BY DEF ScopeInv, Quiet, CallCleanup
  <2> QED BY <2>1, <2>2
<1>3. ScopeTypes'
  <2>1. Flags'
    BY DEF ScopeInv, ScopeTypes, Flags, CallCleanup
  <2>2. Data'
    <3>1. _cleanup' \in Seq(Cleanups) /\ cursor' \in 0..Len(_cleanup')
      BY <1>2, DataFacts
    <3>2. calls' \in [Cleanups -> 0..2]
      BY <1>1
    <3>3. errors' \subseteq Cleanups /\ late' \subseteq Cleanups
      BY <1>1 DEF ScopeInv, ScopeTypes, Data, CallCleanup
    <3>4. /\ body' \in {"runs", "passed", "raised"}
          /\ raised' \in {"nothing", "the test", "the cleanup", "the interrupt"}
      BY Zenon DEF ScopeInv, ScopeTypes, Data, CallCleanup
    <3> QED BY <3>1, <3>2, <3>3, <3>4, Zenon DEF Data
  <2>3. Distinct'
    BY DEF ScopeInv, ScopeTypes, Distinct, CallCleanup
  <2> QED BY <2>1, <2>2, <2>3 DEF ScopeTypes
<1>4. Quiet'
  BY <1>1, <1>2 DEF ScopeInv, Quiet, CallCleanup
<1>5. Passed'
  <2>1. cursor' <= Len(_cleanup')
    BY <1>2, DataFacts
  <2>2. ASSUME NEW i \in DOMAIN _cleanup, NEW j \in DOMAIN _cleanup,
               i <= cursor - 1, cursor - 1 < j, _cleanup[j] \notin late
        PROVE  calls'[_cleanup[j]] >= calls'[_cleanup[i]] + 1
    <3>1. i \in Nat /\ j \in Nat /\ i < cursor /\ i # cursor /\ cursor <= j /\ i < j
      BY <2>2, <1>2
    <3>2. calls[_cleanup[i]] \in 0..2 /\ calls[_cleanup[j]] \in 0..2
      BY <1>1
    <3>3. CASE j = cursor
      <4>1. calls[_cleanup[j]] >= calls[_cleanup[i]]
        BY <2>2, <3>1 DEF ScopeInv, CleanupIsComplete, ReverseOrder
      <4> QED BY <4>1, <3>1, <3>2, <3>3, <1>1
    <3>4. CASE j # cursor
      <4>1. calls[_cleanup[j]] >= calls[_cleanup[i]] + 1
        BY <2>2, <3>1, <3>4, <1>2 DEF ScopeInv, Passed
      <4> QED BY <4>1, <3>1, <3>4, <1>1
    <3> QED BY <3>3, <3>4
  <2>3. ASSUME NEW i \in DOMAIN _cleanup, i <= cursor - 1
        PROVE  calls'[_cleanup[i]] < 2 /\ (~interrupted => calls'[_cleanup[i]] = 0)
    BY <2>3, <1>1, <1>2 DEF ScopeInv, Passed
  <2>4. ASSUME NEW j \in DOMAIN _cleanup, cursor - 1 < j, _cleanup[j] \notin late
        PROVE  calls'[_cleanup[j]] >= 1
    BY <2>4, <1>1, <1>2 DEF ScopeInv, Passed
  <2> QED BY <2>1, <2>2, <2>3, <2>4, <1>2 DEF Passed
<1>6. Once'
  <2> SUFFICES ASSUME ~interrupted, NEW c \in Cleanups PROVE calls'[c] <= 1
    BY <1>2 DEF Once
  <2>1. calls[c] <= 1
    BY DEF ScopeInv, Once
  <2>2. c # _cleanup[cursor] => calls'[c] = calls[c]
    BY DataFacts DEF CallCleanup
  <2> QED BY <2>1, <2>2, <1>1
<1>7. CleanupIsComplete'
  BY <1>1, <1>2 DEF CleanupIsComplete, ClosedCalledAll, OutcomeIsKept
<1> QED BY <1>3, <1>4, <1>5, <1>6, <1>7 DEF ScopeInv

LEMMA InterruptPreserves == ScopeInv /\ Interrupt => ScopeInv'
<1> SUFFICES ASSUME ScopeInv, Interrupt PROVE ScopeInv'
  OBVIOUS
<1>1. /\ cursor \in DOMAIN _cleanup /\ calls' \in [Cleanups -> 0..2]
      /\ \A c \in Cleanups : c \notin registered => calls'[c] = 0
      /\ ReverseOrder'
  BY Called DEF Interrupt
<1>2. /\ _cleanup' = _cleanup /\ late' = late /\ ~closing' /\ ~closed' /\ interrupted' /\ cursor' = 0
      /\ raised' = "the interrupt" /\ body # "runs" /\ body' = body
  BY DEF ScopeInv, Quiet, Interrupt
<1>3. ScopeTypes'
  <2>1. Flags'
    BY DEF ScopeInv, ScopeTypes, Flags, Interrupt
  <2>2. Data'
    <3>1. _cleanup' \in Seq(Cleanups) /\ cursor' \in 0..Len(_cleanup')
      <4>1. _cleanup \in Seq(Cleanups) /\ 0 \in 0..Len(_cleanup)
        BY DataFacts
      <4> QED BY <4>1, <1>2, Zenon
    <3>2. calls' \in [Cleanups -> 0..2]
      BY <1>1
    <3>3. errors' \subseteq Cleanups /\ late' \subseteq Cleanups
      BY DEF ScopeInv, ScopeTypes, Data, Interrupt
    <3>4. /\ body' \in {"runs", "passed", "raised"}
          /\ raised' \in {"nothing", "the test", "the cleanup", "the interrupt"}
      BY DEF ScopeInv, ScopeTypes, Data, Interrupt
    <3> QED BY <3>1, <3>2, <3>3, <3>4, Zenon DEF Data
  <2>3. Distinct'
    BY DEF ScopeInv, ScopeTypes, Distinct, Interrupt
  <2> QED BY <2>1, <2>2, <2>3 DEF ScopeTypes
<1>4. Quiet' /\ Passed' /\ Once'
  BY <1>1, <1>2 DEF ScopeInv, Quiet, Passed, Once
<1>5. CleanupIsComplete'
  BY <1>1, <1>2 DEF CleanupIsComplete, ClosedCalledAll, OutcomeIsKept
<1> QED BY <1>3, <1>4, <1>5 DEF ScopeInv

LEMMA EndClosePreserves == ScopeInv /\ EndClose => ScopeInv'
<1> SUFFICES ASSUME ScopeInv, EndClose PROVE ScopeInv'
  OBVIOUS
<1>1. /\ _cleanup' = _cleanup /\ late' = late /\ calls' = calls /\ ~closing' /\ closed' /\ errors' = errors
      /\ interrupted' = interrupted /\ body' = body /\ body # "runs" /\ closing /\ cursor = 0 /\ cursor' = 0
  BY DEF ScopeInv, Quiet, EndClose
<1>2. ScopeTypes'
  <2>1. Flags'
    BY DEF ScopeInv, ScopeTypes, Flags, EndClose
  <2>2. Data'
    BY <1>1 DEF ScopeInv, ScopeTypes, Data, EndClose
  <2>3. Distinct'
    BY DEF ScopeInv, ScopeTypes, Distinct, EndClose
  <2> QED BY <2>1, <2>2, <2>3 DEF ScopeTypes
<1>r. /\ body = "raised" /\ ~interrupted => raised' = "the test"
      /\ ~(body = "raised" /\ ~interrupted) /\ errors # {} => raised' = "the cleanup"
      /\ ~(body = "raised" /\ ~interrupted) /\ errors = {} => raised' = raised
  BY DEF EndClose
<1>3. Quiet'
  <2>1. interrupted => raised # "nothing"
    BY DEF ScopeInv, Quiet
  <2>2. interrupted' => raised' # "nothing"
    BY <1>r, <2>1, <1>1
  <2> QED BY <1>1, <2>2 DEF ScopeInv, Quiet
<1>7. Passed' /\ Once'
  BY <1>1 DEF ScopeInv, Passed, Once
<1>4. ReverseOrder'
  BY <1>1 DEF ScopeInv, CleanupIsComplete, ReverseOrder
<1>5. ClosedCalledAll'
  <2>1. ASSUME NEW c \in registered \ late
        PROVE  calls[c] >= 1 /\ (calls[c] > 1 => interrupted)
    <3>1. PICK j \in DOMAIN _cleanup : c = _cleanup[j]
      BY <2>1
    <3>2. j \in Nat /\ j > 0 /\ c \in Cleanups /\ calls[c] \in 0..2
      BY <3>1, DataFacts
    <3> QED BY <2>1, <3>1, <3>2, <1>1 DEF ScopeInv, Passed, Once
  <2> QED BY <2>1, <1>1 DEF ClosedCalledAll
<1>6. OutcomeIsKept'
  <2>1. body \in {"passed", "raised"} /\ (interrupted => raised # "nothing")
    BY <1>1 DEF ScopeInv, ScopeTypes, Data, Quiet
  <2>2. body' = "raised" /\ ~interrupted' => raised' = "the test"
    BY <1>1, <1>r
  <2>3. raised' = "nothing" => body' = "passed" /\ errors' = {} /\ ~interrupted'
    BY <2>1, <1>1, <1>r
  <2> QED BY <2>2, <2>3 DEF OutcomeIsKept
<1> QED BY <1>2, <1>3, <1>7, <1>4, <1>5, <1>6 DEF ScopeInv, CleanupIsComplete

LEMMA ScopeStepInv == ScopeInv /\ [ScopeNext]_scopeVars => ScopeInv'
<1> SUFFICES ASSUME ScopeInv, [ScopeNext]_scopeVars PROVE ScopeInv'
  OBVIOUS
<1>1. CASE \E c \in Cleanups : register(c)
  BY <1>1, RegisterPreserves
<1>2. CASE \E outcome \in {"passed", "raised"} : BeginClose(outcome)
  BY <1>2, BeginClosePreserves
<1>3. CASE \E raises \in BOOLEAN : CallCleanup(raises)
  BY <1>3, CallCleanupPreserves
<1>4. CASE Interrupt
  BY <1>4, InterruptPreserves
<1>5. CASE EndClose
  BY <1>5, EndClosePreserves
<1>6. CASE UNCHANGED scopeVars
  BY <1>6 DEF scopeVars, ScopeInv, ScopeTypes, Flags, Data, Distinct, Quiet, Passed, Once,
              CleanupIsComplete, ClosedCalledAll, ReverseOrder, OutcomeIsKept
<1> QED BY <1>1, <1>2, <1>3, <1>4, <1>5, <1>6 DEF ScopeNext

LEMMA ScopeInvariant == ScopeSpec => []ScopeInv
BY ScopeInitInv, ScopeStepInv, PTL DEF ScopeSpec

(* Every state of a scope is well typed, for any set of callables, and none*)
(* is called more often than twice.                                        *)
THEOREM ScopeIsTyped == ScopeSpec => []ScopeTypeOK
<1>1. Flags /\ Data => ScopeTypeOK
  BY Zenon DEF Flags, Data, ScopeTypeOK
<1> QED BY <1>1, ScopeInvariant, PTL DEF ScopeInv, ScopeTypes

(* A closed scope has called every cleanup, in reverse order and once, or  *)
(* once more after an interrupt, and kept the exception of its test, for   *)
(* any number of cleanups that raise or register others                    *)
(* (saqa/test_data.py).                                                    *)
THEOREM CleanupComplete == ScopeSpec => []CleanupIsComplete
BY ScopeInvariant, PTL DEF ScopeInv
=============================================================================

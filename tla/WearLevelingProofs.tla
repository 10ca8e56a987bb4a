------------------------- MODULE WearLevelingProofs -------------------------
(***************************************************************************)
(* Proofs about WearLeveling, for every size of the emulated EEPROM, every *)
(* backing store and every set of writes.                                  *)
(***************************************************************************)
EXTENDS WearLeveling, TLAPS

\* The fields of a call in progress, and the count of failed calls of the
\* backing store.
Fields == DOMAIN job = DOMAIN NoJob /\ used.faults \in Nat /\ "faults" \in DOMAIN used

\* While nothing has failed, a call that works on the store has unlocked it and
\* knows that it has to lock it; only the erase that starts the consolidation of
\* a power-on finds it locked.
Held == unlocked /\ job.lock = "SUCCESS"
LockKept ==
    used.faults = 0 =>
        /\ pc \in {"off", "idle"} => ~unlocked
        /\ pc \in {"append", "data", "sum"} => Held
        /\ pc \in {"erase", "erased"} => Held \/ (job.caller = "init" /\ ~unlocked)
        /\ pc = "lock" => Held \/ ~unlocked

Inv == Fields /\ LockKept

-----------------------------------------------------------------------------
\* A call of the backing store that fails is counted.
LEMMA FailIsCounted ==
    ASSUME Fields, NEW kind, Fail(kind)
    PROVE  used'.faults \in Nat /\ used'.faults # 0 /\ "faults" \in DOMAIN used'
BY DEF Fields, Fail

\* A call of the driver is counted, and the unlock that it fails to get.
LEMMA CallIsCounted ==
    ASSUME Fields, NEW call, call = [used EXCEPT !.calls = @ + 1],
           NEW fail, fail = [call EXCEPT !.faults = @ + 1]
    PROVE  /\ call.faults = used.faults /\ "faults" \in DOMAIN call
           /\ fail.faults = used.faults + 1 /\ "faults" \in DOMAIN fail
<1>1. call.faults = used.faults /\ "faults" \in DOMAIN call
  BY DEF Fields
<1> QED
  BY <1>1

\* A call that finds the store locked unlocks it and will lock it.
LEMMA UnlocksFields ==
    ASSUME NEW j, DOMAIN j = DOMAIN NoJob, Unlocks(j)
    PROVE  /\ unlocked' /\ DOMAIN job' = DOMAIN NoJob
           /\ ~unlocked => job'.lock = "SUCCESS"
<1>1. "lock" \in DOMAIN j
  BY DEF NoJob
<1> QED
  BY <1>1 DEF Unlocks

\* A power-on starts with the store locked.
LEMMA PlayBackKeeps ==
    ASSUME Inv, NEW base, NEW k, PlayBack(base, k),
           used'.faults \in Nat, "faults" \in DOMAIN used'
    PROVE  Inv'
<1>1. /\ ~unlocked'
      /\ \/ pc' = "erase" /\ job' = [NoJob EXCEPT !.caller = "init"]
         \/ pc' = "idle" /\ job' = NoJob
  BY DEF PlayBack, Return
<1> QED
  BY <1>1 DEF Inv, Fields, LockKept, Held, NoJob

LEMMA PowerOnKeeps == ASSUME Inv, PowerOn PROVE Inv'
<1>1. CASE PlayBack(read_consolidated, 0) /\ UNCHANGED used
  BY <1>1, PlayBackKeeps DEF Inv, Fields
<1>2. CASE Fail("checksum") /\ PlayBack(Zeroes, 0)
  BY <1>2, PlayBackKeeps, FailIsCounted DEF Inv
<1>3. CASE \E k \in LogIndex : Fail("read") /\ PlayBack(read_consolidated, k)
  BY <1>3, PlayBackKeeps, FailIsCounted DEF Inv
<1> QED
  BY <1>1, <1>2, <1>3 DEF PowerOn

LEMMA InitFailsKeeps == ASSUME Inv, InitFails PROVE Inv'
<1>1. pc' = "idle" /\ job' = NoJob /\ ~unlocked'
  BY DEF InitFails, Return
<1>2. used'.faults \in Nat /\ "faults" \in DOMAIN used'
  BY FailIsCounted DEF InitFails, Inv
<1> QED
  BY <1>1, <1>2 DEF Inv, Fields, LockKept

\* wear_leveling_write and wear_leveling_erase begin with the store locked.
LEMMA WriteKeeps == ASSUME Inv, NEW a, NEW v, Write(a, v) PROVE Inv'
<1>1. pc = "idle" /\ (used.faults = 0 => ~unlocked)
  BY DEF Inv, LockKept, Write
<1>2. /\ used'.faults \in {used.faults, used.faults + 1} /\ "faults" \in DOMAIN used'
      /\ used'.faults \in Nat
  <2>1. PICK call : call = [used EXCEPT !.calls = @ + 1]
    OBVIOUS
  <2>2. PICK fail : fail = [call EXCEPT !.faults = @ + 1]
    OBVIOUS
  <2>3. used' \in {call, fail}
    BY <2>1, <2>2 DEF Write
  <2>4. /\ call.faults = used.faults /\ "faults" \in DOMAIN call
        /\ fail.faults = used.faults + 1 /\ "faults" \in DOMAIN fail
    BY <2>1, <2>2, CallIsCounted, Zenon DEF Inv
  <2> QED
    BY <2>3, <2>4 DEF Inv, Fields
<1>3. CASE pc' = "idle" /\ job' = NoJob /\ UNCHANGED unlocked
  BY <1>1, <1>2, <1>3 DEF Inv, Fields, LockKept
<1>4. CASE /\ pc' = "append"
           /\ Unlocks([NoJob EXCEPT !.caller = "write", !.words = write_raw(a, v),
                                    !.arg = <<a, v>>])
  <2>1. DOMAIN [NoJob EXCEPT !.caller = "write", !.words = write_raw(a, v),
                             !.arg = <<a, v>>] = DOMAIN NoJob
    OBVIOUS
  <2>2. unlocked' /\ DOMAIN job' = DOMAIN NoJob /\ (~unlocked => job'.lock = "SUCCESS")
    BY <1>4, <2>1, UnlocksFields
  <2> QED
    BY <1>1, <1>2, <1>4, <2>2 DEF Inv, Fields, LockKept, Held
<1> QED
  BY <1>3, <1>4 DEF Write, Return

LEMMA EraseKeeps == ASSUME Inv, Erase PROVE Inv'
<1>1. pc = "idle" /\ (used.faults = 0 => ~unlocked)
  BY DEF Inv, LockKept, Erase
<1>2. /\ used'.faults \in {used.faults, used.faults + 1} /\ "faults" \in DOMAIN used'
      /\ used'.faults \in Nat
  <2>1. PICK call : call = [used EXCEPT !.calls = @ + 1]
    OBVIOUS
  <2>2. PICK fail : fail = [call EXCEPT !.faults = @ + 1]
    OBVIOUS
  <2>3. used' \in {call, fail}
    <3>1. [used EXCEPT !.calls = @ + 1, !.faults = @ + 1] = fail
      BY <2>1, <2>2
    <3> QED
      BY <2>1, <3>1 DEF Erase
  <2>4. /\ call.faults = used.faults /\ "faults" \in DOMAIN call
        /\ fail.faults = used.faults + 1 /\ "faults" \in DOMAIN fail
    BY <2>1, <2>2, CallIsCounted, Zenon DEF Inv
  <2> QED
    BY <2>3, <2>4 DEF Inv, Fields
<1>3. CASE pc' = "idle" /\ job' = NoJob /\ UNCHANGED unlocked
  BY <1>1, <1>2, <1>3 DEF Inv, Fields, LockKept
<1>4. CASE pc' = "erase" /\ Unlocks([NoJob EXCEPT !.caller = "erase"])
  <2>1. DOMAIN [NoJob EXCEPT !.caller = "erase"] = DOMAIN NoJob
    OBVIOUS
  <2>2. unlocked' /\ DOMAIN job' = DOMAIN NoJob /\ (~unlocked => job'.lock = "SUCCESS")
    BY <1>4, <2>1, UnlocksFields
  <2> QED
    BY <1>1, <1>2, <1>4, <2>2 DEF Inv, Fields, LockKept, Held
<1> QED
  BY <1>3, <1>4 DEF Erase, Return

LEMMA ReadKeeps == ASSUME Inv, NEW a, NEW n, Read(a, n) PROVE Inv'
BY DEF Inv, Fields, LockKept, Held, Read

LEMMA AppendFailsKeeps == ASSUME Inv, AppendFails PROVE Inv'
BY FailIsCounted DEF Inv, Fields, LockKept, Held, AppendFails, Finish

LEMMA AppendRawKeeps == ASSUME Inv, AppendRaw PROVE Inv'
<1>1. /\ pc = "append" /\ UNCHANGED <<unlocked, used>>
      /\ pc' \in {"append", "erase", "lock"}
  BY DEF AppendRaw, Finish
<1>2. DOMAIN job' = DOMAIN job /\ job'.lock = job.lock
  <2>1. \/ job' = [job EXCEPT !.next = 0]
        \/ job' = [job EXCEPT !.words = Tail(@)]
        \/ job' = [job EXCEPT !.status = "SUCCESS"]
    BY DEF AppendRaw, Finish
  <2>2. "lock" \in DOMAIN job
    BY DEF Inv, Fields, NoJob
  <2> QED
    BY <2>1, <2>2
<1> QED
  BY <1>1, <1>2 DEF Inv, Fields, LockKept, Held

LEMMA EraseSectorKeeps == ASSUME Inv, NEW ok \in BOOLEAN, EraseSector(ok) PROVE Inv'
BY FailIsCounted DEF Inv, Fields, LockKept, Held, EraseSector

LEMMA EraseReturnsKeeps == ASSUME Inv, EraseReturns PROVE Inv'
BY DEF Inv, Fields, LockKept, Held, EraseReturns, Finish

LEMMA ConsolidateKeeps == ASSUME Inv, Consolidate PROVE Inv'
<1>1. pc = "erased" /\ DOMAIN job = DOMAIN NoJob /\ "lock" \in DOMAIN job
  BY DEF Inv, Fields, NoJob, Consolidate
<1>2. CASE Finish("FAILED") /\ UNCHANGED <<unlocked, used>>
  BY <1>1, <1>2 DEF Inv, Fields, LockKept, Held, Finish
<1>3. CASE /\ unlocked /\ pc' = "data" /\ job' = [job EXCEPT !.next = 0]
           /\ UNCHANGED <<unlocked, used>>
  BY <1>1, <1>3 DEF Inv, Fields, LockKept, Held
<1>4. CASE /\ ~unlocked /\ pc' = "data" /\ Unlocks([job EXCEPT !.next = 0]) /\ UNCHANGED used
  <2>1. DOMAIN [job EXCEPT !.next = 0] = DOMAIN NoJob
    BY <1>1
  <2>2. unlocked' /\ DOMAIN job' = DOMAIN NoJob /\ job'.lock = "SUCCESS"
    BY <1>4, <2>1, UnlocksFields
  <2> QED
    BY <1>4, <2>2 DEF Inv, Fields, LockKept, Held
<1>5. CASE /\ pc' = "data" /\ Fail("unlock")
           /\ job' = [job EXCEPT !.next = 0, !.lock = "FAILURE"]
  BY <1>1, <1>5, FailIsCounted DEF Inv, Fields, LockKept
<1> QED
  BY <1>2, <1>3, <1>4, <1>5 DEF Consolidate

LEMMA WriteDataKeeps == ASSUME Inv, WriteData PROVE Inv'
BY DEF Inv, Fields, LockKept, Held, WriteData

LEMMA WriteSumKeeps == ASSUME Inv, WriteSum PROVE Inv'
<1>1. pc = "sum" /\ pc' \in {"sum", "lock"} /\ UNCHANGED <<unlocked, used>>
  BY DEF WriteSum, Consolidated, Finish
<1>2. DOMAIN job' = DOMAIN job /\ job'.lock = job.lock
  <2>1. \/ job' = [job EXCEPT !.next = @ + 1]
        \/ job' = [job EXCEPT !.status = "CONSOLIDATED"]
    BY DEF WriteSum, Consolidated, Finish
  <2>2. "lock" \in DOMAIN job
    BY DEF Inv, Fields, NoJob
  <2> QED
    BY <2>1, <2>2
<1> QED
  BY <1>1, <1>2 DEF Inv, Fields, LockKept, Held

LEMMA WriteConsolidatedFailsKeeps == ASSUME Inv, WriteConsolidatedFails PROVE Inv'
BY FailIsCounted DEF Inv, Fields, LockKept, Held, WriteConsolidatedFails, Consolidated, Finish

LEMMA LockKeeps == ASSUME Inv, NEW ok \in BOOLEAN, Lock(ok) PROVE Inv'
BY FailIsCounted DEF Inv, Fields, LockKept, Held, Lock, Return

LEMMA PowerLossKeeps == ASSUME Inv, PowerLoss PROVE Inv'
BY DEF Inv, Fields, LockKept, Held, PowerLoss

LEMMA InitInv == Init => Inv
BY DEF Init, Inv, Fields, LockKept, NoJob

\* Every step keeps the invariant.
LEMMA NextInv == Inv /\ [Next]_vars => Inv'
<1> SUFFICES ASSUME Inv, [Next]_vars PROVE Inv'
  OBVIOUS
<1>1. CASE InitFails \/ PowerOn \/ Erase \/ AppendRaw \/ AppendFails
  BY <1>1, InitFailsKeeps, PowerOnKeeps, EraseKeeps, AppendRawKeeps, AppendFailsKeeps
<1>2. CASE \E x \in Writes : Write(x[1], x[2]) \/ Read(x[1], Len(x[2]))
  BY <1>2, WriteKeeps, ReadKeeps
<1>3. CASE \E ok \in BOOLEAN : EraseSector(ok) \/ Lock(ok)
  BY <1>3, EraseSectorKeeps, LockKeeps
<1>4. CASE EraseReturns \/ Consolidate \/ WriteData \/ WriteSum \/ WriteConsolidatedFails \/ PowerLoss
  BY <1>4, EraseReturnsKeeps, ConsolidateKeeps, WriteDataKeeps, WriteSumKeeps,
     WriteConsolidatedFailsKeeps, PowerLossKeeps
<1>5. CASE UNCHANGED vars
  BY <1>5 DEF vars, Inv, Fields, LockKept, Held
<1> QED
  BY <1>1, <1>2, <1>3, <1>4, <1>5 DEF Next

\* For every store and every sequence of calls and power failures in which the
\* backing store works, it is written only while it is unlocked, and locked
\* whenever no call is in progress.
THEOREM LocksAreKept == Spec => []LockDiscipline
<1>1. Inv => LockDiscipline
  BY DEF Inv, LockKept, Held, LockDiscipline
<1> QED
  BY <1>1, InitInv, NextInv, PTL DEF Spec
=============================================================================

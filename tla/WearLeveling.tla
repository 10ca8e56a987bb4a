---------------------------- MODULE WearLeveling ----------------------------
(***************************************************************************)
(* The emulated EEPROM of QMK, wear_leveling.c: a copy of the data in RAM  *)
(* (the cache), a consolidated copy of it with a checksum at the start of  *)
(* the backing store (flash), and behind that a log of writes.  A write    *)
(* changes the cache and appends entries to the log; when the log is full  *)
(* the store is erased and the cache written as the consolidated data.     *)
(* At power-on the log is played back over the consolidated data.          *)
(*                                                                         *)
(* One step is one call of the backing store (unlock, write of a word,     *)
(* erase of a sector, lock), because the power may fail between any two of *)
(* them and each of them may fail.  Log entries are coded in bytes as in   *)
(* wear_leveling_internal.h, since what the play-back makes of half an     *)
(* entry depends on the code.  The 64-bit checksum stands for the data it  *)
(* was computed of: collisions are left out.                               *)
(***************************************************************************)
EXTENDS Integers, Sequences, FiniteSets

CONSTANTS
    LogicalSize,     \* WEAR_LEVELING_LOGICAL_SIZE
    BackingSize,     \* WEAR_LEVELING_BACKING_SIZE
    Writes,          \* the arguments <<address, bytes>> of the calls
    OutsideByte,     \* what a read behind the backing store returns
    Instances,       \* flash memories and what happens to them; Init chooses one
    MaxCalls         \* bound: calls of write and erase

FaultKinds == {"init", "read", "checksum", "unlock", "write", "erase", "lock"}

Instance == [
    WriteSize : {2, 4, 8},        \* BACKING_STORE_WRITE_SIZE
    AddressBase : 1 .. 256,       \* 256: values of one address byte of a log entry
    ShortAddresses : 0 .. 64,     \* 64: addresses that fit a one-word byte entry
    TwoSectors : BOOLEAN,         \* the store is two flash sectors, else one
    Faults : SUBSET FaultKinds,   \* the backing store calls that may fail
    MaxFaults : Nat,              \* bound: failed calls of the backing store
    MaxPowerLosses : Nat]         \* bound: power failures

ASSUME SizeAssumption ==
    /\ LogicalSize \in Nat \ {0} /\ BackingSize \in Nat
    /\ BackingSize >= 2 * LogicalSize /\ BackingSize % LogicalSize = 0
    /\ Instances \subseteq Instance
    /\ \A i \in Instances : /\ LogicalSize % i.WriteSize = 0
                             /\ BackingSize - LogicalSize - 8 >= i.WriteSize
ASSUME InputAssumption ==
    /\ Writes # {}
    /\ \A x \in Writes : x[1] \in Nat /\ x[2] \in Seq(0 .. 255) /\ x[2] # <<>>
    /\ OutsideByte \in 0 .. 255
ASSUME BoundAssumption == MaxCalls \in Nat

VARIABLES
    store,          \* the flash: consolidated data, checksum words, log words
    cache,          \* wear_leveling.cache
    write_address,  \* wear_leveling.write_address, in log words
    unlocked,       \* wear_leveling.unlocked
    pc,             \* the backing store call that comes next
    job,            \* the call in progress
    before,         \* history: the cache before the call in progress
    result,         \* history: what the last call returned
    failed,         \* history: a call has failed, and nothing repaired it yet
    used            \* the instance, and what its bounds count

vars == <<store, cache, write_address, unlocked, pc, job, before, result, failed, used>>

WriteSize == used.instance.WriteSize
AddressBase == used.instance.AddressBase
ShortAddresses == used.instance.ShortAddresses
TwoSectors == used.instance.TwoSectors
Faults == used.instance.Faults
MaxFaults == used.instance.MaxFaults
MaxPowerLosses == used.instance.MaxPowerLosses

Address == 0 .. LogicalSize - 1
Zeroes == [a \in Address |-> 0]
DataWords == LogicalSize \div WriteSize
SumWords == 8 \div WriteSize
LogWords == (BackingSize - LogicalSize - 8) \div WriteSize
ZeroWord == [k \in 1 .. WriteSize |-> 0]
LogIndex == 1 .. LogWords
Erased == [data |-> Zeroes, sum |-> <<>>, log |-> [k \in LogIndex |-> ZeroWord]]

NoJob == [caller |-> "none", words |-> <<>>, next |-> 0, lock |-> "UNCHANGED",
          status |-> "SUCCESS", arg |-> <<0, <<>>>>]

\* One more fault of a kind this instance allows.
Fail(kind) ==
    /\ kind \in Faults /\ used.faults < MaxFaults
    /\ used' = [used EXCEPT !.faults = @ + 1]

-----------------------------------------------------------------------------
(***************************************************************************)
(* Log entries                                                             *)
(***************************************************************************)
Pad(bytes) == [k \in 1 .. 8 |-> IF k <= Len(bytes) THEN bytes[k] ELSE 0]

\* Mutant: the address bytes are swapped.
MultiByteSwapped(a, v) ==
    Pad(<<8 * Len(v) + ((a \div (AddressBase * AddressBase)) % 8),
          a % AddressBase, (a \div AddressBase) % AddressBase>> \o v)

MultiByte(a, v) ==
    Pad(<<8 * Len(v) + ((a \div (AddressBase * AddressBase)) % 8),
          (a \div AddressBase) % AddressBase, a % AddressBase>> \o v)
Optimized64(a, b) == <<64 + a, b>>

Word01(a, b) == <<128 + 32 * b + (a \div (2 * AddressBase)), (a \div 2) % AddressBase>>

\* Words a multi-byte entry of len bytes takes.
EntryWords(len) ==
    IF WriteSize = 2 THEN IF len > 3 THEN 4 ELSE IF len > 1 THEN 3 ELSE 2
    ELSE IF WriteSize = 4 /\ len > 1 THEN 2 ELSE 1

Words(bytes, n) == [k \in 1 .. n |-> SubSeq(bytes, (k - 1) * WriteSize + 1, k * WriteSize)]

\* The words wear_leveling_write_raw appends: entries of at most five bytes.
write_raw(a, v) ==
    LET from[i \in 1 .. Len(v) + 5] ==
            IF i > Len(v) THEN <<>>
            ELSE LET x == a + i - 1
                     rest == Len(v) - i + 1
                     n == IF rest > 5 THEN 5 ELSE rest
                 IN IF /\ WriteSize = 2 /\ rest >= 2
                       /\ x % 2 = 0 /\ x < 64 * AddressBase
                       /\ v[i + 1] = 0 /\ v[i] \in {0, 1}
                    THEN <<Word01(x, v[i])>> \o from[i + 2]
                    ELSE IF WriteSize = 2 /\ x < ShortAddresses
                    THEN <<Optimized64(x, v[i])>> \o from[i + 1]
                    ELSE Words(MultiByte(x, SubSeq(v, i, i + n - 1)), EntryWords(n))
                             \o from[i + n]
    IN from[1]

Overlay(c, a, bytes) ==
    [x \in Address |-> IF x \in a .. a + Len(bytes) - 1 THEN bytes[x - a + 1] ELSE c[x]]

EntryType(e) == (e[1] \div 64) % 4
EntryLength(e) == (e[1] \div 8) % 8
EntryAddress(e) == ((e[1] % 8) * AddressBase + e[2]) * AddressBase + e[3]

\* The play-back of the log takes one more word: it completes an entry, leaves
\* one incomplete, meets the end of the log, or finds that the entry is wrong.
Feed(d, k, readable) ==
    LET word == IF k \in LogIndex THEN store.log[k] ELSE [j \in 1 .. WriteSize |-> OutsideByte]
        e == d.part \o word
        more == [d EXCEPT !.part = e, !.next = k, !.outside = k \notin LogIndex]
        done(c) == [more EXCEPT !.part = <<>>, !.cache = c]
        bad == [d EXCEPT !.stop = "FAILED"]
    IN IF d.stop # "no" THEN d
       ELSE IF d.part = <<>> /\ k \notin LogIndex THEN [d EXCEPT !.stop = "end"]
       ELSE IF ~readable THEN bad
       ELSE IF d.part = <<>> /\ word = ZeroWord THEN [d EXCEPT !.stop = "end"]
       ELSE IF EntryType(e) = 0 THEN
            IF Len(e) < 3 THEN more
            ELSE IF EntryAddress(e) + EntryLength(e) > LogicalSize THEN bad
            ELSE IF Len(e) < WriteSize * EntryWords(EntryLength(e)) THEN more
            ELSE done(Overlay(d.cache, EntryAddress(e), SubSeq(e, 4, 3 + EntryLength(e))))
       ELSE IF EntryType(e) = 1 /\ WriteSize = 2 THEN
            IF e[1] % 64 >= LogicalSize THEN bad
            ELSE done(Overlay(d.cache, e[1] % 64, <<e[2]>>))
       ELSE IF EntryType(e) = 2 /\ WriteSize = 2 THEN
            LET a == (e[1] % 32) * 2 * AddressBase + 2 * e[2]
            IN IF a + 1 >= LogicalSize THEN bad
               ELSE done(Overlay(d.cache, a, <<(e[1] \div 32) % 2, 0>>))
       ELSE bad

\* wear_leveling_playback_log over base; the read of word unreadable fails.
\* (The CHOOSE from a singleton has TLC evaluate d[k - 1] once.)
playback_log(base, unreadable) ==
    LET d[k \in 0 .. LogWords + 4] ==
            IF k = 0 THEN [cache |-> base, part |-> <<>>, stop |-> "no",
                           next |-> 0, outside |-> FALSE]
            ELSE CHOOSE x \in {Feed(p, k, k # unreadable) : p \in {d[k - 1]}} : TRUE
    IN d[LogWords + 4]

Checksum(c) == [k \in 1 .. SumWords |-> <<c, k>>]

\* wear_leveling_read_consolidated, its reads all good.
read_consolidated == IF store.sum = Checksum(store.data) THEN store.data ELSE Zeroes

\* What a power-on makes of the store when its reads are all good.
Restored == playback_log(read_consolidated, 0)

-----------------------------------------------------------------------------
(***************************************************************************)
(* The calls                                                               *)
(***************************************************************************)
Init ==
    /\ used \in [instance : Instances, calls : {0}, faults : {0}, losses : {0}]
    /\ store = Erased
    /\ cache = Zeroes /\ write_address = 0 /\ unlocked = FALSE
    /\ pc = "off" /\ job = NoJob /\ before = Zeroes
    /\ result = [caller |-> "none", status |-> "SUCCESS"] /\ failed = FALSE

Return(caller, status) ==
    /\ pc' = "idle" /\ job' = NoJob
    /\ result' = [caller |-> caller, status |-> status]
    /\ failed' = CASE status = "FAILED" -> TRUE
                   [] status = "CONSOLIDATED" \/ caller = "init" -> FALSE
                   [] OTHER -> failed

\* wear_leveling_clear_cache.
clear_cache == cache' = Zeroes /\ write_address' = 0

\* wear_leveling_init, when the driver or the consolidated data fails.
InitFails ==
    /\ pc = "off"
    /\ Fail("init") \/ Fail("read")
    /\ clear_cache /\ unlocked' = FALSE
    /\ before' = Zeroes
    /\ Return("init", "FAILED")
    /\ UNCHANGED store

\* wear_leveling_init: base is the consolidated data read, unreadable the log
\* word whose read fails.
PlayBack(base, unreadable) ==
    LET d == playback_log(base, unreadable)
    IN /\ cache' = d.cache /\ before' = d.cache
       /\ write_address' = d.next /\ unlocked' = FALSE
       /\ \/ /\ d.stop = "FAILED" \/ d.next >= LogWords
             /\ pc' = "erase"
             /\ job' = [NoJob EXCEPT !.caller = "init"]
             /\ UNCHANGED <<result, failed>>
          \/ /\ d.stop # "FAILED" /\ d.next < LogWords
             /\ Return("init", "SUCCESS")
       /\ UNCHANGED store

PowerOn ==
    /\ pc = "off"
    /\ \/ PlayBack(read_consolidated, 0) /\ UNCHANGED used
       \/ Fail("checksum") /\ PlayBack(Zeroes, 0)
       \/ \E k \in LogIndex : Fail("read") /\ PlayBack(read_consolidated, k)

\* The caller holds the lock, or takes it now.
Unlocks(j) ==
    /\ unlocked' = TRUE
    /\ job' = [j EXCEPT !.lock = IF unlocked THEN "UNCHANGED" ELSE "SUCCESS"]

\* wear_leveling_write up to its first word.
Write(a, v) ==
    LET new == Overlay(cache, a, v)
        call == [used EXCEPT !.calls = @ + 1]
    IN /\ pc = "idle" /\ used.calls < MaxCalls
       /\ \/ /\ a + Len(v) > LogicalSize
             /\ Return("write", "FAILED")
             /\ used' = call
             /\ UNCHANGED <<cache, before, unlocked>>
          \/ /\ a + Len(v) <= LogicalSize /\ new = cache
             /\ Return("write", "SUCCESS")
             /\ used' = call
             /\ UNCHANGED <<cache, before, unlocked>>
          \/ /\ a + Len(v) <= LogicalSize /\ new # cache
             /\ before' = cache /\ cache' = new
             /\ \/ /\ Unlocks([NoJob EXCEPT !.caller = "write", !.words = write_raw(a, v),
                                            !.arg = <<a, v>>])
                   /\ pc' = "append"
                   /\ used' = call
                   /\ UNCHANGED <<result, failed>>
                \/ /\ ~unlocked /\ "unlock" \in Faults /\ used.faults < MaxFaults
                   /\ Return("write", "FAILED")
                   /\ used' = [call EXCEPT !.faults = @ + 1]
                   /\ UNCHANGED unlocked
       /\ UNCHANGED <<store, write_address>>

\* wear_leveling_erase up to its erase.
Erase ==
    /\ pc = "idle" /\ used.calls < MaxCalls
    /\ before' = cache
    /\ \/ /\ Unlocks([NoJob EXCEPT !.caller = "erase"])
          /\ pc' = "erase"
          /\ used' = [used EXCEPT !.calls = @ + 1]
          /\ UNCHANGED <<result, failed>>
       \/ /\ ~unlocked /\ "unlock" \in Faults /\ used.faults < MaxFaults
          /\ Return("erase", "FAILED")
          /\ used' = [used EXCEPT !.calls = @ + 1, !.faults = @ + 1]
          /\ UNCHANGED unlocked
    /\ UNCHANGED <<store, cache, write_address>>

\* wear_leveling_read: only the cache is read.
Read(a, n) ==
    /\ pc = "idle"
    /\ result' = [caller |-> "read",
                  status |-> IF a + n > LogicalSize THEN "FAILED" ELSE "SUCCESS"]
    /\ UNCHANGED <<store, cache, write_address, unlocked, pc, job, before, failed, used>>

\* The call goes on with its wear_leveling_lock.
Finish(status) ==
    /\ pc' = "lock"
    /\ job' = [job EXCEPT !.status = status]

\* Programming flash only sets bits (of the complement the driver stores).
Bit(x, k) == (x \div (2 ^ k)) % 2
OrByte(x, y) ==
    LET bit(k) == IF Bit(x, k) = 1 \/ Bit(y, k) = 1 THEN 2 ^ k ELSE 0
    IN bit(0) + bit(1) + bit(2) + bit(3) + bit(4) + bit(5) + bit(6) + bit(7)
Program(old, new) == [k \in 1 .. WriteSize |-> OrByte(old[k], new[k])]

\* Mutant: the failed write of a word is not passed on.
AppendFailsSilently ==
    /\ pc = "append"
    /\ Fail("write")
    /\ Finish("SUCCESS")
    /\ UNCHANGED <<store, cache, write_address, unlocked, before, result, failed>>

\* wear_leveling_append_raw when the backing store refuses the word: always it
\* may, and when the word is not erased.
AppendFails ==
    /\ pc = "append"
    /\ \/ Fail("write")
       \/ /\ write_address < LogWords /\ store.log[write_address + 1] # ZeroWord
          /\ UNCHANGED used
    /\ Finish("FAILED")
    /\ UNCHANGED <<store, cache, write_address, unlocked, before, result, failed>>

\* Mutant: the full log is not noticed.
AppendNeverFull ==
    /\ pc = "append"
    /\ write_address' = write_address + 1
    /\ store' = IF write_address < LogWords
                THEN [store EXCEPT !.log[write_address + 1] = Program(@, Head(job.words))]
                ELSE store
    /\ \/ /\ Len(job.words) > 1
          /\ job' = [job EXCEPT !.words = Tail(@)]
          /\ UNCHANGED pc
       \/ /\ Len(job.words) = 1
          /\ Finish("SUCCESS")
    /\ UNCHANGED <<cache, unlocked, before, result, failed, used>>

\* wear_leveling_append_raw.  A word behind the store changes nothing in it.
AppendRaw ==
    /\ pc = "append"
    /\ write_address' = write_address + 1
    /\ store' = IF write_address < LogWords
                THEN [store EXCEPT !.log[write_address + 1] = Program(@, Head(job.words))]
                ELSE store
    /\ \/ /\ write_address' >= LogWords
          /\ pc' = "erase"
          /\ job' = [job EXCEPT !.next = 0]
       \/ /\ write_address' < LogWords /\ Len(job.words) > 1
          /\ job' = [job EXCEPT !.words = Tail(@)]
          /\ UNCHANGED pc
       \/ /\ write_address' < LogWords /\ Len(job.words) = 1
          /\ Finish("SUCCESS")
    /\ UNCHANGED <<cache, unlocked, before, result, failed, used>>

\* backing_store_erase, one sector; it goes on after a sector that fails.
EraseSector(ok) ==
    LET last == ~TwoSectors \/ job.next = 1
        cleared == [data |-> IF job.next = 0 THEN Zeroes ELSE store.data,
                    sum |-> IF last THEN <<>> ELSE store.sum,
                    log |-> IF last THEN Erased.log ELSE store.log]
    IN /\ pc = "erase"
       /\ \/ ok /\ store' = cleared /\ UNCHANGED used
          \/ ~ok /\ Fail("erase") /\ UNCHANGED store
       /\ job' = [job EXCEPT !.next = @ + 1, !.status = IF ok THEN @ ELSE "FAILED"]
       /\ pc' = IF last THEN "erased" ELSE "erase"
       /\ UNCHANGED <<cache, write_address, unlocked, before, result, failed>>

\* wear_leveling_erase after the erase.
EraseReturns ==
    /\ pc = "erased" /\ job.caller = "erase"
    /\ clear_cache
    /\ Finish(job.status)
    /\ UNCHANGED <<store, unlocked, before, result, failed, used>>

\* Mutant: the consolidation of a power-on does not unlock the store.
ConsolidateLocked ==
    /\ pc = "erased" /\ job.caller # "erase"
    /\ pc' = "data" /\ job' = [job EXCEPT !.next = 0]
    /\ UNCHANGED <<store, cache, write_address, unlocked, before, result, failed, used>>

\* wear_leveling_consolidate_force after the erase.  A failed erase ends it.
\* Otherwise write_consolidated tries to unlock the store, and goes on to write
\* when it cannot.
Consolidate ==
    /\ pc = "erased" /\ job.caller # "erase"
    /\ \/ /\ job.status = "FAILED"
          /\ Finish("FAILED")
          /\ UNCHANGED <<unlocked, used>>
       \/ /\ job.status # "FAILED" /\ pc' = "data"
          /\ \/ /\ unlocked
                /\ job' = [job EXCEPT !.next = 0]
                /\ UNCHANGED <<unlocked, used>>
             \/ /\ ~unlocked
                /\ Unlocks([job EXCEPT !.next = 0])
                /\ UNCHANGED used
             \/ /\ ~unlocked /\ Fail("unlock")
                /\ job' = [job EXCEPT !.next = 0, !.lock = "FAILURE"]
                /\ UNCHANGED unlocked
    /\ UNCHANGED <<store, cache, write_address, before, result, failed>>

\* The address of the log is reset even when the data was not written.
Consolidated(status) == write_address' = 0 /\ Finish(status)

\* wear_leveling_write_consolidated, one word of the data.
WriteData ==
    LET word == job.next * WriteSize .. job.next * WriteSize + WriteSize - 1
    IN /\ pc = "data" /\ unlocked
       /\ store' = [store EXCEPT !.data = [a \in Address |-> IF a \in word THEN cache[a]
                                                             ELSE @[a]]]
       /\ pc' = IF job.next + 1 = DataWords THEN "sum" ELSE "data"
       /\ job' = [job EXCEPT !.next = IF @ + 1 = DataWords THEN 0 ELSE @ + 1]
       /\ UNCHANGED <<cache, write_address, unlocked, before, result, failed, used>>

\* wear_leveling_write_consolidated, one word of the checksum.
WriteSum ==
    /\ pc = "sum" /\ unlocked
    /\ store' = [store EXCEPT !.sum = Append(@, Checksum(cache)[job.next + 1])]
    /\ \/ /\ job.next + 1 < SumWords
          /\ job' = [job EXCEPT !.next = @ + 1]
          /\ UNCHANGED <<pc, write_address>>
       \/ /\ job.next + 1 = SumWords
          /\ Consolidated("CONSOLIDATED")
    /\ UNCHANGED <<cache, unlocked, before, result, failed, used>>

\* The write of a word of the consolidated data fails; it does in a store that
\* is still locked.
WriteConsolidatedFails ==
    /\ pc \in {"data", "sum"}
    /\ \/ Fail("write")
       \/ ~unlocked /\ UNCHANGED used
    /\ Consolidated("FAILED")
    /\ UNCHANGED <<store, cache, unlocked, before, result, failed>>

\* The call locks the store if it has unlocked it, and returns.
Lock(ok) ==
    /\ pc = "lock"
    /\ \/ ok /\ UNCHANGED used
       \/ ~ok /\ job.lock = "SUCCESS" /\ Fail("lock")
    /\ unlocked' = (unlocked /\ ~(ok /\ job.lock = "SUCCESS"))
    /\ Return(job.caller, IF ok \/ job.caller = "init" THEN job.status ELSE "FAILED")
    /\ \/ job.caller = "init" /\ job.status = "FAILED" /\ clear_cache
       \/ ~(job.caller = "init" /\ job.status = "FAILED") /\ UNCHANGED <<cache, write_address>>
    /\ UNCHANGED <<store, before>>

\* The power fails: only the flash keeps its contents.
PowerLoss ==
    /\ pc # "off" /\ used.losses < MaxPowerLosses
    /\ used' = [used EXCEPT !.losses = @ + 1]
    /\ pc' = "off" /\ job' = NoJob /\ unlocked' = FALSE
    /\ UNCHANGED <<store, cache, write_address, before, result, failed>>

Next ==
    \/ InitFails \/ PowerOn
    \/ \E x \in Writes : Write(x[1], x[2]) \/ Read(x[1], Len(x[2]))
    \/ Erase
    \/ AppendRaw \/ AppendFails
    \/ \E ok \in BOOLEAN : EraseSector(ok) \/ Lock(ok)
    \/ EraseReturns \/ Consolidate
    \/ WriteData \/ WriteSum \/ WriteConsolidatedFails
    \/ PowerLoss

Spec == Init /\ [][Next]_vars

-----------------------------------------------------------------------------
(***************************************************************************)
(* Properties                                                              *)
(***************************************************************************)
Bytes == [Address -> 0 .. 255]
LogWord == [1 .. WriteSize -> 0 .. 255]

\* Type correctness.
TypeOK ==
    /\ store.data \in Bytes /\ store.log \in [LogIndex -> LogWord]
    /\ Len(store.sum) <= SumWords
    /\ cache \in Bytes /\ before \in Bytes
    /\ write_address \in 0 .. LogWords + 3 + MaxFaults
    /\ unlocked \in BOOLEAN /\ failed \in BOOLEAN
    /\ pc \in {"off", "idle", "append", "erase", "erased", "data", "sum", "lock"}
    /\ used \in [instance : Instances, calls : 0 .. MaxCalls, faults : 0 .. MaxFaults,
                losses : 0 .. MaxPowerLosses]

\* The bytes that may change when a write of n bytes at a is cut.  With 2-byte
\* words the first word of an entry lacks the last byte of its address: cut
\* after that word, the entry is played back at the start of the page.
TornReach(i, a, n) ==
    {x \in Address :
        \/ x \in a .. a + n - 1
        \/ i.WriteSize = 2 /\ \E y \in a .. a + n - 1 :
               LET page == (y \div i.AddressBase) * i.AddressBase IN x \in page .. page + 4}

SectorsOf(i) == IF i.TwoSectors THEN 2 ELSE 1

Contents == IF pc = "off" THEN Restored.cache ELSE cache

Eeprom == INSTANCE EmulatedEeprom WITH
    mem <- Contents,
    before <- IF pc = "off" THEN Contents ELSE before,
    arg <- IF pc = "lock" THEN NoJob.arg ELSE job.arg,
    Damage <- TornReach,
    Sectors <- SectorsOf,
    instance <- used.instance,
    broken <- used.faults > 0,
    phase <- CASE pc = "off" -> "off"
               [] pc \in {"idle", "lock"} -> "up"
               [] pc = "append" -> "writing"
               [] job.caller = "erase" -> "clearing"
               [] OTHER -> "moving"

\* The emulated EEPROM of wear_leveling.c is an array of bytes that survives
\* the loss of power: what the cache holds is what the next power-on plays
\* back from the store, and a cut write or consolidation does no more damage
\* than EmulatedEeprom allows, as long as no call of the backing store fails.
IsEeprom == Eeprom!Spec

\* Between calls, the data the next power-on would find is the data that reads
\* return now, unless a call has reported a failure: wear_leveling_write,
\* _erase and _init lose nothing silently when a call of the backing store
\* fails, other than the read of the checksum, whose result is not looked at.
LossIsReported == pc = "idle" /\ ~failed => Restored.cache = cache

\* The flash is written only between an unlock and the lock that follows it,
\* and no call leaves it unlocked: a write that consolidates must not lock it
\* early, and the consolidation of a power-on has to unlock it itself.
LockDiscipline ==
    used.faults = 0 => /\ pc \in {"append", "data", "sum"} => unlocked
                       /\ pc \in {"off", "idle"} => ~unlocked

\* backing_mocks.cpp expects of each write of the backing store that it is
\* inside the store.
WritesInBounds == pc = "append" => write_address < LogWords

\* backing_mocks.cpp expects of each read of the backing store that it is
\* inside the store.
ReadsInBounds == pc = "off" => ~Restored.outside

\* wear_leveling.h: a status other than WEAR_LEVELING_FAILED says that the
\* invocation succeeded, and wear_leveling_write "writes logical data into the
\* backing store".
SuccessIsDurable ==
    pc = "idle" /\ result.caller = "write" /\ result.status # "FAILED"
        => Restored.cache = cache
=============================================================================

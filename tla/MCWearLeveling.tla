--------------------------- MODULE MCWearLeveling ---------------------------
EXTENDS WearLeveling

\* A byte, three bytes that begin with a zero, more bytes than an entry holds
\* (with values that have short entries and values that do not), and a write
\* that does not fit.
SomeWrites == {<<1, <<1>>>>, <<5, <<0, 2, 3>>>>, <<0, <<4, 5, 0, 0, 1, 0, 7>>>>, <<7, <<1, 1>>>>}

\* Flash with 4-byte words, as on the STM32F401, in two sectors; with 2-byte
\* words, its address pages and short addresses scaled down; with 8-byte words.
Words4 == [WriteSize |-> 4, AddressBase |-> 256, ShortAddresses |-> 64, TwoSectors |-> TRUE,
           Faults |-> {}, MaxFaults |-> 0, MaxPowerLosses |-> 2]
Words2 == [Words4 EXCEPT !.WriteSize = 2, !.AddressBase = 4, !.ShortAddresses = 2,
                         !.TwoSectors = FALSE]
Words8 == [Words4 EXCEPT !.WriteSize = 8, !.TwoSectors = FALSE]

Failing(kinds, n, losses) ==
    [Words4 EXCEPT !.Faults = kinds, !.MaxFaults = n, !.MaxPowerLosses = losses]

\* The calls that may fail: all but the read of the checksum.
AllStores == {Words2, Words4, Words8, Failing(FaultKinds \ {"checksum"}, 2, 1)}

\* Stores that break what the tests or the header say.
CutStore == {[Words4 EXCEPT !.MaxPowerLosses = 1]}
EraseFails == {Failing({"erase"}, 1, 0)}
WriteFails == {Failing({"write"}, 1, 0)}
SumUnread == {Failing({"checksum"}, 1, 1)}
=============================================================================

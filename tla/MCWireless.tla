----------------------------- MODULE MCWireless -----------------------------
(***************************************************************************)
(* Wireless for TLC.  The configurations choose which behaviour is in      *)
(* scope; every bound is a constant of Wireless.                           *)
(***************************************************************************)
EXTENDS Wireless

Budget(reports, events) == [reports |-> reports, events |-> events]

ThreeReports == {Budget(3, 1)}
OnlyReports == {Budget(MaxReports, 0)}
ReportsOrEvents == {Budget(2, 0), Budget(1, 1)}
ManyEvents == {Budget(0, 3), Budget(2, 1)}
FourEvents == {Budget(0, 4)}
PinBudget == {Budget(1, 3)}
=============================================================================

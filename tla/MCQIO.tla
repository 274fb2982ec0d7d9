------------------------------- MODULE MCQIO --------------------------------
(* Instance of QIO for TLC.                                                 *)
EXTENDS QIO, TLC

CONSTANTS x, y, z, a, b

\* One operation at a time or two, stoppable or not, each way to manage power.
Devices == {
  [rank |-> 1, cancelFunc |-> TRUE, powerClass |-> "fine"],
  [rank |-> 2, cancelFunc |-> TRUE, powerClass |-> "coarse"],
  [rank |-> 2, cancelFunc |-> FALSE, powerClass |-> "fine"],
  [rank |-> 1, cancelFunc |-> FALSE, powerClass |-> "none"]}
=============================================================================

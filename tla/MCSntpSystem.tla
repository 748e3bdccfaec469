------------------------------ MODULE MCSntpSystem ------------------------------
(* An instance of SntpSystem for TLC.                                      *)
EXTENDS SntpSystem

NoopOnly  == {[mid |-> "SNTP_CMD_MID", cc |-> SNTP_NOOP_CC, size |-> NoArgsCmdSize]}
TwoAhead  == [p \in Clients |-> 2]
TwoStamps == {Htonl(1), Htonl(2)}
===============================================================================

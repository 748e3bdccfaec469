------------------------------- MODULE MCSntpApp -------------------------------
(* Instances of SntpApp for TLC.                                           *)
EXTENDS SntpApp

Cmd(code, size) == [mid |-> "SNTP_CMD_MID", cc |-> code, size |-> size]

HkRequest   == [mid |-> "SNTP_SEND_HK_MID", cc |-> 0, size |-> NoArgsCmdSize]
NoopCmd     == Cmd(SNTP_NOOP_CC, NoArgsCmdSize)
ResetCmd    == Cmd(SNTP_RESET_COUNTERS_CC, NoArgsCmdSize)
LongNoop    == Cmd(SNTP_NOOP_CC, "other")
ProcessCmd  == Cmd(SNTP_PROCESS_CC, NoArgsCmdSize)
Stranger    == [HkRequest EXCEPT !.mid = "other"]

AllMessages == {HkRequest, NoopCmd, ResetCmd, LongNoop, ProcessCmd, Stranger}
FewMessages == {HkRequest, NoopCmd}

OneStamp  == {Htonl(0)}
TwoStamps == {Htonl(1), Htonl(WordSize - 2)}
===============================================================================

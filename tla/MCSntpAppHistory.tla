--------------------------- MODULE MCSntpAppHistory ---------------------------
(* Instances of SntpAppHistory for TLC.                                    *)
EXTENDS SntpAppHistory, TLC

Cmd(code, size) == [mid |-> "SNTP_CMD_MID", cc |-> code, size |-> size]

CountingMessages == {[mid |-> "SNTP_SEND_HK_MID", cc |-> 0, size |-> NoArgsCmdSize],
                     Cmd(SNTP_NOOP_CC, NoArgsCmdSize),
                     Cmd(SNTP_RESET_COUNTERS_CC, NoArgsCmdSize),
                     Cmd(SNTP_NOOP_CC, "other")}

NoMessages == {}
OneStamp   == {Htonl(0)}
TwoStamps  == {Htonl(1), Htonl(WordSize - 2)}

(* No definition tells one client from another.                            *)
ClientSymmetry == Permutations(Clients)
===============================================================================

--------------------------- MODULE MCSntpTestServer ---------------------------
(* An instance of SntpTestServer for TLC.                                  *)
EXTENDS SntpTestServer

TwoStamps == {Htonl(1), Htonl(WordSize - 2)}
===============================================================================

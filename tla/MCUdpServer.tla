---------------------------- MODULE MCUdpServer ----------------------------
(* Datagrams that meet a full cache of one, sessions that follow each      *)
(* other, a limit that the later datagrams of a session use up, and a TCP  *)
(* half that has slots while one datagram at most is about.                *)
EXTENDS UdpServer, TLC

CONSTANTS k1, k2

MCNext == Next /\ (tcpHalf = 0 \/ nsent <= 1)'
MCSpec == Init /\ [][MCNext]_vars /\ Fairness
=============================================================================

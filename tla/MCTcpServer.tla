---------------------------- MODULE MCTcpServer ----------------------------
(* Two connections and a UDP half for one slot, and a relay that is        *)
(* restarted.  The second connection takes a slot, and its dial fails or   *)
(* hangs: what copies do, the first one shows.                             *)
EXTENDS TcpServer, TLC

CONSTANTS c1, c2

(* One handler that gives its slot back and has a deadline, one with       *)
(* neither; each runs another copy itself.                                 *)
SomeHandlers == {TCPHandle, WsTunnelClientTcpHandle}

MCNext == Next /\ conn'[c2] # "copy"
MCSpec == Init /\ [][MCNext]_vars /\ Fairness
=============================================================================

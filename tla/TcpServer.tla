------------------------------ MODULE TcpServer ------------------------------
(***************************************************************************)
(* The TCP side of one Relay object: the accept loops of tcp.go, the       *)
(* limiter of connections, the handler of every connection and its two     *)
(* copying goroutines, while the control goroutine closes the relay (/del) *)
(* or closes it and serves again (/restart).                               *)
(*                                                                         *)
(* Serve() makes a new StopCh and a new listener and starts a new accept   *)
(* loop; the three share a number, the generation.  The goroutines read    *)
(* s.StopCh and s.TCPListen again whenever they use them, so that a loop   *)
(* or a copy of an older generation looks at the newest ones.              *)
(*                                                                         *)
(* The loop is that of every protocol that accepts TCP connections and     *)
(* handles them: tcp, https, and the clients of the tunnels.  A tcp+udp    *)
(* relay, and a client of both, has an accept loop for UDP on the same     *)
(* limiter: that half (UdpServer) is an environment here, which takes      *)
(* slots when it likes, gives them back, or keeps them.                    *)
(***************************************************************************)
EXTENDS Integers, FiniteSets

CONSTANTS
  Conn,      \* client connections
  Handlers,  \* the handlers a relay may have
  Limit,     \* Limit.Connections, 0 for none
  MaxServe   \* bound: calls of Serve()

Gen == 1 .. MaxServe
Dir == {"up", "down"}       \* client to remote, remote to client

(* What a handler makes of a connection: the copy it runs itself, whether  *)
(* it gives the slot back, and whether a deadline ends what comes before   *)
(* the copies, a dial for most and the client's first bytes for https.     *)
Handler(main, releases, deadline) == [main |-> main, releases |-> releases, deadline |-> deadline]
TCPHandle                == Handler("up", TRUE, TRUE)
WssTunnelClientTcpHandle == Handler("down", TRUE, FALSE)
WsTunnelClientTcpHandle  == Handler("down", FALSE, FALSE)
H2TunnelClientTcpHandle  == Handler("down", FALSE, FALSE)
HttpsHandle              == Handler("up", FALSE, FALSE)

ASSUME TcpAssumption ==
  /\ Limit \in Nat /\ MaxServe \in Nat \ {0} /\ IsFiniteSet(Conn)
  /\ Handlers \subseteq {TCPHandle, WssTunnelClientTcpHandle, WsTunnelClientTcpHandle,
                         H2TunnelClientTcpHandle, HttpsHandle}

VARIABLES
  handle,   \* the handler that the relay's protocol runs
  ctl,      \* what the control goroutine does next
  cur,      \* s.StopCh
  closed,   \* the generations whose StopCh is closed
  lsn,      \* s.TCPListen, 0 for nil
  open,     \* the listening sockets
  loop,     \* loop[g].pc, and the listener the loop is blocked on
  tokens,   \* len(s.ConnLimiter)
  udpHalf,  \* how many of them the relay's UDP half has
  conn,     \* what becomes of a connection
  queue,    \* the listener in whose backlog a connection waits
  copy,     \* the copying goroutines
  late      \* chunks passed on while StopCh was closed, a history variable

vars == <<handle, ctl, cur, closed, lsn, open, loop, tokens, udpHalf, conn, queue, copy, late>>
control == <<handle, ctl, cur, closed, lsn, open>>
flows == <<udpHalf, copy, late>>

LoopPc == {"none", "select", "acquire", "enter", "accept", "sleep", "done"}
ConnPc == {"none", "queued", "dial", "copy", "kept", "done"}   \* kept: over, and its slot is not back
CopyPc == {"off", "select", "read", "write", "end"}

TypeOK ==
  /\ handle \in Handlers
  /\ ctl \in {"serve", "listen", "up", "closing", "reopening", "gone"}
  /\ cur \in 0 .. MaxServe /\ lsn \in 0 .. MaxServe
  /\ closed \subseteq Gen /\ open \subseteq Gen
  /\ loop \in [Gen -> [pc : LoopPc, on : 0 .. MaxServe]]
  /\ tokens \in Nat /\ udpHalf \in Nat
  /\ conn \in [Conn -> ConnPc]
  /\ queue \in [Conn -> 0 .. MaxServe]
  /\ copy \in [Conn -> [Dir -> CopyPc]]
  /\ late \in [Conn -> [Dir -> Nat]]

Nowhere == [d \in Dir |-> 0]

Init ==
  /\ handle \in Handlers
  /\ ctl = "serve" /\ cur = 0 /\ closed = {} /\ lsn = 0 /\ open = {}
  /\ loop = [g \in Gen |-> [pc |-> "none", on |-> 0]]
  /\ tokens = 0 /\ udpHalf = 0
  /\ conn = [c \in Conn |-> "none"]
  /\ queue = [c \in Conn |-> 0]
  /\ copy = [c \in Conn |-> [d \in Dir |-> "off"]]
  /\ late = [c \in Conn |-> Nowhere]

Stopped == cur \in closed

-----------------------------------------------------------------------------
(* Serve(), RunTCPServer() and Close() *)

ServeMakesStopCh ==
  /\ ctl = "serve"
  /\ cur' = cur + 1
  /\ ctl' = "listen"
  /\ UNCHANGED <<handle, closed, lsn, open, loop, tokens, conn, queue, flows>>

RunTCPServer ==
  /\ ctl = "listen"
  /\ ctl' = "up"
  /\ \/ /\ lsn' = cur
        /\ open' = open \cup {cur}
        /\ loop' = [loop EXCEPT ![cur].pc = "select"]
     \/ lsn' = 0 /\ UNCHANGED <<open, loop>>        \* the port is taken
  /\ UNCHANGED <<handle, cur, closed, tokens, conn, queue, flows>>

(* Mutant: Close() only closes the listener. *)
CloseStopCh_Forgets ==
  /\ ctl = "up"
  /\ \/ ctl' = "closing"
     \/ ctl' = "reopening" /\ cur < MaxServe
  /\ UNCHANGED <<handle, cur, closed, lsn, open, loop, tokens, conn, queue, flows>>

CloseStopCh ==
  /\ ctl = "up"
  /\ closed' = closed \cup {cur}
  /\ \/ ctl' = "closing"
     \/ ctl' = "reopening" /\ cur < MaxServe
  /\ UNCHANGED <<handle, cur, lsn, open, loop, tokens, conn, queue, flows>>

(* The kernel resets what waits in the backlog of a listener it closes.    *)
CloseTCPListen ==
  /\ ctl \in {"closing", "reopening"}
  /\ ctl' = IF ctl = "closing" THEN "gone" ELSE "serve"
  /\ open' = open \ {lsn}
  /\ conn' = [c \in Conn |-> IF conn[c] = "queued" /\ queue[c] = lsn
                               THEN "done" ELSE conn[c]]
  /\ UNCHANGED <<handle, cur, closed, lsn, loop, tokens, queue, flows>>

-----------------------------------------------------------------------------
(* AcceptAndHandleTCP, the loop that Serve() number g started *)

LoopAt(g, l) == loop[g].pc = l
LoopGoto(g, l) == loop' = [loop EXCEPT ![g].pc = l]
others == <<control, queue, flows>>

LoopSelects(g) ==
  /\ LoopAt(g, "select")
  /\ LoopGoto(g, IF Stopped THEN "done" ELSE "acquire")
  /\ UNCHANGED <<tokens, conn, others>>

(* Mutant: acquireConn with one slot too many. *)
acquireConn_OffByOne(g) ==
  /\ LoopAt(g, "acquire")
  /\ Limit > 0 => tokens <= Limit /\ tokens' = tokens + 1
  /\ Limit = 0 => UNCHANGED tokens
  /\ LoopGoto(g, "enter")
  /\ UNCHANGED <<conn, others>>

acquireConn(g) ==
  /\ LoopAt(g, "acquire")
  /\ Limit > 0 => tokens < Limit /\ tokens' = tokens + 1
  /\ Limit = 0 => UNCHANGED tokens
  /\ LoopGoto(g, "enter")
  /\ UNCHANGED <<conn, others>>

releaseConn == tokens' = IF Limit > 0 THEN tokens - 1 ELSE tokens

LoopEnters(g) ==
  /\ LoopAt(g, "enter")
  /\ loop' = [loop EXCEPT ![g] = [pc |-> "accept", on |-> lsn]]
  /\ UNCHANGED <<tokens, conn, others>>

LoopAccepts(g, c) ==
  /\ LoopAt(g, "accept") /\ loop[g].on \in open
  /\ conn[c] = "queued" /\ queue[c] = loop[g].on
  /\ conn' = [conn EXCEPT ![c] = "dial"]
  /\ LoopGoto(g, "select")
  /\ UNCHANGED <<tokens, others>>

(* AcceptTCP on a listener that is nil or closed fails, and so the loop    *)
(* sleeps before it goes round again.                                      *)
LoopFails(g) ==
  /\ LoopAt(g, "accept") /\ loop[g].on \notin open
  /\ releaseConn
  /\ LoopGoto(g, "sleep")
  /\ UNCHANGED <<conn, others>>

(* Mutant: any error ends the loop. *)
LoopTemporary_Ends(g) ==
  /\ LoopAt(g, "accept") /\ loop[g].on \in open
  /\ releaseConn
  /\ LoopGoto(g, "done")
  /\ UNCHANGED <<conn, others>>

LoopTemporary(g) ==      \* out of file descriptors, say
  /\ LoopAt(g, "accept") /\ loop[g].on \in open
  /\ releaseConn
  /\ LoopGoto(g, "select")
  /\ UNCHANGED <<conn, others>>

LoopWakes(g) ==
  /\ LoopAt(g, "sleep")
  /\ LoopGoto(g, "select")
  /\ UNCHANGED <<tokens, conn, others>>

(* The accept loop and the handlers of the UDP half; https has none.       *)
tcpHalf == <<control, loop, conn, queue, copy, late>>

UdpTakes ==
  /\ handle # HttpsHandle /\ cur > 0
  /\ Limit > 0 /\ tokens < Limit
  /\ tokens' = tokens + 1 /\ udpHalf' = udpHalf + 1
  /\ UNCHANGED tcpHalf

UdpReturns ==
  /\ udpHalf > 0
  /\ tokens' = tokens - 1 /\ udpHalf' = udpHalf - 1
  /\ UNCHANGED tcpHalf

-----------------------------------------------------------------------------
(* Connections.  A client connects while the relay listens. *)

Connects(c) ==
  /\ conn[c] = "none"
  /\ \E g \in open : queue' = [queue EXCEPT ![c] = g]
  /\ conn' = [conn EXCEPT ![c] = "queued"]
  /\ UNCHANGED <<control, loop, tokens, flows>>

(* The connection is closed, and its slot given back by the handlers that  *)
(* have it in their deferred function.                                     *)
Finish_NoRelease(c) == conn' = [conn EXCEPT ![c] = "done"] /\ UNCHANGED tokens      \* mutant
Finish(c) ==
  IF handle.releases THEN conn' = [conn EXCEPT ![c] = "done"] /\ releaseConn
                     ELSE conn' = [conn EXCEPT ![c] = "kept"] /\ UNCHANGED tokens

DialFails(c) ==
  /\ conn[c] = "dial"
  /\ Finish(c)
  /\ UNCHANGED <<control, loop, queue, flows>>

DialSucceeds(c) ==
  /\ conn[c] = "dial"
  /\ conn' = [conn EXCEPT ![c] = "copy"]
  /\ copy' = [copy EXCEPT ![c] = [d \in Dir |-> "select"]]
  /\ UNCHANGED <<control, loop, tokens, udpHalf, queue, late>>

(* One copy runs on the handler's own goroutine: when it returns, so does  *)
(* the handler.                                                            *)
HandlerReturns(c) ==
  /\ conn[c] = "copy" /\ copy[c][handle.main] = "end"
  /\ Finish(c)
  /\ UNCHANGED <<control, loop, queue, flows>>

(* Copy() closes both sockets when it returns; a copy that ended ends the  *)
(* other one at its next read or write.                                    *)
Ended(c) == \E d \in Dir : copy[c][d] = "end"
CopyAt(c, d, l) == copy[c][d] = l
CopyGoto(c, d, l) == copy' = [copy EXCEPT ![c][d] = l]

(* Mutant: StopCh is looked at once, before the loop. *)
CopySelects_Once(c, d) ==
  /\ CopyAt(c, d, "select")
  /\ CopyGoto(c, d, "read")
  /\ UNCHANGED <<control, loop, tokens, udpHalf, conn, queue, late>>

CopySelects(c, d) ==
  /\ CopyAt(c, d, "select")
  /\ CopyGoto(c, d, IF Stopped THEN "end" ELSE "read")
  /\ UNCHANGED <<control, loop, tokens, udpHalf, conn, queue, late>>

CopyReads(c, d) ==
  /\ CopyAt(c, d, "read") /\ ~Ended(c)
  /\ CopyGoto(c, d, "write")
  /\ UNCHANGED <<control, loop, tokens, udpHalf, conn, queue, late>>

CopyWrites(c, d) ==
  /\ CopyAt(c, d, "write") /\ ~Ended(c)
  /\ CopyGoto(c, d, "select")
  /\ late' = IF Stopped THEN [late EXCEPT ![c][d] = @ + 1] ELSE late
  /\ UNCHANGED <<control, loop, tokens, udpHalf, conn, queue>>

(* Mutant: a failed write goes unnoticed. *)
CopyFails_ReadOnly(c, d) ==
  /\ copy[c][d] = "read"
  /\ CopyGoto(c, d, "end")
  /\ UNCHANGED <<control, loop, tokens, udpHalf, conn, queue, late>>

(* The peer closed or reset its side, or the other copy closed the socket. *)
CopyFails(c, d) ==
  /\ copy[c][d] \in {"read", "write"}
  /\ CopyGoto(c, d, "end")
  /\ UNCHANGED <<control, loop, tokens, udpHalf, conn, queue, late>>

-----------------------------------------------------------------------------
Control == ServeMakesStopCh \/ RunTCPServer \/ CloseStopCh \/ CloseTCPListen

Loop(g) == \/ LoopSelects(g) \/ acquireConn(g) \/ LoopEnters(g)
           \/ \E c \in Conn : LoopAccepts(g, c)
           \/ LoopFails(g) \/ LoopTemporary(g) \/ LoopWakes(g)

Handle(c) == DialFails(c) \/ DialSucceeds(c) \/ HandlerReturns(c)

Copy(c, d) == \/ CopySelects(c, d) \/ CopyReads(c, d) \/ CopyWrites(c, d)
              \/ CopyFails(c, d)

Next == \/ Control \/ UdpTakes \/ UdpReturns
        \/ \E g \in Gen : Loop(g)
        \/ \E c \in Conn : Connects(c) \/ Handle(c) \/ \E d \in Dir : Copy(c, d)

Spec == Init /\ [][Next]_vars

(* What the scheduler and the kernel owe: goroutines that can run do, who  *)
(* waits for a slot gets one when slots come back again and again (those   *)
(* who wait on a channel are served in turn), an accept that finds a       *)
(* connection waiting does not fail for ever, a dial with a deadline ends, *)
(* a copy notices that its socket was closed.  A read or a write waits for *)
(* the peers, which owe nothing, and neither does the UDP half.            *)
Fairness ==
  /\ WF_vars(Control /\ ctl # "up")
  /\ \A g \in Gen : /\ WF_vars(Loop(g)) /\ SF_vars(acquireConn(g))
                     /\ SF_vars(\E c \in Conn : LoopAccepts(g, c))
  /\ \A c \in Conn : /\ WF_vars(HandlerReturns(c))
                      /\ WF_vars(handle.deadline /\ (DialFails(c) \/ DialSucceeds(c)))
  /\ \A c \in Conn, d \in Dir : /\ WF_vars(CopySelects(c, d))
                                /\ WF_vars(Ended(c) /\ CopyFails(c, d))

FairSpec == Spec /\ Fairness

-----------------------------------------------------------------------------
(* Properties *)

Active == {c \in Conn : conn[c] \in {"dial", "copy"}}
Kept == {c \in Conn : conn[c] = "kept"}
Taken == Active \cup Kept
Holding == {g \in Gen : loop[g].pc \in {"enter", "accept"}}

(* Every slot of the limiter is held by a loop about to accept, by a       *)
(* connection being served, by one whose handler does not give it back, or *)
(* by the relay's UDP half: no error path, and no restart with an old loop *)
(* left over, loses a slot or gives one back twice (tcp.go:24-30,51-54).   *)
SlotsCounted ==
  Limit > 0 => tokens = Cardinality(Taken) + Cardinality(Holding) + udpHalf

(* No more connections are served at once than the rule allows, however    *)
(* many accept loops run (relay.go:296-305).                               *)
LimitRespected == Limit > 0 => Cardinality(Active) <= Limit

(* Every Close() lets either direction of a connection pass on one chunk   *)
(* at most while its StopCh is the relay's: the one it was reading.  The   *)
(* next Serve() puts an open StopCh in its place, and a copy that had not  *)
(* looked by then goes on, until the next Close() (relay.go:256-270).      *)
LateBounded == \A c \in Conn, d \in Dir : late[c][d] <= Cardinality(closed)

(* A connection that waits is accepted, or reset, unless from some time on *)
(* every slot is with a connection or with the UDP half for good: accept   *)
(* errors, restarts, and a UDP half that takes slots and gives them back,  *)
(* do not hold it up (tcp.go:19-38).                                       *)
SlotsBusy == Limit > 0 /\ Cardinality(Taken) + udpHalf = Limit
Served == \A c \in Conn : (conn[c] = "queued" ~> conn[c] # "queued") \/ <>[]SlotsBusy

(* A relay that was closed for good keeps no accept loop, but for one that *)
(* waits for a slot which neither a connection nor the UDP half ever gives *)
(* back (tcp.go:20-24).                                                    *)
LoopsEnd ==
  \A g \in Gen : \/ ctl = "gone" ~> loop[g].pc \in {"none", "done"}
                 \/ <>[](LoopAt(g, "acquire") /\ SlotsBusy)

(* Both directions of a connection end when one of them does, whichever of *)
(* them the handler runs itself, and the slot comes back from handlers     *)
(* that give it back (relay.go:232-236, tcp.go:51-63).                     *)
BothEnd ==
  \A c \in Conn : Ended(c) ~> /\ copy[c] = [d \in Dir |-> "end"]
                              /\ conn[c] = IF handle.releases THEN "done" ELSE "kept"

(* The relay as its user sees it: a limit on what is served at once.       *)
Over == {c \in Conn : conn[c] = "done"}
L == INSTANCE ConnLimit WITH served <- Active, kept <- Kept, over <- Over

(* The loops, the limiter and the handlers together implement that limit:  *)
(* a connection is taken only while fewer than Limit are served or kept,   *)
(* no connection is taken twice, and none that was turned away             *)
(* (tcp.go:17-40, relay.go:296-305).                                       *)
ImplementsLimit == L!Spec

=============================================================================

----------------------------- MODULE TunnelPipe -----------------------------
(***************************************************************************)
(* What a tunnel is made of once it stands: a handler on the relay of the  *)
(* client and one on the relay of the server, each with two copies, and    *)
(* three connections,                                                      *)
(*                                                                         *)
(*    user -- c | cu cd | wsC -- wsS | su sd | rc -- remote                *)
(*                                                                         *)
(* of which a process holds the ends it can close.  What a chunk holds is  *)
(* left out.  A copy is at its Read or at its Write, neither of which has  *)
(* a deadline: at the one it does not see what happens to the end of the   *)
(* other, and a Write waits for as long as its peer lives and does not     *)
(* read.                                                                   *)
(***************************************************************************)
EXTENDS FiniteSets

CONSTANT Conn       \* tunnels

VARIABLES
  kind,     \* what a tunnel carries, and its two handlers
  ends,     \* the ends that its handlers have closed
  gone,     \* the peers that have closed or fallen silent for good
  copy      \* the copies of its handlers

pvars == <<kind, ends, gone, copy>>

Net == {"tcp", "udp"}
Side == {"client", "server"}
Near == [client |-> "c", server |-> "wsS"]
Far == [client |-> "wsC", server |-> "rc"]
Own(s) == {Near[s], Far[s]}
Copies == Side \X {"up", "down"}

(* The handlers.  Copy() closes both its connections when it ends,         *)
(* Copy_io() none; `main' is the copy that the handler itself runs, after  *)
(* whose end the deferred calls close both.                                *)
WsTunnelServerTcpHandle  == [copy |-> "Copy", main |-> "down"]
WsTunnelServerUdpHandle  == [copy |-> "Copy_io", main |-> "down"]
WssTunnelServerTcpHandle == [copy |-> "Copy", main |-> "down"]
WssTunnelServerUdpHandle == [copy |-> "Copy_io", main |-> "down"]
H2TunnelServerTcpHandle  == [copy |-> "Copy", main |-> "down"]
H2TunnelServerUdpHandle  == [copy |-> "Copy", main |-> "down"]
WsTunnelClientTcpHandle  == [copy |-> "Copy", main |-> "down"]
WsTunnelClientUdpHandle_Down == [copy |-> "Copy_io", main |-> "down"]      \* mutant
WsTunnelClientUdpHandle  == [copy |-> "Copy_io", main |-> "up"]
WssTunnelClientTcpHandle == [copy |-> "Copy", main |-> "down"]
WssTunnelClientUdpHandle == [copy |-> "Copy_io", main |-> "up"]
H2TunnelClientTcpHandle  == [copy |-> "Copy", main |-> "down"]
H2TunnelClientUdpHandle  == [copy |-> "Copy", main |-> "up"]

Off == [x \in Copies |-> "off"]
PipeInit ==
  /\ kind = [c \in Conn |-> [net |-> "tcp", client |-> WsTunnelClientTcpHandle,
                             server |-> WsTunnelServerTcpHandle]]
  /\ ends = [c \in Conn |-> {}]
  /\ gone = [c \in Conn |-> {}]
  /\ copy = [c \in Conn |-> Off]

ReadEnd(x) == IF x[2] = "up" THEN Near[x[1]] ELSE Far[x[1]]
WriteEnd(x) == IF x[2] = "up" THEN Far[x[1]] ELSE Near[x[1]]

(* Its own process closed an end, or the other end of it is closed.  What  *)
(* happens to the peer of a UDP socket does not show.                      *)
Broken(c, e) ==
  \/ e \in ends[c]
  \/ e = "c" /\ "user" \in gone[c]
  \/ e = "wsC" /\ "wsS" \in ends[c]
  \/ e = "wsS" /\ "wsC" \in ends[c]
  \/ e = "rc" /\ "remote" \in gone[c] /\ kind[c].net = "tcp"

(* A datagram is sent without waiting, whoever listens.                    *)
Datagram(c, x) == kind[c].net = "udp" /\ WriteEnd(x) \in {"c", "rc"}
Unwritable(c, x) == IF Datagram(c, x) THEN WriteEnd(x) \in ends[c] ELSE Broken(c, WriteEnd(x))

(* What was sent before an end was closed is taken to have been read.      *)
Reads(c, x) ==
  /\ copy[c][x] = "read" /\ ~Broken(c, ReadEnd(x))
  /\ copy' = [copy EXCEPT ![c][x] = "write"]
  /\ UNCHANGED <<kind, ends, gone>>

Writes(c, x) ==
  /\ copy[c][x] = "write" /\ ~Unwritable(c, x)
  /\ copy' = [copy EXCEPT ![c][x] = "read"]
  /\ UNCHANGED <<kind, ends, gone>>

EndCopy(c, x) ==
  /\ copy' = [copy EXCEPT ![c][x] = "end"]
  /\ ends' = IF kind[c][x[1]].copy = "Copy" THEN [ends EXCEPT ![c] = @ \cup Own(x[1])] ELSE ends
  /\ UNCHANGED <<kind, gone>>

ReadFails(c, x) == copy[c][x] = "read" /\ Broken(c, ReadEnd(x)) /\ EndCopy(c, x)
WriteFails(c, x) == copy[c][x] = "write" /\ Unwritable(c, x) /\ EndCopy(c, x)

HandlerReturns(c, s) ==
  /\ copy[c][<<s, kind[c][s].main>>] = "end" /\ ~(Own(s) \subseteq ends[c])
  /\ ends' = [ends EXCEPT ![c] = @ \cup Own(s)]
  /\ UNCHANGED <<kind, gone, copy>>

PeerGoes(c) ==
  /\ \E x \in Copies : copy[c][x] \in {"read", "write"}
  /\ \E p \in {"user", "remote"} \ gone[c] : gone' = [gone EXCEPT ![c] = @ \cup {p}]
  /\ UNCHANGED <<kind, ends, copy>>


(* The copy at the other end of the connection between the relays takes    *)
(* what it reads; the user and the remote read when they like.             *)
Taker(x) == IF x = <<"client", "up">> THEN <<"server", "up">> ELSE <<"client", "down">>
Between(x) == WriteEnd(x) \in {"wsC", "wsS"}
Taken(c, x) == Datagram(c, x) \/ (Between(x) /\ copy[c][Taker(x)] = "read")

(* A read or a write of a broken connection returns, and so do handlers.   *)
PipeEnds(c) == \/ \E x \in Copies : ReadFails(c, x) \/ WriteFails(c, x)
               \/ \E s \in Side : HandlerReturns(c, s)

(* A write returns when the taker comes to its Read again and again.       *)
PipeFairness ==
  \A c \in Conn : /\ WF_pvars(PipeEnds(c))
                  /\ \A x \in Copies : SF_pvars(Taken(c, x) /\ Writes(c, x))

PipeStep(c) == (\E x \in Copies : Reads(c, x) \/ Writes(c, x)) \/ PipeEnds(c) \/ PeerGoes(c)

-----------------------------------------------------------------------------
(* Properties *)

Running(c) == \E x \in Copies : copy[c][x] \in {"read", "write"}
Noticed(c) == "user" \in gone[c] \/ ("remote" \in gone[c] /\ kind[c].net = "tcp")
Ended(c, X) == \A x \in X : copy[c][x] = "end" /\ Own(x[1]) \subseteq ends[c]

(* A copy at a Write that nothing ends: its peer lives and does not read,  *)
(* or is a relay whose copy of this direction has ended while its handler  *)
(* waits for the other one and keeps the connection.                       *)
Stuck(c, x) ==
  /\ copy[c][x] = "write" /\ ~Unwritable(c, x) /\ ~Datagram(c, x)
  /\ Between(x) => copy[c][Taker(x)] = "end"

(* When either peer of a tunnel leaves, all four copies end and every      *)
(* connection is closed, on both relays.  There are two exceptions.  A     *)
(* copy that is stuck at a Write for good keeps its relay's half and what  *)
(* waits for it.  And over ws and wss the handler of the server waits on   *)
(* for a UDP remote that does not speak, and keeps its sockets             *)
(* (relay.go:232-271, ws_tunnel_server.go:55-67, ws_tunnel_client.go:54-81). *)
TunnelEnds ==
  \A c \in Conn :
    \/ \E x \in Copies : <>[]Stuck(c, x)
    \/ Running(c) /\ Noticed(c) ~>
         \/ Ended(c, Copies)
         \/ /\ kind[c].net = "udp" /\ kind[c].server.copy = "Copy_io"
            /\ Ended(c, {x \in Copies : x[1] = "client"}) /\ copy[c][<<"server", "up">>] = "end"

=============================================================================

------------------------------ MODULE Tunnels ------------------------------
(***************************************************************************)
(* The tunnel servers of a process: ws, wss and h2 relays that listen for  *)
(* themselves, or register with the mux server of their family when the    *)
(* configuration gives it a port, and the clients that dial them.          *)
(*                                                                         *)
(* A process starts with GetCert() (TlsFiles).  Then a goroutine per rule  *)
(* adds, edits, restarts and deletes its relay; the maps of handlers are   *)
(* written under a lock and read without it.  A client relay has the same  *)
(* rule id; once it has dialled, the tunnel is a TunnelPipe.               *)
(*                                                                         *)
(* Two things are assumed of the client of the API that no handler checks. *)
(* It has one request on a rule under way at a time: pc, next and todo     *)
(* have one place per rule (Serial in ControlPlane, where what overlapping *)
(* requests do is modelled).  And, if FreshAdds, it adds only rules that   *)
(* are not served; otherwise an /add may replace a relay of a mux server,  *)
(* while one that replaces a listener is left to ControlPlane.             *)
(***************************************************************************)
EXTENDS TlsFiles, TunnelPipe, Sequences

CONSTANTS
  Rid,         \* rules
  Tsp,         \* the families that have a mux server
  Protocol,    \* protocols of relays: a family and what it carries
  FreshAdds,   \* the API client adds only rules that are not served
  MaxOps       \* bound: requests to the API

ASSUME TunnelAssumption ==
  /\ Tsp \subseteq {"ws", "wss"} /\ FreshAdds \in BOOLEAN /\ MaxOps \in Nat
  /\ Protocol \subseteq [fam : {"ws", "wss", "h2"}, nets : (SUBSET Net) \ {{}}] /\ Protocol # {}

VARIABLES
  pc,       \* where the goroutine of a rule is
  next,     \* what it does once the handlers are written
  todo,     \* the writes to Handlers that it still has to do
  writing,  \* the goroutines between Lock() and Unlock() of a mux server
  mux,      \* Handlers: the relay object behind a path, 0 for none
  listens,  \* the families whose mux server has its port
  svrs,     \* Svrs: the object of a rule, 0 for none
  nobj,     \* objects made for a rule so far
  typ,      \* Protocol of the latest
  lsn,      \* its own listener: "none", "open", or "dead" when ServeTLS gave up
  stopped,  \* the objects whose StopCh is closed
  nops,     \* requests so far
  dial,     \* what becomes of a client's dial
  owner     \* the rule and the object that serve a tunnel

relays == <<svrs, nobj, typ, lsn, stopped>>
control == <<pc, next, todo, writing, mux, listens, relays, nops>>
clients == <<dial, owner>>
vars == <<tvars, control, pvars, clients>>

(* What RunXxxTunnelServer() puts behind which path, with or without TLS   *)
(* in front, and what the halves of a client dial; the rule's id, which    *)
(* follows in a path, goes apart.  The mux server of wss serves plain http *)
(* as that of ws does, and the clients of wss dial it with TLS.            *)
Half(tls, path, handle) == [tls |-> tls, path |-> path, handle |-> handle]
WsMuxTunnelServer  == [tcp |-> Half(FALSE, "/ws/tcp/", WsTunnelServerTcpHandle),
                       udp |-> Half(FALSE, "/ws/udp/", WsTunnelServerUdpHandle)]
WssMuxTunnelServer == [tcp |-> Half(FALSE, "/wss/tcp/", WsTunnelServerTcpHandle),
                       udp |-> Half(FALSE, "/wss/udp/", WsTunnelServerUdpHandle)]
RunWsTunnelServer  == [tcp |-> Half(FALSE, "/ws/tcp/", WsTunnelServerTcpHandle),
                       udp |-> Half(FALSE, "/ws/udp/", WsTunnelServerUdpHandle)]
RunWssTunnelServer == [tcp |-> Half(TRUE, "/wss/tcp/", WssTunnelServerTcpHandle),
                       udp |-> Half(TRUE, "/wss/udp/", WssTunnelServerUdpHandle)]
RunH2TunnelServer  == [tcp |-> Half(FALSE, "/wstcp/", H2TunnelServerTcpHandle),
                       udp |-> Half(FALSE, "/wsudp/", H2TunnelServerUdpHandle)]
RunWsTunnelTcpClient  == Half(FALSE, "/ws/tcp/", WsTunnelClientTcpHandle)
RunWsTunnelUdpClient  == Half(FALSE, "/ws/udp/", WsTunnelClientUdpHandle)
RunWssTunnelTcpClient == Half(TRUE, "/wss/tcp/", WssTunnelClientTcpHandle)
RunWssTunnelUdpClient == Half(TRUE, "/wss/udp/", WssTunnelClientUdpHandle)
RunH2TunnelTcpClient  == Half(FALSE, "/wstcp/", H2TunnelClientTcpHandle)
RunH2TunnelUdpClient_Tcp == Half(FALSE, "/wstcp/", H2TunnelClientUdpHandle)      \* mutant
RunH2TunnelUdpClient  == Half(FALSE, "/wsudp/", H2TunnelClientUdpHandle)

(* A muxed relay registers the ws handlers, a wss relay too.               *)
ServerOf(fam) ==
  CASE fam = "ws"  -> IF fam \in Tsp THEN WsMuxTunnelServer ELSE RunWsTunnelServer
    [] fam = "wss" -> IF fam \in Tsp THEN WssMuxTunnelServer ELSE RunWssTunnelServer
    [] fam = "h2"  -> RunH2TunnelServer

(* wss_tunnel_client_tcp+udp starts the udp half of the ws client.         *)
ClientOf(t, net) ==
  CASE t.fam = "ws" /\ net = "tcp"  -> RunWsTunnelTcpClient
    [] t.fam = "wss" /\ net = "tcp" -> RunWssTunnelTcpClient
    [] t.fam = "wss" /\ t.nets = {"udp"} -> RunWssTunnelUdpClient
    [] t.fam = "h2" /\ net = "tcp"  -> RunH2TunnelTcpClient
    [] t.fam = "h2" /\ net = "udp"  -> RunH2TunnelUdpClient
    [] OTHER -> RunWsTunnelUdpClient

MuxPaths(f) == {ServerOf(f)[net].path : net \in Net}
Path == (UNION {MuxPaths(f) : f \in Tsp}) \X Rid
Muxed(rid) == typ[rid].fam \in Tsp
Fam(rid) == typ[rid].fam
Up == boot = "served"

TypeOK ==
  /\ TlsTypeOK
  /\ pc \in [Rid -> {"idle", "start", "serve", "close", "write", "remove"}]
  /\ next \in [Rid -> {"idle", "serve", "remove", "start"}]
  /\ writing \in [Tsp -> SUBSET {rid \in Rid : pc[rid] = "write"}]
  /\ listens \subseteq Tsp
  /\ nobj \in [Rid -> 0 .. MaxOps] /\ typ \in [Rid -> Protocol]
  /\ \A rid \in Rid : svrs[rid] \in {0, nobj[rid]} /\ Len(todo[rid]) <= 2
  /\ \A p \in Path : mux[p] \in 0 .. nobj[p[2]]
  /\ lsn \in [Rid -> {"none", "open", "dead"}]
  /\ \A c \in Conn : /\ kind[c].net \in Net
                     /\ ends[c] \subseteq UNION {Own(s) : s \in Side}
                     /\ copy[c] \in [Copies -> {"off", "read", "write", "end"}]
                     /\ dial[c] \in {"none", "accepted", "open", "refused"}

Rules(v) == [rid \in Rid |-> v]
Init ==
  /\ TlsInit /\ PipeInit
  /\ pc = Rules("idle") /\ next = Rules("idle") /\ todo = Rules(<<>>)
  /\ writing = [f \in Tsp |-> {}] /\ mux = [p \in Path |-> 0] /\ listens = {}
  /\ svrs = Rules(0) /\ nobj = Rules(0) /\ lsn = Rules("none")
  /\ typ = Rules(CHOOSE t \in Protocol : TRUE)
  /\ stopped = {} /\ nops = 0
  /\ dial = [c \in Conn |-> "none"] /\ owner = [c \in Conn |-> <<>>]

-----------------------------------------------------------------------------
(* Requests *)

Object(rid) == <<rid, nobj[rid]>>
Goto(rid, l) == pc' = [pc EXCEPT ![rid] = l]
others == <<tvars, pvars, clients, listens>>

NewRelay(rid) ==
  /\ \E t \in Protocol : typ' = [typ EXCEPT ![rid] = t]
  /\ nobj' = [nobj EXCEPT ![rid] = @ + 1]
  /\ svrs' = [svrs EXCEPT ![rid] = nobj'[rid]]
  /\ Goto(rid, "serve")
  /\ UNCHANGED <<next, todo, writing, mux, lsn, stopped, others>>

(* The handler looks neither at Rules nor at Svrs: see FreshAdds.          *)
PostAdd(rid) ==
  /\ Up /\ pc[rid] = "idle" /\ nops < MaxOps
  /\ svrs[rid] # 0 => ~FreshAdds /\ Muxed(rid)
  /\ nops' = nops + 1
  /\ NewRelay(rid)

(* /del, /edit and /restart: Close() starts with StopCh.                   *)
CloseStopCh(rid) ==
  /\ Up /\ pc[rid] = "idle" /\ svrs[rid] # 0 /\ nops < MaxOps
  /\ nops' = nops + 1
  /\ \E nx \in {"remove", "start", "serve"} : next' = [next EXCEPT ![rid] = nx]
  /\ stopped' = stopped \cup {Object(rid)}
  /\ Goto(rid, "close")
  /\ UNCHANGED <<todo, writing, mux, svrs, nobj, typ, lsn, others>>

Write(net, o) == [net |-> net, obj |-> o]

(* Shutdown() closes the listener and does not wait for tunnels, which are *)
(* hijacked; the paths of both networks go.                                *)
Close_TcpOnly(rid) ==                                             \* mutant
  /\ pc[rid] = "close"
  /\ lsn' = [lsn EXCEPT ![rid] = "none"]
  /\ todo' = [todo EXCEPT ![rid] = IF Muxed(rid) THEN <<Write("tcp", 0)>> ELSE <<>>]
  /\ Goto(rid, "write")
  /\ UNCHANGED <<next, writing, mux, svrs, nobj, typ, stopped, nops, others>>

Close(rid) ==
  /\ pc[rid] = "close"
  /\ lsn' = [lsn EXCEPT ![rid] = "none"]
  /\ todo' = [todo EXCEPT ![rid] = IF Muxed(rid) THEN <<Write("tcp", 0), Write("udp", 0)>> ELSE <<>>]
  /\ Goto(rid, "write")
  /\ UNCHANGED <<next, writing, mux, svrs, nobj, typ, stopped, nops, others>>

(* Serve() makes a new StopCh.  ListenTCP() may fail; ServeTLS gives up on *)
(* files it cannot load, on a goroutine whose error nobody sees.           *)
Registers(rid) ==
  CASE typ[rid].nets = Net     -> <<Write("tcp", nobj[rid]), Write("udp", nobj[rid])>>
    [] typ[rid].nets = {"tcp"} -> <<Write("tcp", nobj[rid])>>
    [] typ[rid].nets = {"udp"} -> <<Write("udp", nobj[rid])>>

Serve(rid) ==
  /\ pc[rid] = "serve"
  /\ stopped' = stopped \ {Object(rid)}
  /\ next' = [next EXCEPT ![rid] = "idle"]
  /\ IF Muxed(rid)
     THEN todo' = [todo EXCEPT ![rid] = Registers(rid)] /\ UNCHANGED lsn
     ELSE /\ \E l \in {"none", IF typ[rid].fam = "wss" /\ ~Loadable THEN "dead" ELSE "open"} :
               lsn' = [lsn EXCEPT ![rid] = l]
          /\ UNCHANGED todo
  /\ Goto(rid, "write")
  /\ UNCHANGED <<writing, mux, svrs, nobj, typ, nops, others>>

(* AddHandler() and DelHandler() *)
Locks(rid) ==
  /\ pc[rid] = "write" /\ todo[rid] # <<>> /\ writing[Fam(rid)] = {}
  /\ writing' = [writing EXCEPT ![Fam(rid)] = @ \cup {rid}]
  /\ UNCHANGED <<pc, next, todo, mux, relays, nops, others>>

Unlocks_Never(rid) ==                   \* mutant: no Unlock()
  /\ pc[rid] = "write" /\ todo[rid] # <<>> /\ rid \in writing[Fam(rid)]
  /\ mux' = [mux EXCEPT ![<<ServerOf(Fam(rid))[Head(todo[rid]).net].path, rid>>] = Head(todo[rid]).obj]
  /\ todo' = [todo EXCEPT ![rid] = Tail(@)]
  /\ UNCHANGED <<pc, next, writing, relays, nops, others>>

Unlocks(rid) ==
  /\ pc[rid] = "write" /\ todo[rid] # <<>> /\ rid \in writing[Fam(rid)]
  /\ writing' = [writing EXCEPT ![Fam(rid)] = @ \ {rid}]
  /\ mux' = [mux EXCEPT ![<<ServerOf(Fam(rid))[Head(todo[rid]).net].path, rid>>] = Head(todo[rid]).obj]
  /\ todo' = [todo EXCEPT ![rid] = Tail(@)]
  /\ UNCHANGED <<pc, next, relays, nops, others>>

Written(rid) ==
  /\ pc[rid] = "write" /\ todo[rid] = <<>>
  /\ Goto(rid, IF next[rid] = "start" THEN "remove" ELSE next[rid])
  /\ UNCHANGED <<next, todo, writing, mux, relays, nops, others>>

SvrsRemove(rid) ==
  /\ pc[rid] = "remove"
  /\ svrs' = [svrs EXCEPT ![rid] = 0]
  /\ Goto(rid, IF next[rid] = "start" THEN "start" ELSE "idle")
  /\ UNCHANGED <<next, todo, writing, mux, nobj, typ, lsn, stopped, nops, others>>

StartsAgain(rid) == pc[rid] = "start" /\ NewRelay(rid) /\ UNCHANGED nops

Request(rid) == \/ PostAdd(rid) \/ CloseStopCh(rid) \/ Close(rid) \/ Serve(rid) \/ Locks(rid)
                \/ Unlocks(rid) \/ Written(rid) \/ SvrsRemove(rid) \/ StartsAgain(rid)

-----------------------------------------------------------------------------
(* Clients *)

(* The object a dial meets.  The address is that of the mux server of the  *)
(* client's protocol, or of the rule's relay, and both ends use TLS or     *)
(* neither does.                                                           *)
Serves(f, half) == \E m \in Net : ServerOf(f)[m].path = half.path /\ ServerOf(f)[m].tls = half.tls
Found(rid, t, net) ==
  LET half == ClientOf(t, net) IN
    IF t.fam \in Tsp
    THEN IF t.fam \in listens /\ Serves(t.fam, half) THEN mux[<<half.path, rid>>] ELSE 0
    ELSE IF /\ lsn[rid] = "open" /\ Serves(Fam(rid), half)
            /\ \E m \in typ[rid].nets : half.path = ServerOf(Fam(rid))[m].path
         THEN nobj[rid] ELSE 0

RunCopies(c, s) == [copy EXCEPT ![c] = [x \in Copies |-> IF x[1] = s THEN "read" ELSE @[x]]]

ServeHTTP(c, rid, t, net) ==
  /\ Up /\ dial[c] = "none" /\ Found(rid, t, net) # 0
  /\ dial' = [dial EXCEPT ![c] = "accepted"]
  /\ LET f == IF t.fam \in Tsp THEN t.fam ELSE Fam(rid)
         server == CHOOSE h \in {ServerOf(f)[m] : m \in Net} : h.path = ClientOf(t, net).path
     IN kind' = [kind EXCEPT ![c] = [net |-> net, client |-> ClientOf(t, net).handle, server |-> server.handle]]
  /\ owner' = [owner EXCEPT ![c] = <<rid, Found(rid, t, net)>>]
  /\ copy' = RunCopies(c, "client")
  /\ UNCHANGED <<tvars, control, ends, gone>>

(* No handler: the fake site answers, or nobody.                           *)
DialFails(c, rid, t, net) ==
  /\ dial[c] = "none" /\ (~Up \/ Found(rid, t, net) = 0)
  /\ dial' = [dial EXCEPT ![c] = "refused"]
  /\ UNCHANGED <<tvars, control, pvars, owner>>

RemoteDials(c) ==
  /\ Up /\ dial[c] = "accepted"
  /\ dial' = [dial EXCEPT ![c] = "open"]
  /\ \/ copy' = RunCopies(c, "server") /\ UNCHANGED ends
     \/ /\ copy' = [copy EXCEPT ![c] = [x \in Copies |-> IF x[1] = "server" THEN "end" ELSE @[x]]]
        /\ ends' = [ends EXCEPT ![c] = @ \cup Own("server")]
  /\ UNCHANGED <<tvars, control, kind, gone, owner>>

Pipes(c) == PipeStep(c) /\ UNCHANGED <<tvars, control, clients>>

(* A copy goes round and finds StopCh closed.                              *)
CopyStops(c) ==
  /\ owner[c] \in stopped
  /\ \E d \in {"up", "down"} : copy[c][<<"server", d>>] = "read" /\ EndCopy(c, <<"server", d>>)
  /\ UNCHANGED <<tvars, control, clients>>

Client(c) == \/ \E rid \in Rid, t \in Protocol : \E net \in t.nets :
                  ServeHTTP(c, rid, t, net) \/ DialFails(c, rid, t, net)
             \/ RemoteDials(c) \/ Pipes(c) \/ CopyStops(c)

-----------------------------------------------------------------------------
(* The process *)

Boot == (GetCert \/ Restart) /\ UNCHANGED <<control, pvars, clients>>

(* Init() gives a mux server its port, or fails to, while the API is up.   *)
MuxServes ==
  /\ Up
  /\ \E f \in Tsp \ listens : listens' = listens \cup {f}
  /\ UNCHANGED <<tvars, pc, next, todo, writing, mux, relays, nops, pvars, clients>>

(* Whatever the process held is closed.                                    *)
Dies ==
  /\ pc' = Rules("idle") /\ next' = Rules("idle") /\ todo' = Rules(<<>>)
  /\ writing' = [f \in Tsp |-> {}] /\ mux' = [p \in Path |-> 0] /\ listens' = {}
  /\ svrs' = Rules(0) /\ lsn' = Rules("none")
  /\ UNCHANGED <<nobj, typ, stopped, nops, kind, gone>>
  /\ ends' = [c \in Conn |-> IF dial[c] \in {"accepted", "open"}
                               THEN ends[c] \cup Own("server") ELSE ends[c]]
  /\ copy' = [c \in Conn |-> IF dial[c] \in {"accepted", "open"}
                THEN [x \in Copies |-> IF x[1] = "server" THEN "end" ELSE copy[c][x]] ELSE copy[c]]
  /\ dial' = [c \in Conn |-> IF dial[c] = "accepted" THEN "open" ELSE dial[c]]
  /\ UNCHANGED owner

Killed == Kill /\ Dies

(* ServeHTTP looks Handlers up without the lock: when a write is going on, *)
(* the runtime may find out and end the process.                           *)
LookupDies(c) ==
  /\ Up /\ dial[c] = "none"
  /\ \E f \in listens : writing[f] # {}
  /\ boot' = "down" /\ UNCHANGED <<after, nboot, made, files, faults>>
  /\ Dies

Next == \/ Boot \/ MuxServes \/ Killed
        \/ \E rid \in Rid : Request(rid)
        \/ \E c \in Conn : Client(c) \/ LookupDies(c)

Spec == Init /\ [][Next]_vars

(* Reads of what is closed return, handlers and dials too (TCPTimeout).    *)
TunnelFairness == PipeFairness /\ \A c \in Conn : WF_vars(RemoteDials(c))
FairSpec == Spec /\ TunnelFairness

-----------------------------------------------------------------------------
(* Properties *)

(* With a client that adds only rules that are not served, and has one     *)
(* request on a rule at a time, a path leads to the relay that is          *)
(* registered for its rule and to no other, and between requests to        *)
(* exactly the networks the relay carries: nothing that was deleted or     *)
(* edited away goes on answering (relay.go:200-207,                        *)
(* ws_tunnel_server.go:14-21, lib.go:45-55).                               *)
MuxMatches ==
  \A f \in Tsp, net \in Net, rid \in Rid :
    LET o == mux[<<ServerOf(f)[net].path, rid>>] IN
      /\ o # 0 => o = svrs[rid]
      /\ pc[rid] = "idle" => (o # 0 <=> svrs[rid] # 0 /\ Fam(rid) = f /\ net \in typ[rid].nets)

(* A client relay that dials a server of its own protocol, which nobody is *)
(* changing, is let in: what the clients make of a path is what the        *)
(* servers register.  The exceptions are a relay that has no listener, a   *)
(* mux server that has none, every client of a wss mux server (they dial   *)
(* TLS, it speaks plain http), and the udp half of                         *)
(* wss_tunnel_client_tcp+udp, see ClientOf (ws_tunnel_client.go:21,59,     *)
(* ws_tunnel_server.go:16-37, TunnelMuxServer.go:67).                      *)
Meets(rid, t, net) ==
  /\ Up /\ pc[rid] = "idle" /\ svrs[rid] # 0 /\ typ[rid] = t
  /\ IF Muxed(rid) THEN t.fam \in listens /\ t.fam # "wss" ELSE lsn[rid] = "open"
  /\ ~(t.fam = "wss" /\ t.nets = Net /\ net = "udp")
DialsMeet ==
  [][\A c \in Conn, rid \in Rid, t \in Protocol : \A net \in t.nets :
       DialFails(c, rid, t, net) => ~Meets(rid, t, net)]_vars

(* A wss relay that has a listener and serves nobody, while OK() says it   *)
(* is well, has files that cannot be loaded, for one of the causes that    *)
(* Explained lists: nothing else makes ServeTLS give up (tls.go:20-32,     *)
(* 68-110, wss_tunnel_server.go:35).                                       *)
DeadHasCause == \A rid \in Rid : lsn[rid] = "dead" => ~Loadable /\ Explained

=============================================================================

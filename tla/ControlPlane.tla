---------------------------- MODULE ControlPlane ----------------------------
(***************************************************************************)
(* The rule registry of neko-relay: the three concurrent maps Rules, Svrs  *)
(* and Traffic of lib.go, the API handlers of action.go that change them,  *)
(* the sync() they share with the start-up code, the ddns loop, the sync   *)
(* file, and the part of a Relay object that opening and closing it uses.  *)
(*                                                                         *)
(* Every API request runs on a goroutine of its own (Handler); start-up    *)
(* runs on Boot.  A step is one access to shared state: a map operation,   *)
(* a read or write of the flag `syncing', of a Relay field, of a listening *)
(* socket or of the file.  ctx[p] holds the locals of p.  An operation of  *)
(* the concurrent map is one step, Items() and MarshalJSON() included.     *)
(***************************************************************************)
EXTENDS Integers

CONSTANTS
  Rid,        \* rule ids
  Handler,    \* goroutines serving API requests
  Boot,       \* the goroutine of Init()
  IP,         \* what a DNS lookup may answer
  Obj,        \* identities of Relay objects
  Tf,         \* identities of TF traffic counters
  None,       \* nil, or a missing map entry
  Absent,     \* there is no sync file
  Torn,       \* a sync file cut short by a crash
  RuleInput,  \* the rules a request may carry, rip not yet resolved
  SyncInput,  \* the non-empty maps a /sync request may carry
  FileInput,  \* what the sync file may hold at the first start
  Serial,     \* the API client never overlaps two requests on one rule
  FreshAdds,  \* the API client only adds rules that are not being served
  AfterBoot,  \* ... and sends GET /data only while start-up imports the file
  MaxPort,    \* 65535, the bound of check()
  MaxReq,     \* bound: API requests in a behaviour
  MaxBoot     \* bound: kills of the process, and restarts after its end

Net == {"tcp", "udp"}
Proc == Handler \cup {Boot}

(* Protocols, by what Serve(), Close() and OK() tell apart: the listeners   *)
(* they open, whether there is an http.Server to shut down, and whether    *)
(* the name has `tcp' or `udp' in it.  A tunnel client of a plain name     *)
(* opens both listeners, a tunnel server of a plain name is like "http",   *)
(* and "other" are the tunnel servers on a mux and names nobody knows.     *)
Type == {"tcp", "udp", "tcp+udp", "https", "http", "tunnel_server_tcp", "tunnel_client", "other"}
OpensTcp(typ) == typ \notin {"udp", "other"}
OpensUdp(typ) == typ \in {"udp", "tcp+udp", "tunnel_client"}
HasServer(typ) == typ \in {"http", "tunnel_server_tcp"}
Named(typ) == typ \in {"tcp", "udp", "tcp+udp", "tunnel_server_tcp"}

Rule == [port : Int, remote : STRING, typ : Type, rip : IP \cup {None}]
RuleMap == [Rid -> Rule \cup {None}]
NoRules == [rid \in Rid |-> None]

(* A torn file does not parse: Unmarshal leaves the map empty and its      *)
(* error is ignored (lib.go:176).                                          *)
Files == RuleMap \cup {Absent, Torn}
Contents_Unparsed(f) == IF f = Absent THEN NoRules ELSE f   \* mutant
Contents(f) == IF f \in {Absent, Torn} THEN NoRules ELSE f

ASSUME ConstantsAssumption ==
  /\ Boot \notin Handler
  /\ None \notin Rid \cup IP \cup Obj \cup Tf \cup Rule
  /\ Absent # Torn /\ {Absent, Torn} \cap RuleMap = {}
  /\ RuleInput \subseteq Rule
  /\ SyncInput \subseteq RuleMap
  /\ FileInput \subseteq Files
  /\ {Serial, FreshAdds, AfterBoot} \subseteq BOOLEAN
  /\ MaxPort \in Int /\ MaxReq \in Nat /\ MaxBoot \in Nat

VARIABLES
  rules,     \* Rules:   rid -> Rule
  svrs,      \* Svrs:    rid -> Relay
  traffic,   \* Traffic: rid -> TF
  relay,     \* the Relay objects
  bound,     \* the listening sockets, <<relay object, network>>
  syncing,   \* the flag of the same name
  file,      \* contents of Config.Syncfile
  pc, ctx,   \* next step and locals of every goroutine of Proc
  ddns,      \* next step and locals of the ddns goroutine
  up,        \* the process is alive
  nreq, nboot

vars == <<rules, svrs, traffic, relay, bound, syncing, file, pc, ctx, ddns,
          up, nreq, nboot>>
maps == <<rules, svrs, traffic>>
heap == <<relay, bound>>
other == <<ddns, up, nboot>>

-----------------------------------------------------------------------------
(* Types *)

Labels == {"idle", "panicked", "stop", "closeStopCh", "closeTcp", "closeUdp",
           "svrsRemove", "rulesSet", "rulesRemove", "trafficRemove",
           "restart", "getTF", "setTF", "svrsSet", "serve", "listenTcp",
           "listenUdp", "sync", "syncClaim", "syncItems", "syncStops",
           "syncStarts", "syncResolve", "syncMarshal", "syncTruncate",
           "syncWrite", "data"}

Op == {"none", "add", "edit", "del", "restart", "sync", "data"}

Locals == [op : Op, rid : Rid \cup {None}, rule : Rule \cup {None},
           svr : Obj \cup {None}, tf : Tf \cup {None},
           items : RuleMap, new : RuleMap, req : RuleMap]

(* lsn: the listeners (TCPListen, UDPConn) that are not nil *)
Relay == [rid : Rid \cup {None}, port : Int, typ : Type,
          raddr : IP \cup {None}, stop : {"nil", "open", "closed"},
          lsn : SUBSET Net, tf : Tf \cup {None}]

Ddns == [pc : {"off", "sleep", "walk", "svr", "set"}, items : RuleMap,
         rid : Rid \cup {None}, rule : Rule \cup {None}]

TypeOK ==
  /\ rules \in RuleMap
  /\ svrs \in [Rid -> Obj \cup {None}]
  /\ traffic \in [Rid -> Tf \cup {None}]
  /\ relay \in [Obj -> Relay]
  /\ bound \subseteq Obj \X Net
  /\ syncing \in BOOLEAN /\ up \in BOOLEAN
  /\ file \in Files
  /\ pc \in [Proc -> Labels]
  /\ ctx \in [Proc -> Locals]
  /\ ddns \in Ddns
  /\ nreq \in Nat /\ nboot \in Nat

-----------------------------------------------------------------------------
(* Initial state: a process that has just started and runs Init() *)

Request(op, rid, rule, new) ==
  [op |-> op, rid |-> rid, rule |-> rule, svr |-> None, tf |-> None,
   items |-> NoRules, new |-> new, req |-> new]
NoRequest == Request("none", None, None, NoRules)

UnusedRelay == [rid |-> None, port |-> 0, typ |-> "tcp", raddr |-> None,
                stop |-> "nil", lsn |-> {}, tf |-> None]

(* Without a sync file Init() goes straight to `go ddns()'. *)
BootPc(f) ==
  [p \in Proc |-> IF p = Boot /\ f # Absent THEN "sync" ELSE "idle"]
BootCtx(f) ==
  [p \in Proc |-> IF p = Boot /\ f # Absent
                    THEN Request("sync", None, None, Contents(f))
                    ELSE NoRequest]
DdnsAt(l) == [pc |-> l, items |-> NoRules, rid |-> None, rule |-> None]
BootDdns(f) == DdnsAt(IF f = Absent THEN "sleep" ELSE "off")

Init ==
  /\ file \in FileInput
  /\ rules = NoRules
  /\ svrs = [rid \in Rid |-> None]
  /\ traffic = [rid \in Rid |-> None]
  /\ relay = [o \in Obj |-> UnusedRelay]
  /\ bound = {}
  /\ syncing = FALSE
  /\ pc = BootPc(file) /\ ctx = BootCtx(file) /\ ddns = BootDdns(file)
  /\ up = TRUE /\ nreq = 0 /\ nboot = 0

-----------------------------------------------------------------------------
(* Control flow of a goroutine *)

At(p, l) == up /\ pc[p] = l
Goto(p, l) == pc' = [pc EXCEPT ![p] = l]
Svr(p) == ctx[p].svr

(* Return from start(): the sync loop goes on, a request is answered.      *)
StartReturns(p) ==
  IF ctx[p].op = "sync"
    THEN /\ Goto(p, "syncStarts")
         /\ ctx' = [ctx EXCEPT ![p] = [@ EXCEPT !.rid = None, !.rule = None,
                                                !.svr = None, !.tf = None]]
    ELSE /\ Goto(p, "idle")
         /\ ctx' = [ctx EXCEPT ![p] = NoRequest]

(* What follows stop() in PostEdit, in PostDel and in the loop of sync().  *)
AfterStop(op) == IF op = "edit" THEN "rulesSet" ELSE "rulesRemove"

Busy(p) == pc[p] \notin {"idle", "panicked"}
Touches(p) == IF ~Busy(p) THEN {}
              ELSE IF ctx[p].op = "sync" THEN Rid ELSE {ctx[p].rid}

(* The discipline of the API client, where the constants assume it.  The   *)
(* API is open before start-up has imported the file (neko-relay.go:85-88) *)
(* and nothing but the client keeps a request from running beside it.      *)
Admit(h, op, S) ==
  /\ Serial => \A p \in Handler \ {h} : Touches(p) \cap S = {}
  /\ AfterBoot => Touches(Boot) \cap S = {}
  /\ FreshAdds /\ op = "add" => \A rid \in S : svrs[rid] = None

Begin(h, l, c) ==
  /\ At(h, "idle") /\ nreq < MaxReq
  /\ Goto(h, l)
  /\ ctx' = [ctx EXCEPT ![h] = c]
  /\ nreq' = nreq + 1

-----------------------------------------------------------------------------
(* API requests, up to their first access to the registry.  A request that *)
(* ParseRule refuses (the lookup fails, the port is too big) changes       *)
(* nothing and is not a step.                                              *)

check(r) == r.port <= MaxPort

Parsed == {[r EXCEPT !.rip = ip] : r \in {i \in RuleInput : check(i)}, ip \in IP}

PostAdd(h) == \E rid \in Rid, r \in Parsed :
  /\ Admit(h, "add", {rid})
  /\ Begin(h, "getTF", Request("add", rid, r, NoRules))
  /\ rules' = [rules EXCEPT ![rid] = r]
  /\ UNCHANGED <<svrs, traffic, heap, syncing, file, other>>

PostEdit(h) == \E rid \in Rid, r \in Parsed :
  /\ Admit(h, "edit", {rid})
  /\ Begin(h, "stop", Request("edit", rid, r, NoRules))
  /\ UNCHANGED <<maps, heap, syncing, file, other>>

PostDel(h) == \E rid \in Rid :
  /\ rules[rid] # None
  /\ Admit(h, "del", {rid})
  /\ Begin(h, "stop", Request("del", rid, rules[rid], NoRules))
  /\ UNCHANGED <<maps, heap, syncing, file, other>>

PostRestart(h) == \E rid \in Rid :
  /\ rules[rid] # None
  /\ Admit(h, "restart", {rid})
  /\ Begin(h, "restart", Request("restart", rid, rules[rid], NoRules))
  /\ UNCHANGED <<maps, heap, syncing, file, other>>

PostSync(h) == \E new \in SyncInput :
  /\ Admit(h, "sync", Rid)
  /\ Begin(h, "sync", Request("sync", None, None, new))
  /\ UNCHANGED <<maps, heap, syncing, file, other>>

-----------------------------------------------------------------------------
(* stop(): Svrs.Get, Relay.Close, Svrs.Remove.  restart() closes as well,  *)
(* but keeps the object registered and serves again.                       *)

StopLookup(p) ==
  /\ At(p, "stop")
  /\ LET o == svrs[ctx[p].rid] IN
       IF o = None
         THEN /\ Goto(p, AfterStop(ctx[p].op))
              /\ UNCHANGED ctx
         ELSE /\ Goto(p, "closeStopCh")
              /\ ctx' = [ctx EXCEPT ![p].svr = o]
  /\ UNCHANGED <<maps, heap, syncing, file, nreq, other>>

RestartLookup(p) ==
  /\ At(p, "restart")
  /\ LET o == svrs[ctx[p].rid] IN
       IF o = None
         THEN Goto(p, "getTF") /\ UNCHANGED ctx
         ELSE /\ Goto(p, "closeStopCh")
              /\ ctx' = [ctx EXCEPT ![p].svr = o]
  /\ UNCHANGED <<maps, heap, syncing, file, nreq, other>>

(* An http.Server is shut down next: Shutdown() closes its listener and    *)
(* then waits for the requests it serves, at "closeTcp", perhaps for ever. *)
CloseStopCh(p) ==
  /\ At(p, "closeStopCh")
  /\ relay[Svr(p)].stop = "open"
  /\ relay' = [relay EXCEPT ![Svr(p)].stop = "closed"]
  /\ bound' = IF HasServer(relay[Svr(p)].typ) THEN bound \ {<<Svr(p), "tcp">>} ELSE bound
  /\ Goto(p, "closeTcp")
  /\ UNCHANGED <<maps, syncing, file, ctx, nreq, other>>

InShutdown(p) == pc[p] = "closeTcp" /\ HasServer(relay[Svr(p)].typ)

(* Closing a nil or a closed channel panics.  net/http recovers the panic  *)
(* of a handler; nothing recovers one of Init(), which ends the process.   *)
ClosePanics(p) ==
  /\ At(p, "closeStopCh")
  /\ relay[Svr(p)].stop # "open"
  /\ Goto(p, "panicked")
  /\ up' = (p # Boot)
  /\ UNCHANGED <<maps, heap, syncing, file, ctx, ddns, nreq, nboot>>

(* A listener that is not nil is closed, and its port is free again.       *)
Closed_TcpOnly(o, net) ==                                   \* mutant
  IF net = "tcp" /\ net \in relay[o].lsn THEN bound \ {<<o, net>>} ELSE bound
Closed(o, net) == IF net \in relay[o].lsn THEN bound \ {<<o, net>>} ELSE bound

CloseTCPListen(p) ==
  /\ At(p, "closeTcp")
  /\ bound' = Closed(Svr(p), "tcp")
  /\ Goto(p, "closeUdp")
  /\ UNCHANGED <<maps, relay, syncing, file, ctx, nreq, other>>

CloseUDPConn(p) ==
  /\ At(p, "closeUdp")
  /\ bound' = Closed(Svr(p), "udp")
  /\ Goto(p, IF ctx[p].op = "restart" THEN "serve" ELSE "svrsRemove")
  /\ UNCHANGED <<maps, relay, syncing, file, ctx, nreq, other>>

SvrsRemove(p) ==
  /\ At(p, "svrsRemove")
  /\ svrs' = [svrs EXCEPT ![ctx[p].rid] = None]
  /\ Goto(p, AfterStop(ctx[p].op))
  /\ ctx' = [ctx EXCEPT ![p].svr = None]
  /\ UNCHANGED <<rules, traffic, heap, syncing, file, nreq, other>>

(* PostEdit between stop() and start() *)
EditRulesSet(p) ==
  /\ At(p, "rulesSet")
  /\ rules' = [rules EXCEPT ![ctx[p].rid] = ctx[p].rule]
  /\ Goto(p, "getTF")
  /\ UNCHANGED <<svrs, traffic, heap, syncing, file, ctx, nreq, other>>

(* PostDel and sync() after stop() *)
RulesRemove(p) ==
  /\ At(p, "rulesRemove")
  /\ rules' = [rules EXCEPT ![ctx[p].rid] = None]
  /\ Goto(p, "trafficRemove")
  /\ UNCHANGED <<svrs, traffic, heap, syncing, file, ctx, nreq, other>>

TrafficRemove(p) ==
  /\ At(p, "trafficRemove")
  /\ traffic' = [traffic EXCEPT ![ctx[p].rid] = None]
  /\ IF ctx[p].op = "sync"
       THEN /\ Goto(p, "syncStops")
            /\ ctx' = [ctx EXCEPT ![p].rid = None]
       ELSE /\ Goto(p, "idle")
            /\ ctx' = [ctx EXCEPT ![p] = NoRequest]
  /\ UNCHANGED <<rules, svrs, heap, syncing, file, nreq, other>>

-----------------------------------------------------------------------------
(* start(): getTF, NewRelay, Svrs.Set, Serve *)

GetTF(p) ==
  /\ At(p, "getTF")
  /\ LET tf == traffic[ctx[p].rid] IN
       IF tf = None
         THEN Goto(p, "setTF") /\ UNCHANGED ctx
         ELSE /\ Goto(p, "svrsSet")
              /\ ctx' = [ctx EXCEPT ![p].tf = tf]
  /\ UNCHANGED <<maps, heap, syncing, file, nreq, other>>

(* &Relay{}: an object nothing refers to *)
FreshObj(o) == /\ \A rid \in Rid : svrs[rid] # o
               /\ \A p \in Proc : ctx[p].svr # o
               /\ \A net \in Net : <<o, net>> \notin bound

(* NewTF: a counter nothing refers to *)
FreshTf(tf) == /\ \A rid \in Rid : traffic[rid] # tf
               /\ \A o \in Obj : FreshObj(o) \/ relay[o].tf # tf
               /\ \A p \in Proc : ctx[p].tf # tf

(* Mutant: getTF forgets Traffic.Set. *)
SetTF_Unregistered(p) == \E tf \in Tf :
  /\ At(p, "setTF")
  /\ FreshTf(tf)
  /\ ctx' = [ctx EXCEPT ![p].tf = tf]
  /\ Goto(p, "svrsSet")
  /\ UNCHANGED <<maps, heap, syncing, file, nreq, other>>

SetTF(p) == \E tf \in Tf :
  /\ At(p, "setTF")
  /\ FreshTf(tf)
  /\ traffic' = [traffic EXCEPT ![ctx[p].rid] = tf]
  /\ ctx' = [ctx EXCEPT ![p].tf = tf]
  /\ Goto(p, "svrsSet")
  /\ UNCHANGED <<rules, svrs, heap, syncing, file, nreq, other>>

(* NewRelay fails on an address that does not resolve; as check() has no   *)
(* lower bound, that is a negative port.                                   *)
NewRelayFails(r) == r.port < 0

NewRelay(p) ==
  [rid |-> ctx[p].rid, port |-> ctx[p].rule.port, typ |-> ctx[p].rule.typ,
   raddr |-> ctx[p].rule.rip, stop |-> "nil", lsn |-> {}, tf |-> ctx[p].tf]

SvrsSet(p) == \E o \in Obj :
  /\ At(p, "svrsSet")
  /\ ~NewRelayFails(ctx[p].rule)
  /\ FreshObj(o)
  /\ relay' = [relay EXCEPT ![o] = NewRelay(p)]
  /\ svrs' = [svrs EXCEPT ![ctx[p].rid] = o]
  /\ ctx' = [ctx EXCEPT ![p].svr = o]
  /\ Goto(p, "serve")
  /\ UNCHANGED <<rules, traffic, bound, syncing, file, nreq, other>>

StartFails(p) ==
  /\ At(p, "svrsSet")
  /\ NewRelayFails(ctx[p].rule)
  /\ StartReturns(p)
  /\ UNCHANGED <<maps, heap, syncing, file, nreq, other>>

(* Serve() goes by the protocol; one it does not know serves nothing.      *)
Dispatch(p) ==
  LET typ == relay[Svr(p)].typ IN
    \/ OpensTcp(typ) /\ Goto(p, "listenTcp") /\ UNCHANGED ctx
    \/ ~OpensTcp(typ) /\ OpensUdp(typ) /\ Goto(p, "listenUdp") /\ UNCHANGED ctx
    \/ ~OpensTcp(typ) /\ ~OpensUdp(typ) /\ StartReturns(p)

(* Mutant: StopCh is made when the relay is, not when it serves. *)
Serve_KeepsStopCh(p) ==
  /\ At(p, "serve")
  /\ relay' = [relay EXCEPT ![Svr(p)].stop = IF @ = "nil" THEN "open" ELSE @]
  /\ Dispatch(p)
  /\ UNCHANGED <<maps, bound, syncing, file, nreq, other>>

Serve(p) ==
  /\ At(p, "serve")
  /\ relay' = [relay EXCEPT ![Svr(p)].stop = "open"]
  /\ Dispatch(p)
  /\ UNCHANGED <<maps, bound, syncing, file, nreq, other>>

PortFree(port, net) ==
  \A b \in bound : b[2] = net => relay[b[1]].port # port

(* A failed listen assigns nil to the field, a successful one the socket.  *)
Listens(o, net) ==
  /\ PortFree(relay[o].port, net)
  /\ bound' = bound \cup {<<o, net>>}
  /\ relay' = [relay EXCEPT ![o].lsn = @ \cup {net}]

(* Mutant: the listener is assigned only when it could be opened. *)
ListenFails_Keeps(o, net) == UNCHANGED <<relay, bound>>

ListenFails(o, net) ==
  /\ relay' = [relay EXCEPT ![o].lsn = @ \ {net}]
  /\ UNCHANGED bound

(* Where both are opened, UDP follows unless TCP failed.                   *)
ListenTCP(p) ==
  /\ At(p, "listenTcp")
  /\ \/ /\ Listens(Svr(p), "tcp")
        /\ IF OpensUdp(relay[Svr(p)].typ)
             THEN Goto(p, "listenUdp") /\ UNCHANGED ctx
             ELSE StartReturns(p)
     \/ ListenFails(Svr(p), "tcp") /\ StartReturns(p)
  /\ UNCHANGED <<maps, syncing, file, nreq, other>>

ListenUDP(p) ==
  /\ At(p, "listenUdp")
  /\ Listens(Svr(p), "udp") \/ ListenFails(Svr(p), "udp")
  /\ StartReturns(p)
  /\ UNCHANGED <<maps, syncing, file, nreq, other>>

-----------------------------------------------------------------------------
(* sync(newRules).  ctx[p].items is the snapshot of Rules still to visit,  *)
(* ctx[p].new what is left of newRules, and ctx[p].req what was asked for, *)
(* less the rules that were passed over (for the properties only).  Both   *)
(* loops range over a Go map, in any order.                                *)

(* A sync that finds another one running clears the flag, so that the      *)
(* other gives up, and sleeps; then it claims the flag for itself.         *)
SyncEnter(p) ==
  /\ At(p, "sync")
  /\ syncing' = FALSE
  /\ Goto(p, "syncClaim")
  /\ UNCHANGED <<maps, heap, file, ctx, nreq, other>>

SyncClaim(p) ==
  /\ At(p, "syncClaim")
  /\ syncing' = TRUE
  /\ Goto(p, "syncItems")
  /\ UNCHANGED <<maps, heap, file, ctx, nreq, other>>

SyncItems(p) ==
  /\ At(p, "syncItems")
  /\ ctx' = [ctx EXCEPT ![p].items = rules]
  /\ Goto(p, "syncStops")
  /\ UNCHANGED <<maps, heap, syncing, file, nreq, other>>

cmp_NoPort(x, y) == x.remote = y.remote /\ x.typ = y.typ       \* mutant
cmp(x, y) == x.port = y.port /\ x.remote = y.remote /\ x.typ = y.typ

SyncKeeps(p, rid) ==
  /\ ctx[p].new[rid] # None /\ cmp(ctx[p].new[rid], ctx[p].items[rid])
  /\ ctx' = [ctx EXCEPT ![p].items[rid] = None, ![p].new[rid] = None]
  /\ UNCHANGED pc

SyncDrops(p, rid) ==
  /\ ~(ctx[p].new[rid] # None /\ cmp(ctx[p].new[rid], ctx[p].items[rid]))
  /\ ctx' = [ctx EXCEPT ![p].items[rid] = None, ![p].rid = rid]
  /\ Goto(p, "stop")

SyncStops(p) ==
  /\ At(p, "syncStops")
  /\ \/ \E rid \in Rid : /\ ctx[p].items[rid] # None
                         /\ SyncKeeps(p, rid) \/ SyncDrops(p, rid)
     \/ /\ ctx[p].items = NoRules
        /\ Goto(p, "syncStarts")
        /\ UNCHANGED ctx
  /\ UNCHANGED <<maps, heap, syncing, file, nreq, other>>

SyncPicks(p) == \E rid \in Rid :
  /\ At(p, "syncStarts")
  /\ syncing
  /\ ctx[p].new[rid] # None
  /\ ctx' = [ctx EXCEPT ![p].new[rid] = None, ![p].rid = rid,
                        ![p].rule = ctx[p].new[rid]]
  /\ Goto(p, "syncResolve")
  /\ UNCHANGED <<maps, heap, syncing, file, nreq, other>>

(* The address is looked up unless the map brought it along (the sync file *)
(* does).  A rule that does not resolve or fails check() is passed over.   *)
SyncResolves(p) ==
  /\ At(p, "syncResolve")
  /\ \E ip \in IF ctx[p].rule.rip = None THEN IP ELSE {ctx[p].rule.rip} :
       LET r == [ctx[p].rule EXCEPT !.rip = ip] IN
         /\ check(r)
         /\ rules' = [rules EXCEPT ![ctx[p].rid] = r]
         /\ ctx' = [ctx EXCEPT ![p].rule = r]
  /\ Goto(p, "getTF")
  /\ UNCHANGED <<svrs, traffic, heap, syncing, file, nreq, other>>

SyncSkips(p) ==
  /\ At(p, "syncResolve")
  /\ ctx[p].rule.rip = None \/ ~check(ctx[p].rule)
  /\ Goto(p, "syncStarts")
  /\ ctx' = [ctx EXCEPT ![p] = [@ EXCEPT !.rid = None, !.rule = None,
                                         !.req[ctx[p].rid] = None]]
  /\ UNCHANGED <<maps, heap, syncing, file, nreq, other>>

(* The caller of sync() goes on: a handler answers, Init() starts ddns().  *)
SyncReturns(p) ==
  /\ Goto(p, "idle")
  /\ ctx' = [ctx EXCEPT ![p] = NoRequest]
  /\ ddns' = IF p = Boot THEN DdnsAt("sleep") ELSE ddns

(* Mutant: a sync that is cancelled waits for the flag, as ddns() does.    *)
SyncCancelled_Waits(p) ==
  /\ At(p, "syncStarts")
  /\ ~syncing /\ ctx[p].new # NoRules
  /\ UNCHANGED vars

SyncCancelled(p) ==
  /\ At(p, "syncStarts")
  /\ ~syncing /\ ctx[p].new # NoRules
  /\ SyncReturns(p)
  /\ UNCHANGED <<maps, heap, syncing, file, nreq, up, nboot>>

(* Mutant: the flag is not lowered. *)
SyncFinishes_FlagUp(p) ==
  /\ At(p, "syncStarts")
  /\ ctx[p].new = NoRules
  /\ Goto(p, "syncMarshal")
  /\ UNCHANGED <<maps, heap, syncing, file, ctx, nreq, other>>

SyncFinishes(p) ==
  /\ At(p, "syncStarts")
  /\ ctx[p].new = NoRules
  /\ syncing' = FALSE
  /\ Goto(p, "syncMarshal")
  /\ UNCHANGED <<maps, heap, file, ctx, nreq, other>>

(* Mutant: the map of the request is saved, not the registry. *)
SyncMarshals_Request(p) ==
  /\ At(p, "syncMarshal")
  /\ ctx' = [ctx EXCEPT ![p].items = ctx[p].req]
  /\ Goto(p, "syncTruncate")
  /\ UNCHANGED <<maps, heap, syncing, file, nreq, other>>

SyncMarshals(p) ==
  /\ At(p, "syncMarshal")
  /\ ctx' = [ctx EXCEPT ![p].items = rules]
  /\ Goto(p, "syncTruncate")
  /\ UNCHANGED <<maps, heap, syncing, file, nreq, other>>

(* ioutil.WriteFile truncates the file before it writes it, and may fail   *)
(* at either; the error is logged, and sync() returns as ever.             *)
SyncTruncates(p) ==
  /\ At(p, "syncTruncate")
  /\ file' = Torn
  /\ Goto(p, "syncWrite")
  /\ UNCHANGED <<maps, heap, syncing, ctx, nreq, other>>

SyncWrites(p) ==
  /\ At(p, "syncWrite")
  /\ file' = ctx[p].items
  /\ SyncReturns(p)
  /\ UNCHANGED <<maps, heap, syncing, nreq, up, nboot>>

WriteFails(p) ==
  /\ At(p, "syncTruncate") \/ At(p, "syncWrite")
  /\ SyncReturns(p)
  /\ UNCHANGED <<maps, heap, syncing, file, nreq, up, nboot>>

-----------------------------------------------------------------------------
(* GET /data: a snapshot of Rules, then one of Svrs, whose relays are asked *)
(* whether they listen.  A relay that does not is looked up in the first   *)
(* snapshot; the type assertion on a missing rule panics.                  *)

GetData(h) ==
  /\ Begin(h, "data", [Request("data", None, None, NoRules) EXCEPT !.items = rules])
  /\ UNCHANGED <<maps, heap, syncing, file, other>>

(* OK() asks for the TCP listener, even of a relay that only needs UDP,    *)
(* when the protocol's name has `tcp' or `udp' in it, and of no other.     *)
OK(o) == Named(relay[o].typ) => "tcp" \in relay[o].lsn

DataMisses(h) ==
  \E rid \in Rid : /\ svrs[rid] # None /\ ~OK(svrs[rid])
                   /\ ctx[h].items[rid] = None

DataAnswers(h) ==
  /\ At(h, "data")
  /\ ~DataMisses(h)
  /\ Goto(h, "idle")
  /\ ctx' = [ctx EXCEPT ![h] = NoRequest]
  /\ UNCHANGED <<maps, heap, syncing, file, nreq, other>>

DataPanics(h) ==
  /\ At(h, "data")
  /\ DataMisses(h)
  /\ Goto(h, "panicked")
  /\ UNCHANGED <<maps, heap, syncing, file, ctx, nreq, other>>

-----------------------------------------------------------------------------
(* ddns(): every 30 s, and not while the flag is up, look every rule of a  *)
(* snapshot up again; when the address moved, set it in the Relay and in   *)
(* the rule.                                                               *)

DdnsWakes ==
  /\ up /\ ddns.pc = "sleep" /\ ~syncing
  /\ ddns' = [ddns EXCEPT !.pc = "walk", !.items = rules]
  /\ UNCHANGED <<maps, heap, syncing, file, pc, ctx, up, nreq, nboot>>

DdnsLookup == \E rid \in Rid :
  /\ up /\ ddns.pc = "walk" /\ ddns.items[rid] # None
  /\ \/ ddns' = [ddns EXCEPT !.items[rid] = None]    \* failed, or the same
     \/ \E ip \in IP \ {ddns.items[rid].rip} :
          ddns' = [pc |-> "svr", items |-> [ddns.items EXCEPT ![rid] = None],
                   rid |-> rid, rule |-> [ddns.items[rid] EXCEPT !.rip = ip]]
  /\ UNCHANGED <<maps, heap, syncing, file, pc, ctx, up, nreq, nboot>>

DdnsSetsRaddr ==
  /\ up /\ ddns.pc = "svr" /\ svrs[ddns.rid] # None
  /\ relay' = [relay EXCEPT ![svrs[ddns.rid]].raddr = ddns.rule.rip]
  /\ ddns' = [ddns EXCEPT !.pc = "set"]
  /\ UNCHANGED <<maps, bound, syncing, file, pc, ctx, up, nreq, nboot>>

(* The type assertion on a missing entry panics and ends the process.      *)
DdnsPanics ==
  /\ up /\ ddns.pc = "svr" /\ svrs[ddns.rid] = None
  /\ up' = FALSE
  /\ UNCHANGED <<maps, heap, syncing, file, pc, ctx, ddns, nreq, nboot>>

DdnsSetsRule ==
  /\ up /\ ddns.pc = "set"
  /\ rules' = [rules EXCEPT ![ddns.rid] = ddns.rule]
  /\ ddns' = [ddns EXCEPT !.pc = "walk", !.rid = None, !.rule = None]
  /\ UNCHANGED <<svrs, traffic, heap, syncing, file, pc, ctx, up, nreq, nboot>>

DdnsSleeps ==
  /\ up /\ ddns.pc = "walk" /\ ddns.items = NoRules
  /\ ddns' = [ddns EXCEPT !.pc = "sleep"]
  /\ UNCHANGED <<maps, heap, syncing, file, pc, ctx, up, nreq, nboot>>

-----------------------------------------------------------------------------
(* The process ends at any point and is started again: memory and sockets  *)
(* are gone, the file stays.                                               *)

Kill ==
  /\ up /\ nboot < MaxBoot
  /\ up' = FALSE
  /\ UNCHANGED <<maps, heap, syncing, file, pc, ctx, ddns, nreq, nboot>>

Reboot ==
  /\ ~up /\ nboot < MaxBoot
  /\ rules' = NoRules
  /\ svrs' = [rid \in Rid |-> None]
  /\ traffic' = [rid \in Rid |-> None]
  /\ relay' = [o \in Obj |-> UnusedRelay]
  /\ bound' = {}
  /\ syncing' = FALSE
  /\ pc' = BootPc(file) /\ ctx' = BootCtx(file) /\ ddns' = BootDdns(file)
  /\ up' = TRUE /\ nboot' = nboot + 1
  /\ UNCHANGED <<file, nreq>>

-----------------------------------------------------------------------------
(* The goroutine p goes on with stop() and start() ...                     *)
Step(p) ==
  \/ StopLookup(p) \/ RestartLookup(p) \/ CloseStopCh(p) \/ ClosePanics(p)
  \/ CloseTCPListen(p) \/ CloseUDPConn(p) \/ SvrsRemove(p)
  \/ EditRulesSet(p) \/ RulesRemove(p) \/ TrafficRemove(p)
  \/ GetTF(p) \/ SetTF(p) \/ SvrsSet(p) \/ StartFails(p)
  \/ Serve(p) \/ ListenTCP(p) \/ ListenUDP(p)

(* ... or with sync() *)
SyncStep(p) ==
  \/ SyncEnter(p) \/ SyncClaim(p) \/ SyncItems(p) \/ SyncStops(p)
  \/ SyncPicks(p) \/ SyncResolves(p) \/ SyncSkips(p) \/ SyncCancelled(p)
  \/ SyncFinishes(p) \/ SyncMarshals(p) \/ SyncTruncates(p) \/ SyncWrites(p)
  \/ WriteFails(p)

Accept(h) == \/ PostAdd(h) \/ PostEdit(h) \/ PostDel(h) \/ PostRestart(h)
             \/ PostSync(h) \/ GetData(h)

(* ... or with GET /data *)
DataStep(p) == DataAnswers(p) \/ DataPanics(p)

DdnsStep == DdnsWakes \/ DdnsLookup \/ DdnsSetsRaddr \/ DdnsPanics
            \/ DdnsSetsRule \/ DdnsSleeps

Next ==
  \/ \E h \in Handler : Accept(h)
  \/ \E p \in Proc : Step(p) \/ SyncStep(p) \/ DataStep(p)
  \/ DdnsStep
  \/ Kill
  \/ Reboot

Spec == Init /\ [][Next]_vars

(* The Go scheduler runs every goroutine that can run; lookups and listens *)
(* return.  Shutdown() need not, and requests, kills and restarts are not  *)
(* fair either.                                                            *)
Runs(p) == ~InShutdown(p) /\ (Step(p) \/ SyncStep(p) \/ DataStep(p))
Fairness == (\A p \in Proc : WF_vars(Runs(p))) /\ WF_vars(DdnsStep)

FairSpec == Spec /\ Fairness

-----------------------------------------------------------------------------
(* Properties.  Those of this block are for an API client that waits for   *)
(* one request on a rule before it sends the next (Serial), adds only      *)
(* rules that are not being served (FreshAdds) and leaves start-up alone   *)
(* until the sync file is imported (AfterBoot).                            *)

(* Every open socket belongs to the relay that is registered for its rule, *)
(* and that relay still has the handle: whatever order stop(), start() and *)
(* sync() go through, a rule that is deleted or edited leaves no listener  *)
(* behind that nobody can close (lib.go:37-55).                            *)
NoOrphanListener ==
  \A b \in bound : /\ b[2] \in relay[b[1]].lsn
                   /\ \E rid \in Rid : svrs[rid] = b[1] /\ relay[b[1]].rid = rid

(* No goroutine closes a StopCh that is nil or closed already: close(),    *)
(* Serve() and the registration of a relay stay in step (relay.go:108,196).*)
NoDoubleClose == \A p \in Proc : pc[p] = "panicked" => ctx[p].op = "data"

(* The three maps agree between any two steps of stop(), start(), sync()   *)
(* and ddns().  A registered relay has a rule: without it PostDel could    *)
(* not reach the relay (action.go:105) and GET /data would panic           *)
(* (action.go:147).  And the counter that /traffic reports for a rule is   *)
(* the one its relay adds to, through every edit, restart and sync         *)
(* (lib.go:25-38, 84-86).                                                  *)
SvrHasRule == \A rid \in Rid : svrs[rid] # None => rules[rid] # None

TrafficAttached ==
  \A rid \in Rid : svrs[rid] # None => traffic[rid] = relay[svrs[rid]].tf

MapsInStep == SvrHasRule /\ TrafficAttached

(* What /data answers of a relay that opens a TCP listener is true when no *)
(* request is at work: OK() tests a handle that Close() leaves in place    *)
(* and a failed restart overwrites (relay.go:185, tcp.go:10), and the      *)
(* socket is what serves.  Not so where the name has no `tcp' or `udp':    *)
(* http, https and plain tunnels are always called working.                *)
StatusTrue ==
  up /\ (\A p \in Proc : Busy(p) => ctx[p].op = "data") =>
    \A rid \in Rid : LET o == svrs[rid] IN
      o # None /\ OpensTcp(relay[o].typ) /\ Named(relay[o].typ) =>
        (OK(o) <=> <<o, "tcp">> \in bound)

(* When a sync has stopped the old rules and started the new ones, the     *)
(* rules are those it asked for, all of them but the ones that did not     *)
(* resolve or that check() refused, kept or new; each has its relay unless *)
(* NewRelay refused it, and no socket of another rule or of an older       *)
(* version of a rule is left (lib.go:79-108).  So for start-up, which      *)
(* syncs with the file.  Where addresses do not move, that is, in this and *)
(* in BackupExact: after a move ddns() puts the rule of its old snapshot   *)
(* back (lib.go:143-148).                                                  *)
Asked(req, rid, port, typ) ==
  req[rid] # None /\ req[rid].port = port /\ req[rid].typ = typ
SyncExact ==
  \A p \in Proc : up /\ pc[p] = "syncMarshal" =>
    /\ \A rid \in Rid : (rules[rid] # None) <=> (ctx[p].req[rid] # None)
    /\ \A rid \in Rid : rules[rid] # None =>
         /\ cmp(rules[rid], ctx[p].req[rid])
         /\ svrs[rid] # None \/ NewRelayFails(rules[rid])
    /\ \A b \in bound : LET r == relay[b[1]]
                       IN Asked(ctx[p].req, r.rid, r.port, r.typ)

(* A sync that returns from WriteFile() has left a copy of the registry,   *)
(* as it then is, in the file, which is what the next start-up imports; or *)
(* the write failed, and the file is the old one or is torn, though the    *)
(* sync is answered with success (lib.go:110-119).                         *)
BackupExact ==
  [][\A p \in Proc : up /\ pc[p] \in {"syncTruncate", "syncWrite"} /\ pc'[p] = "idle" =>
       file' = rules' \/ WriteFails(p)]_vars

-----------------------------------------------------------------------------
(* Properties for any client *)

(* While the flag `syncing' is up some sync() holds it, at work or dead of *)
(* a panic: no interleaving of syncs that cancel each other leaves it up   *)
(* behind them, which would stop ddns() for good (lib.go:70-75,109,135).   *)
SyncFlagOwned ==
  syncing => \E p \in Proc : ctx[p].op = "sync" /\ pc[p] \notin {"idle", "sync", "syncClaim"}

(* Every request is answered, and start-up ends: however requests overlap, *)
(* no loop of sync(), no flag that another sync left up and no panic of    *)
(* another handler keeps a goroutine busy for ever; Shutdown() of an       *)
(* http.Server that serves a request may (lib.go:68-120, relay.go:198).    *)
Answered == \A p \in Proc : (Busy(p) ~> (~Busy(p) \/ ~up)) \/ <>[]InShutdown(p)

(* ddns() is not starved: a sync that has raised the flag lowers it again, *)
(* unless a sync dies of a panic half-way, which leaves it up, or waits in *)
(* Shutdown() (lib.go:70-75, 109, 135).                                    *)
DdnsNotStarved ==
  \/ syncing ~> (~syncing \/ ~up)
  \/ \E p \in Proc : <>[](ctx[p].op = "sync" /\ (pc[p] = "panicked" \/ InShutdown(p)))

-----------------------------------------------------------------------------
(* What the code or its documents say, and what it does not do *)

(* The type assertion of lib.go:144: ddns() finds a relay for the rule.    *)
DdnsFindsSvr == ddns.pc = "svr" => svrs[ddns.rid] # None

(* A sync that answers success (action.go:131) was carried out, or a later *)
(* one took over: it gives up only while another one is at work.           *)
SyncTakenOver ==
  [][\A p \in Proc : up /\ up' /\ pc[p] = "syncStarts" /\ pc'[p] = "idle" =>
       \E q \in Proc \ {p} : ctx[q].op = "sync"]_vars

=============================================================================

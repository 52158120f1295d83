--------------------------- MODULE MCControlPlane ---------------------------
(***************************************************************************)
(* Values for the constants of ControlPlane: rules that want the same port *)
(* (one of them served by an http.Server), one that only needs UDP, one of *)
(* http, one whose negative port check() lets through and NewRelay         *)
(* refuses, one of a protocol Serve() does not know, and one that check()  *)
(* refuses.                                                                *)
(***************************************************************************)
EXTENDS ControlPlane, TLC

CONSTANTS r1, r2, h1, h2, ip1, ip2, o1, o2, o3, o4, t1, t2, t3, t4

MCRule(port, remote, typ, ip) ==
  [port |-> port, remote |-> remote, typ |-> typ, rip |-> ip]

Both == MCRule(1, "a", "tcp+udp", None)
Tcp  == MCRule(1, "a", "tcp", None)
Udp  == MCRule(2, "a", "udp", None)
Server == MCRule(1, "a", "tunnel_server_tcp", None)
Web  == MCRule(2, "a", "http", None)
Bad  == MCRule(-1, "a", "tcp", None)
Unknown == MCRule(2, "a", "other", None)
Big  == MCRule(3, "a", "udp", None)

Map(x, y) == (r1 :> x) @@ (r2 :> y)
Map1(x) == r1 :> x
At1(r) == [r EXCEPT !.rip = ip1]

SomeRules == {Both, Server, Bad}
SomeSyncs == {Map(Udp, Web), Map(Both, Both), Map(Big, Unknown)}
SomeFiles == {Absent, Torn, Map(At1(Both), At1(Bad))}

TcpRule  == {Tcp}
ServerRule == {Server}
TwoSyncs == {Map1(Tcp), Map1(Udp)}
UdpSync  == {Map1(Udp)}
TcpFile  == {Map1(At1(Tcp))}
NoFile   == {Absent}
NoSync   == {}
ServerSync == {Map1(Server)}
ServerFile == {Absent, Map1(At1(Server))}

(* An object nothing refers to is garbage: what its fields hold is never   *)
(* read again, so states that differ there alone are the same.             *)
Live == [o \in Obj |-> IF FreshObj(o) THEN UnusedRelay ELSE relay[o]]
NoGarbage == <<maps, Live, bound, syncing, file, pc, ctx, ddns, up, nreq, nboot>>

(* The live run takes objects and counters in order, and its first handler *)
(* first: neither can tell its values apart.  Its second handler starts    *)
(* when start-up is over.  Only ddns() sees an address move, and only      *)
(* while there is no sync file.  No fair action is kept from happening.    *)
InOrder == /\ ~FreshObj(o2)' /\ FreshObj(o2) => ~FreshObj(o1)
           /\ ~FreshObj(o3)' /\ FreshObj(o3) => ~FreshObj(o1) /\ ~FreshObj(o2)
           /\ ~FreshTf(t2)' /\ FreshTf(t2) => ~FreshTf(t1)
           /\ ~FreshTf(t3)' /\ FreshTf(t3) => ~FreshTf(t1) /\ ~FreshTf(t2)
Tidy == /\ InOrder
        /\ pc[h2] = "idle" /\ pc'[h2] # "idle" => Busy(h1) /\ ~Busy(Boot)
        /\ ddns.pc = "walk" /\ ddns'.pc = "svr" => file = Absent
        /\ \A p \in Proc : ctx'[p].op \in {"add", "edit", "sync"} =>
                            ctx'[p].rule = None \/ ctx'[p].rule.rip # ip2
LiveNext ==
  \/ /\ \/ \E h \in Handler : Accept(h)
        \/ \E p \in Proc : Step(p) \/ SyncStep(p) \/ DataStep(p)
        \/ DdnsLookup
     /\ Tidy
  \/ DdnsWakes \/ DdnsSetsRaddr \/ DdnsPanics \/ DdnsSetsRule \/ DdnsSleeps
LiveSpec == Init /\ [][LiveNext]_vars /\ Fairness

SymObj == Permutations(Obj) \cup Permutations(Tf)
SymAll == SymObj \cup Permutations(Handler)
=============================================================================

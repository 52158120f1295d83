---------------------------- MODULE MCWebRelays ----------------------------
(***************************************************************************)
(* The two web relays side by side: Serve() looks at the protocol and runs *)
(* the one or the other (relay.go:117-121), so that an instance is an http *)
(* relay with its requests or an https relay with one connection.          *)
(***************************************************************************)
EXTENDS HttpRelay, HttpsHello, TLC

CONSTANTS q1, q2

VARIABLE protocol

(* Headers: requests that ask for a switch of protocols, and with headers  *)
(* of their own for the next hop, exempt ones and ones with an empty first *)
(* value; a response with trailers, and one that switches.                 *)
Header(listed, val, trailers) == [listed |-> listed, val |-> val, trailers |-> trailers]
Own == ("X-Own" :> <<"own">>) @@ ("Te" :> <<"trailers">>) @@ ("Keep-Alive" :> <<"", "timeout">>)
SomeRequests ==
  {Header({"Upgrade"}, [Connection |-> <<"Upgrade">>, Upgrade |-> <<"websocket">>], {}),
   Header({"X-Own", "Proxy-Connection"},
          Own @@ ("Connection" :> <<"X-Own">>) @@ ("Upgrade" :> <<"h2c">>)
          @@ ("X-Forwarded-For" :> <<"prior">>), {})}
SomeResponses ==
  {Header({"X-Own"}, Own @@ ("Connection" :> <<"X-Own">>) @@ ("X-Other" :> <<"other">>), {"X-Sum"}),
   Header({"Upgrade"}, Own @@ ("Connection" :> <<"Upgrade">>) @@ ("Upgrade" :> <<"websocket">>), {})}
Chunks == [q \in Req |-> IF q = q1 THEN 2 ELSE 0]

(* ClientHello records: the lengths of the session id, of the cipher       *)
(* suites and of the extensions before the server's name vary, as does     *)
(* whether there is a name.  Some are complete but not well-formed: their  *)
(* rest ends before the session id, in the list of the suites, after it,   *)
(* and in the name of the server; one has a name of another type.          *)
U2(k) == <<k \div 256, k % 256>>
Zeros(k) == [i \in 1 .. k |-> 0]
Ext(type, data) == U2(type) \o U2(Len(data)) \o data
SNI(name) == IF name = <<>> THEN <<>>
             ELSE Ext(0, U2(Len(name) + 3) \o <<0>> \o U2(Len(name)) \o name)
Body(sid, suites, exts) ==
  LET fields == <<3, 3>> \o Zeros(32) \o <<sid>> \o Zeros(sid) \o U2(suites) \o [i \in 1 .. suites |-> 47]
                \o <<1, 0>> \o (IF exts = <<>> THEN <<>> ELSE U2(Len(exts)) \o exts)
  IN <<1, 0>> \o U2(Len(fields)) \o fields
MCRecord(sid, suites, before, name, after) ==
  LET parts == SelectSeq(<<before, SNI(name), after>>, LAMBDA x : x # <<>>)
      rest == Body(sid, suites, FlattenSeq(parts))
  IN [name |-> name, bytes |-> <<22, 3, 1>> \o U2(Len(rest)) \o rest,
      exts |-> [k \in 1 .. Len(parts) + 1 |->
                  45 + sid + suites + Len(FlattenSeq(SubSeq(parts, 1, k - 1)))]]
Cut(h, rest) == [h EXCEPT !.bytes = <<22, 3, 1>> \o U2(rest) \o SubSeq(h.bytes, 6, rest + 5)]
SomeName == <<65, 46, 98>>
SomeHellos ==
  {MCRecord(sid, suites, before, name, after) :
     name \in {<<>>, SomeName}, sid \in {0, 2}, suites \in {2, 4},
     before \in {<<>>, Ext(10, <<0, 2>>)}, after \in {<<>>, Ext(23, <<>>)}}
  \cup {Cut(MCRecord(0, 2, <<>>, SomeName, <<>>), rest) : rest \in {1, 38, 40, 43, 55}}
  \cup {MCRecord(0, 2, Ext(0, <<0, 4, 1, 0, 1, 65>>), <<>>, <<>>)}

hSame == UNCHANGED hvars
HelloIdle == /\ hello = [name |-> <<>>, bytes |-> <<>>] /\ arrived = 0 /\ taken = 0 /\ short = FALSE
             /\ hpc = "off" /\ rec = <<>> /\ current = 0 /\ hostname = <<>> /\ sent = <<>>

WebInit == /\ Init
           /\ \/ protocol = "http" /\ HelloIdle
              \/ protocol = "https" /\ HelloInit

(* Tunnels are for the first request.                                      *)
ServesHttp == /\ protocol = "http" /\ HttpNext /\ hSame
              /\ \A q \in Req : pc'[q] = "tunnel" => q = q1
ServesHttps == protocol = "https" /\ HelloNext /\ UNCHANGED vars
WebNext == (ServesHttp \/ ServesHttps) /\ UNCHANGED protocol

Spec == WebInit /\ [][WebNext]_<<vars, hvars, protocol>>
FairSpec == Spec /\ HttpFairness
=============================================================================

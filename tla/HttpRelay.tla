----------------------------- MODULE HttpRelay -----------------------------
(***************************************************************************)
(* An http relay: http.go's server, the reverse proxy of resversproxy.go   *)
(* that answers its requests, and Serve() and Close() around them.  Every  *)
(* request has a goroutine of its own; a response without a length adds a  *)
(* timer that flushes, a switch of protocols a second copy and a goroutine *)
(* that closes the backend.                                                *)
(*                                                                         *)
(* net/http and the peers are external: a backend and a client answer,     *)
(* stop or leave whenever they like; Shutdown() waits, without a deadline, *)
(* for the requests of its server that have not been hijacked.             *)
(***************************************************************************)
EXTENDS Integers, Sequences, FiniteSets, Functions

CONSTANTS
  Req,         \* requests, one per client connection
  ReqHeader,   \* headers that a client sends
  ResHeader,   \* headers that a backend sends
  MaxChunk,    \* bound: MaxChunk[q] chunks in the body for q
  MaxServe     \* bound: calls of Serve()

ASSUME HttpAssumption == MaxChunk \in [Req -> Nat] /\ MaxServe \in Nat \ {0}

Gen == 1 .. MaxServe
None == [listed |-> {}, val |-> <<>>, trailers |-> {}]      \* the header of no message

VARIABLES
  ctl,      \* what the control goroutine does next
  cur,      \* the number of s.StopCh; a server has the number of its Serve()
  closed,   \* the numbers whose StopCh is closed
  svr,      \* s.Svr, 0 for nil
  open,     \* the servers that accept connections
  pc,       \* where the goroutine of a request is
  on,       \* the server that accepted it
  hdr,      \* the header it passed on last: of what, as it came, as it went
  body,     \* the response: with a length or streamed, and its chunks
  n,        \* chunks read from the backend, written, and flushed to the client
  timer,    \* maxLatencyWriter.t, and flushPending
  tunnel,   \* the copies after a switch of protocols, and the backend's socket
  client    \* what the client of a request knows

control == <<ctl, cur, closed, svr, open>>
stream == <<body, n, timer>>
vars == <<control, pc, on, hdr, stream, tunnel, client>>

Dir == {"up", "down"}
Over == {"done", "aborted"}
ReqPc == {"none", "conn", "roundtrip", "select", "read", "write", "fail", "return",
          "tunnel"} \cup Over

TypeOK ==
  /\ ctl \in {"serve", "listen", "up", "shutdown", "close", "gone"}
  /\ cur \in 0 .. MaxServe /\ svr \in 0 .. cur
  /\ closed \subseteq Gen /\ open \subseteq {svr}
  /\ pc \in [Req -> ReqPc] /\ on \in [Req -> 0 .. cur]
  /\ \A q \in Req : /\ body[q].kind \in {"none", "sized", "streamed"}
                    /\ body[q].chunks \in 0 .. MaxChunk[q]
                    /\ -1 <= n[q].shown /\ n[q].shown <= n[q].written
                    /\ n[q].written <= n[q].read /\ n[q].read <= body[q].chunks
                    /\ timer[q].t \in {"off", "armed", "fired"} /\ timer[q].pending \in BOOLEAN
                    /\ tunnel[q] \in [Dir \cup {"back"} -> {"off", "select", "read", "write", "open", "end"}]
                    /\ client[q] \in {"waits", "whole", "cut", "error", "left"}

Sent(what, from, to) == [what |-> what, from |-> from, to |-> to]
Nothing == Sent("nothing", None, None)

Init ==
  /\ ctl = "serve" /\ cur = 0 /\ closed = {} /\ svr = 0 /\ open = {}
  /\ pc = [q \in Req |-> "none"]
  /\ on = [q \in Req |-> 0]
  /\ hdr = [q \in Req |-> Nothing]
  /\ body = [q \in Req |-> [kind |-> "none", chunks |-> 0]]
  /\ n = [q \in Req |-> [read |-> 0, written |-> 0, shown |-> -1]]
  /\ timer = [q \in Req |-> [t |-> "off", pending |-> FALSE]]
  /\ tunnel = [q \in Req |-> [d \in Dir \cup {"back"} |-> "off"]]
  /\ client = [q \in Req |-> "waits"]

Stopped == cur \in closed
At(q, l) == pc[q] = l
Goto(q, l) == pc' = [pc EXCEPT ![q] = l]
Left(q) == client[q] = "left"

-----------------------------------------------------------------------------
(* Headers: the names in `listed' are the tokens of Connection, `val' has  *)
(* the values of every header that is there, in order, and `trailers' the  *)
(* names that net/http's transport has taken out of Trailer.               *)

hopHeaders == {"Connection", "Proxy-Connection", "Keep-Alive", "Proxy-Authenticate",
               "Proxy-Authorization", "Te", "Trailer", "Transfer-Encoding", "Upgrade"}

Del(h, names) == [listed |-> IF "Connection" \in names THEN {} ELSE h.listed,
                  val |-> Restrict(h.val, DOMAIN h.val \ names), trailers |-> h.trailers]

Has(h, name) == name \in DOMAIN h.val
Put(h, name, v) == [h EXCEPT !.val = [x \in DOMAIN @ \cup {name} |-> IF x = name THEN v ELSE @[x]]]

(* Get() gives the first value, "" when there is none.                     *)
Get(h, name) == IF Has(h, name) THEN Head(h.val[name]) ELSE ""

removeConnectionHeaders(h) == Del(h, h.listed)

upgradeType(h) == IF "Upgrade" \in h.listed THEN Get(h, "Upgrade") ELSE ""

(* A header whose first value is empty stays, with all its values.         *)
DelHopHeaders(h) ==
  Del(h, {x \in hopHeaders : Get(h, x) # "" /\ ~(x = "Te" /\ Get(h, x) = "trailers")})

AddUpgrade(h, up) ==
  IF up = "" THEN h
  ELSE [Put(Put(h, "Connection", <<"Upgrade">>), "Upgrade", <<up>>) EXCEPT !.listed = {"Upgrade"}]

AddForwarded(h) ==
  Put(h, "X-Forwarded-For", <<IF Has(h, "X-Forwarded-For") THEN "prior, client" ELSE "client">>)

(* Mutant: the hop-by-hop headers go first, Connection among them.         *)
Outgoing_Late(h) ==
  AddForwarded(AddUpgrade(removeConnectionHeaders(DelHopHeaders(h)), upgradeType(h)))

Outgoing(h) ==
  AddForwarded(AddUpgrade(DelHopHeaders(removeConnectionHeaders(h)), upgradeType(h)))

AddTrailer(h) == IF h.trailers = {} THEN h ELSE Put(h, "Trailer", <<"announced">>)
Returned(h) == AddTrailer(Del(removeConnectionHeaders(h), hopHeaders))

-----------------------------------------------------------------------------
(* Serve(), RunHttpServer() and Close() *)

ServeMakesStopCh ==
  /\ ctl = "serve"
  /\ cur' = cur + 1 /\ ctl' = "listen"
  /\ UNCHANGED <<closed, svr, open, pc, on, hdr, stream, tunnel, client>>

RunHttpServer_Shadows ==                  \* mutant: svr := instead of s.Svr =
  /\ ctl = "listen"
  /\ ctl' = "up"
  /\ \/ open' = {cur}
     \/ UNCHANGED open
  /\ UNCHANGED <<cur, closed, svr, pc, on, hdr, stream, tunnel, client>>

(* When the port is taken s.Svr stays the server of the last time.         *)
RunHttpServer ==
  /\ ctl = "listen"
  /\ ctl' = "up"
  /\ \/ svr' = cur /\ open' = {cur}
     \/ UNCHANGED <<svr, open>>
  /\ UNCHANGED <<cur, closed, pc, on, hdr, stream, tunnel, client>>

(* Shutdown() closes the listener before it waits.                         *)
CloseStopCh ==
  /\ ctl = "up"
  /\ closed' = closed \cup {cur}
  /\ ctl' = "shutdown" /\ open' = {}
  /\ UNCHANGED <<cur, svr, pc, on, hdr, stream, tunnel, client>>

(* What Shutdown() waits for.  A hijacked connection is not its own.       *)
InFlight_Hijacked == {q \in Req : on[q] = svr /\ pc[q] \notin Over \cup {"none"}}   \* mutant
InFlight == {q \in Req : on[q] = svr /\ pc[q] \notin Over \cup {"none", "tunnel"}}

ShutdownReturns ==
  /\ ctl = "shutdown" /\ InFlight = {}
  /\ ctl' = "close"
  /\ UNCHANGED <<cur, closed, svr, open, pc, on, hdr, stream, tunnel, client>>

CloseReturns ==
  /\ ctl = "close"
  /\ \/ ctl' = "gone"
     \/ ctl' = "serve" /\ cur < MaxServe
  /\ UNCHANGED <<cur, closed, svr, open, pc, on, hdr, stream, tunnel, client>>

-----------------------------------------------------------------------------
(* A request up to its response *)

Connects(q) ==
  /\ At(q, "none") /\ svr \in open
  /\ on' = [on EXCEPT ![q] = svr]
  /\ Goto(q, "conn")
  /\ UNCHANGED <<control, hdr, stream, tunnel, client>>

(* Shutdown() gives a connection that asks for nothing five seconds.       *)
DropsIdle(q) ==
  /\ At(q, "conn") /\ ctl = "shutdown" /\ on[q] = svr
  /\ client' = [client EXCEPT ![q] = IF Left(q) THEN @ ELSE "cut"]
  /\ Goto(q, "aborted")
  /\ UNCHANGED <<control, on, hdr, stream, tunnel>>

ServeHTTP(q) ==
  /\ At(q, "conn")
  /\ \E h \in ReqHeader : hdr' = [hdr EXCEPT ![q] = Sent("request", h, Outgoing(h))]
  /\ Goto(q, "roundtrip")
  /\ UNCHANGED <<control, on, stream, tunnel, client>>

forgetHdr(q) == hdr' = [hdr EXCEPT ![q] = Nothing]

errorHandler(q) ==
  /\ client' = [client EXCEPT ![q] = IF Left(q) THEN @ ELSE "error"]
  /\ forgetHdr(q)
  /\ Goto(q, "done")
  /\ UNCHANGED <<control, on, stream, tunnel>>

(* The backend cannot be reached, or the client left and its context was   *)
(* cancelled.                                                              *)
RoundTripFails(q) == At(q, "roundtrip") /\ errorHandler(q)

flushInterval_Zero(b) == 0                                        \* mutant
flushInterval(b) == IF b.kind = "streamed" THEN -1 ELSE 0

(* copyResponse sets up the timer, so that the header is flushed even if   *)
(* the body is late.                                                       *)
Responds(q) ==
  /\ At(q, "roundtrip")
  /\ \E h \in ResHeader, k \in {"sized", "streamed"}, c \in 0 .. MaxChunk[q] :
       LET b == [kind |-> k, chunks |-> c] IN
         /\ hdr' = [hdr EXCEPT ![q] = Sent("response", h, Returned(h))]
         /\ body' = [body EXCEPT ![q] = b]
         /\ timer' = [timer EXCEPT ![q] = IF flushInterval(b) # 0
                                            THEN [t |-> "armed", pending |-> TRUE] ELSE @]
  /\ Goto(q, "select")
  /\ UNCHANGED <<control, on, n, tunnel, client>>

-----------------------------------------------------------------------------
(* copyResponse: Copy_io from the backend to the client, and the           *)
(* maxLatencyWriter between them                                           *)

CopySelects(q) ==
  /\ At(q, "select")
  /\ forgetHdr(q)
  /\ Goto(q, IF Stopped THEN "return" ELSE "read")
  /\ UNCHANGED <<control, on, stream, tunnel, client>>

(* The last chunk of a body with a length comes together with io.EOF, that *)
(* of a streamed one may; Copy_io looks at the error first.                *)
CopyReads(q) ==
  /\ At(q, "read") /\ n[q].read < body[q].chunks
  /\ n' = [n EXCEPT ![q].read = @ + 1]
  /\ LET last == n'[q].read = body[q].chunks IN
       \/ Goto(q, "write") /\ (last => body[q].kind = "streamed")
       \/ Goto(q, "fail") /\ last
  /\ UNCHANGED <<control, on, hdr, body, timer, tunnel, client>>

(* io.EOF, a backend that broke off, a client that left: all are errors.   *)
CopyReadFails(q) ==
  /\ At(q, "read")
  /\ Goto(q, "fail")
  /\ UNCHANGED <<control, on, hdr, stream, tunnel, client>>

(* net/http flushes by itself when its buffer is full.                     *)
CopyWrites(q) ==
  /\ At(q, "write") /\ ~Left(q)
  /\ \E s \in {n[q].shown, n[q].written + 1} :
       /\ flushInterval(body[q]) < 0 => s = n[q].written + 1
       /\ n' = [n EXCEPT ![q] = [read |-> @.read, written |-> @.written + 1, shown |-> s]]
  /\ Goto(q, "select")
  /\ UNCHANGED <<control, on, hdr, body, timer, tunnel, client>>

CopyWriteFails(q) ==
  /\ At(q, "write") /\ Left(q)
  /\ Goto(q, "fail")
  /\ UNCHANGED <<control, on, hdr, stream, tunnel, client>>

TimerFires(q) ==
  /\ timer[q].t = "armed"
  /\ timer' = [timer EXCEPT ![q].t = "fired"]
  /\ UNCHANGED <<control, pc, on, hdr, body, n, tunnel, client>>

delayedFlush(q) ==
  /\ timer[q].t = "fired"
  /\ timer' = [timer EXCEPT ![q] = [t |-> "off", pending |-> FALSE]]
  /\ n' = IF timer[q].pending THEN [n EXCEPT ![q].shown = n[q].written] ELSE n
  /\ UNCHANGED <<control, pc, on, hdr, body, tunnel, client>>

(* A timer that has fired cannot be stopped any more.                      *)
stop_KeepsPending(t) == [t EXCEPT !.t = IF @ = "armed" THEN "off" ELSE @]    \* mutant
stop(t) == [t |-> IF t.t = "armed" THEN "off" ELSE t.t, pending |-> FALSE]

(* The end of the body as the client sees it when the handler returns: a   *)
(* body with a length falls short, a streamed one has got its end mark.    *)
BodyEnds(q) == IF body[q].kind = "sized" /\ n[q].written < body[q].chunks THEN "cut" ELSE "whole"

(* Mutant: an error while copying ends the response like success.          *)
CopyFailed_Returns(q) ==
  /\ At(q, "fail")
  /\ timer' = [timer EXCEPT ![q] = stop(@)]
  /\ n' = [n EXCEPT ![q].shown = n[q].written]
  /\ client' = [client EXCEPT ![q] = IF Left(q) THEN @ ELSE BodyEnds(q)]
  /\ Goto(q, "done")
  /\ UNCHANGED <<control, on, hdr, body, tunnel>>

(* ErrAbortHandler: the server cuts the connection, flushing nothing.      *)
CopyFailed(q) ==
  /\ At(q, "fail")
  /\ timer' = [timer EXCEPT ![q] = stop(@)]
  /\ client' = [client EXCEPT ![q] = IF Left(q) THEN @ ELSE "cut"]
  /\ Goto(q, "aborted")
  /\ UNCHANGED <<control, on, hdr, body, n, tunnel>>

(* StopCh ended the copy: Copy_io says nil and the handler returns.        *)
CopyStopped(q) ==
  /\ At(q, "return")
  /\ timer' = [timer EXCEPT ![q] = stop(@)]
  /\ n' = [n EXCEPT ![q].shown = n[q].written]
  /\ client' = [client EXCEPT ![q] = IF Left(q) THEN @ ELSE BodyEnds(q)]
  /\ Goto(q, "done")
  /\ UNCHANGED <<control, on, hdr, body, tunnel>>

-----------------------------------------------------------------------------
(* handleUpgradeResponse *)

(* The client's connection is hijacked and the header of the response      *)
(* written as it came, unless the client is gone.                          *)
Hijacks(q, h) ==
  /\ \/ /\ Goto(q, "tunnel") /\ hdr' = [hdr EXCEPT ![q] = Sent("switch", h, h)]
        /\ tunnel' = [tunnel EXCEPT ![q] = [up |-> "select", down |-> "select", back |-> "open"]]
     \/ /\ Goto(q, "done") /\ forgetHdr(q)
        /\ tunnel' = [tunnel EXCEPT ![q].back = "open"]
  /\ UNCHANGED <<control, on, stream, client>>

(* A body that can be written to comes with a switch of protocols only.    *)
Switches(q) ==
  /\ At(q, "roundtrip")
  /\ \E h \in ResHeader :
       IF upgradeType(h) # "" /\ upgradeType(h) = upgradeType(hdr[q].to)
         THEN Hijacks(q, h) ELSE errorHandler(q)

TunnelGoto(q, d, l) == tunnel' = [tunnel EXCEPT ![q][d] = l]
tunnelled == <<control, on, hdr, stream, client>>

TunnelSelects(q, d) ==
  /\ tunnel[q][d] = "select"
  /\ TunnelGoto(q, d, IF Stopped THEN "end" ELSE "read")
  /\ UNCHANGED <<pc, tunnelled>>

TunnelReads(q, d) ==
  /\ tunnel[q][d] = "read" /\ At(q, "tunnel")
  /\ d = "up" => ~Left(q)
  /\ TunnelGoto(q, d, "write")
  /\ UNCHANGED <<pc, tunnelled>>

(* No write has a deadline: it may wait for a peer that does not read.     *)
TunnelWrites(q, d) ==
  /\ tunnel[q][d] = "write" /\ At(q, "tunnel")
  /\ d = "down" => ~Left(q)
  /\ TunnelGoto(q, d, "select")
  /\ UNCHANGED <<pc, tunnelled>>

(* Its peer ended, or somebody closed one of its sockets.                  *)
TunnelFails(q, d) ==
  /\ tunnel[q][d] \in {"read", "write"}
  /\ TunnelGoto(q, d, "end")
  /\ UNCHANGED <<pc, tunnelled>>

(* Mutant: the handler waits for the other copy.                           *)
TunnelReturns_Down(q) ==
  /\ At(q, "tunnel") /\ tunnel[q].down = "end"
  /\ Goto(q, "done") /\ forgetHdr(q)
  /\ UNCHANGED <<control, on, stream, tunnel, client>>

(* The upward copy is the handler's own; the deferred calls close the      *)
(* client's connection and backConnCloseCh ...                             *)
TunnelReturns(q) ==
  /\ At(q, "tunnel") /\ tunnel[q].up = "end"
  /\ Goto(q, "done") /\ forgetHdr(q)
  /\ UNCHANGED <<control, on, stream, tunnel, client>>

(* ... on which the goroutine that waits for it closes the backend.        *)
BackCloses(q) ==
  /\ At(q, "done") /\ tunnel[q].back = "open"
  /\ TunnelGoto(q, "back", "end")
  /\ UNCHANGED <<pc, tunnelled>>

(* Once its response has ended a client goes its own way.                  *)
ClientLeaves(q) ==
  /\ pc[q] \notin Over \cup {"none"} /\ client[q] = "waits"
  /\ client' = [client EXCEPT ![q] = "left"]
  /\ UNCHANGED <<control, pc, on, hdr, stream, tunnel>>

-----------------------------------------------------------------------------
Control == ServeMakesStopCh \/ RunHttpServer \/ CloseStopCh \/ ShutdownReturns \/ CloseReturns

CopyEnds(q) == CopyFailed(q) \/ CopyStopped(q)
Flushes(q) == TimerFires(q) \/ delayedFlush(q)

Handle(q) == \/ DropsIdle(q) \/ ServeHTTP(q) \/ RoundTripFails(q) \/ Responds(q) \/ Switches(q)
             \/ CopySelects(q) \/ CopyReads(q) \/ CopyReadFails(q)
             \/ CopyWrites(q) \/ CopyWriteFails(q) \/ CopyEnds(q)
             \/ \E d \in Dir : \/ TunnelSelects(q, d) \/ TunnelReads(q, d)
                              \/ TunnelWrites(q, d) \/ TunnelFails(q, d)
             \/ TunnelReturns(q) \/ BackCloses(q)

HttpNext == Control \/ \E q \in Req : Connects(q) \/ Handle(q) \/ Flushes(q) \/ ClientLeaves(q)

HttpSpec == Init /\ [][HttpNext]_vars

(* Goroutines and timers that can run do, and what waits for a client that *)
(* left, or for a socket somebody closed, is told.  Backends and clients   *)
(* owe nothing: a round trip, a read and a write may wait for ever.        *)
HttpFairness ==
  /\ WF_vars(Control /\ ctl # "up")
  /\ \A q \in Req :
       /\ WF_vars(CopySelects(q) \/ CopyWriteFails(q) \/ CopyEnds(q))
       /\ WF_vars(DropsIdle(q)) /\ WF_vars(Flushes(q))
       /\ WF_vars(Left(q) /\ (RoundTripFails(q) \/ CopyReadFails(q)))
       /\ WF_vars(TunnelReturns(q)) /\ WF_vars(BackCloses(q))
       /\ \A d \in Dir : WF_vars(TunnelSelects(q, d))
       /\ WF_vars(tunnel[q].up = "read" /\ Left(q) /\ TunnelFails(q, "up"))
       /\ WF_vars(tunnel[q].back = "end" /\ TunnelFails(q, "down"))
       /\ WF_vars(tunnel[q].down = "write" /\ Left(q) /\ TunnelFails(q, "down"))

-----------------------------------------------------------------------------
(* Properties *)

(* Whoever has got a response that looks complete has got all of it: an    *)
(* error while copying is made visible by cutting the connection.  Only    *)
(* Close() ends a streamed body early that looks whole to its client, for  *)
(* Copy_io then says nil (resversproxy.go:345-356, relay.go:257-259).      *)
TruncationIsVisible ==
  \A q \in Req : client[q] = "whole" /\ n[q].shown < body[q].chunks =>
    body[q].kind = "streamed" /\ on[q] \in closed

(* No header that is meant for one hop only goes further, not even one     *)
(* that only Connection names: the names are collected before Connection   *)
(* is deleted.  By design a switch of protocols is asked for again, and so *)
(* are trailers, and `Te: trailers' stays.  What the code lets through is  *)
(* a header whose first value is empty, and the whole header of a response *)
(* that switches protocols (resversproxy.go:260-288, 319-341, 569-574).    *)
ForOneHop(h) == hopHeaders \cup h.listed
Exempt(from, to, x) ==
  \/ x = "X-Forwarded-For"
  \/ x = "Trailer" /\ from.trailers # {}
  \/ x \in {"Connection", "Upgrade"} /\ upgradeType(from) # "" /\ upgradeType(to) = upgradeType(from)
  \/ x \notin from.listed /\ Get(to, x) \in {"", IF x = "Te" THEN "trailers" ELSE ""}
OneHopOnly ==
  \A q \in Req : hdr[q].what # "switch" =>
    \A x \in ForOneHop(hdr[q].from) \cap DOMAIN hdr[q].to.val :
      Exempt(hdr[q].from, hdr[q].to, x)

(* The timer's goroutine may run when the handler has returned and the     *)
(* response belongs to nobody: it flushes nothing then                     *)
(* (resversproxy.go:504-521).                                              *)
NoFlushAfterReturn == [][\A q \in Req : pc[q] \in Over => n'[q].shown = n[q].shown]_vars

(* What a streaming backend has sent is with the client while the copy     *)
(* waits for more, the header too: nothing stays in a buffer of the server *)
(* (resversproxy.go:417-447).                                              *)
StreamShown ==
  \A q \in Req : At(q, "read") /\ body[q].kind = "streamed" ~>
    ~At(q, "read") \/ n[q].shown = n[q].written

(* Close() hangs in Shutdown() for one reason only, a request of this      *)
(* server whose backend or client is silent; tunnels and connections that  *)
(* ask for nothing do not hold it up (relay.go:197-199).                   *)
WaitsForPeer(q) == on[q] = svr /\ pc[q] \in {"roundtrip", "read", "write"}
ShutdownEnds == <>[](ctl = "shutdown") => \E q \in Req : <>[]WaitsForPeer(q)

(* When the client of a tunnel leaves, its backend's connection is closed  *)
(* and both copies end, though neither closes what it copies; unless the   *)
(* upward copy is stuck in its write, to a backend that lives and does not *)
(* read (resversproxy.go:549-590, relay.go:266).                           *)
TunnelEnds ==
  \A q \in Req :
    \/ At(q, "tunnel") /\ Left(q) ~> \A d \in Dir \cup {"back"} : tunnel[q][d] = "end"
    \/ <>[](tunnel[q].up = "write")

(* What the code says: `Its response is then copied back to the original   *)
(* client unmodified' (resversproxy.go:46-47).  A response of known length *)
(* that was read to its end, for a client that waits and a relay that      *)
(* nobody closed, arrives whole.                                           *)
CopiedBack ==
  \A q \in Req : /\ pc[q] \in Over /\ body[q].kind = "sized" /\ n[q].read = body[q].chunks
                 /\ n[q].read > 0 /\ on[q] \notin closed
                 => client[q] \in {"whole", "left"}

=============================================================================

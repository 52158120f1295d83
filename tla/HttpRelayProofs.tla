--------------------------- MODULE HttpRelayProofs ---------------------------
(***************************************************************************)
(* The web relays.  The http relay for any number of requests, calls of    *)
(* Serve(), headers and chunks: type correctness, whom Close() may show a  *)
(* shortened response as a whole one, that no timer flushes the response   *)
(* of a handler that has returned, and which headers go further than one   *)
(* hop.  The https relay for any records: the remote gets what the client  *)
(* sent, and in a well-formed ClientHello the search finds the name.       *)
(***************************************************************************)
EXTENDS HttpRelay, HttpsHello, SequenceTheorems, TLAPS

(* A StopCh is closed by the Close() that follows its Serve(), and a       *)
(* server accepts only connections that its own Close() can stop.          *)
ControlInv ==
  /\ ctl \in {"serve", "listen", "up", "shutdown", "close", "gone"}
  /\ cur \in 0 .. MaxServe /\ svr \in 0 .. cur
  /\ ctl = "serve" => cur < MaxServe
  /\ ctl # "serve" => 1 <= cur
  /\ closed = IF ctl \in {"listen", "up"} THEN 1 .. (cur - 1) ELSE 1 .. cur
  /\ open \subseteq {svr} /\ open \subseteq 1 .. cur

PcInv ==
  /\ pc \in [Req -> ReqPc] /\ on \in [Req -> 0 .. cur]
  /\ \A q \in Req : pc[q] # "none" => on[q] \in 1 .. cur

(* A timer is set up for a copy and stopped when the copy ends.            *)
NoCopy == {"none", "conn", "roundtrip", "tunnel"}
TimerInv ==
  /\ timer \in [Req -> [t : {"off", "armed", "fired"}, pending : BOOLEAN]]
  /\ \A q \in Req : /\ pc[q] \in NoCopy => timer[q].t = "off"
                    /\ pc[q] \in NoCopy \cup Over => timer[q].pending = FALSE

Copying == {"select", "read", "write", "fail", "return"}
BodyInv ==
  /\ body \in [Req -> [kind : {"none", "sized", "streamed"}, chunks : Nat]]
  /\ \A q \in Req : /\ body[q].chunks \in 0 .. MaxChunk[q]
                    /\ pc[q] \in Copying => body[q].kind \in {"sized", "streamed"}

CountInv ==
  /\ n \in [Req -> [read : Nat, written : Nat, shown : Int]]
  /\ \A q \in Req : /\ -1 <= n[q].shown /\ n[q].shown <= n[q].written
                    /\ n[q].written <= n[q].read /\ n[q].read <= body[q].chunks
                    /\ pc[q] \in {"none", "conn", "roundtrip"} => n[q].read = 0
                    /\ pc[q] = "write" => n[q].written < n[q].read

TunnelInv == tunnel \in [Req -> [Dir \cup {"back"} -> {"off", "select", "read", "write", "open", "end"}]]

(* A copy returns without an error only once its StopCh is closed.         *)
StopInv == \A q \in Req : pc[q] = "return" => on[q] \in closed

ClientInv ==
  /\ client \in [Req -> {"waits", "whole", "cut", "error", "left"}]
  /\ \A q \in Req : client[q] = "whole" =>
       /\ pc[q] \in Over
       /\ n[q].shown < body[q].chunks => body[q].kind = "streamed" /\ on[q] \in closed

(* What a goroutine passed on last.                                        *)
PassedOn ==
  {Nothing}
    \cup {Sent("request", h, Outgoing(h)) : h \in ReqHeader}
    \cup {Sent("response", h, Returned(h)) : h \in ResHeader}
    \cup {Sent("switch", h, h) : h \in ResHeader}
HeaderInv == hdr \in [Req -> PassedOn]

TunnelMoves(q, d) == \/ TunnelSelects(q, d) \/ TunnelReads(q, d)
                     \/ TunnelWrites(q, d) \/ TunnelFails(q, d)

-----------------------------------------------------------------------------
(* The control goroutine *)

LEMMA ControlInit == Init => ControlInv
  BY HttpAssumption DEF Init, ControlInv

OfRequest(q) == Connects(q) \/ Handle(q) \/ Flushes(q) \/ ClientLeaves(q)

LEMMA RequestsKeepControl ==
  ASSUME NEW q \in Req, OfRequest(q) PROVE UNCHANGED control
  BY DEF OfRequest, Connects, Handle, Flushes, ClientLeaves, DropsIdle, ServeHTTP, RoundTripFails,
     errorHandler, Responds, Switches, Hijacks, CopySelects, CopyReads, CopyReadFails, CopyWrites,
     CopyWriteFails, CopyEnds, CopyFailed, CopyStopped, TimerFires, delayedFlush, TunnelSelects,
     TunnelReads, TunnelWrites, TunnelFails, TunnelReturns, BackCloses, tunnelled

LEMMA ControlKeepsRequests ==
  Control => UNCHANGED <<pc, on, hdr, stream, tunnel, client>>
  BY DEF Control, ServeMakesStopCh, RunHttpServer, CloseStopCh, ShutdownReturns, CloseReturns

LEMMA Steps ==
  ASSUME [HttpNext]_vars
  PROVE  \/ UNCHANGED vars
         \/ Control
         \/ \E q \in Req : OfRequest(q)
  BY DEF HttpNext, OfRequest

LEMMA ControlSteps == ControlInv /\ [HttpNext]_vars => ControlInv'
<1> SUFFICES ASSUME ControlInv, [HttpNext]_vars PROVE ControlInv'
  OBVIOUS
<1> USE HttpAssumption
<1>1. CASE ServeMakesStopCh
  BY <1>1 DEF ServeMakesStopCh, ControlInv
<1>2. CASE RunHttpServer
  <2>1. /\ ctl = "listen" /\ ctl' = "up" /\ cur' = cur /\ closed' = closed
        /\ (svr' = cur /\ open' = {cur}) \/ (svr' = svr /\ open' = open)
    BY <1>2 DEF RunHttpServer
  <2>2. /\ cur \in 0 .. MaxServe /\ svr \in 0 .. cur /\ 1 <= cur
        /\ closed = 1 .. (cur - 1) /\ open \subseteq {svr} /\ open \subseteq 1 .. cur
    BY <2>1 DEF ControlInv
  <2>3. svr' \in 0 .. cur' /\ open' \subseteq {svr'} /\ open' \subseteq 1 .. cur'
    <3>1. CASE svr' = cur /\ open' = {cur}
      <4>1. cur \in Nat /\ cur \in 0 .. cur /\ cur \in 1 .. cur
        BY <2>2
      <4> QED
        BY <2>1, <3>1, <4>1
    <3>2. CASE svr' = svr /\ open' = open
      BY <2>1, <2>2, <3>2
    <3> QED
      BY <2>1, <3>1, <3>2
  <2> QED
    BY <2>1, <2>2, <2>3 DEF ControlInv
<1>3. CASE CloseStopCh
  BY <1>3 DEF CloseStopCh, ControlInv
<1>4. CASE ShutdownReturns
  BY <1>4 DEF ShutdownReturns, ControlInv
<1>5. CASE CloseReturns
  BY <1>5 DEF CloseReturns, ControlInv
<1>6. CASE UNCHANGED control
  BY <1>6 DEF control, ControlInv
<1> QED
  BY <1>1, <1>2, <1>3, <1>4, <1>5, <1>6, Steps, RequestsKeepControl DEF Control, vars

LEMMA ClosedGrows ==
  ASSUME ControlInv, [HttpNext]_vars
  PROVE  closed \subseteq closed' /\ cur' \in Nat /\ cur <= cur'
<1>1. CASE Control
  BY <1>1 DEF Control, ControlInv, ServeMakesStopCh, RunHttpServer, CloseStopCh, ShutdownReturns,
     CloseReturns
<1>2. CASE UNCHANGED control
  BY <1>2 DEF control, ControlInv
<1> QED
  BY <1>1, <1>2, Steps, RequestsKeepControl DEF vars

-----------------------------------------------------------------------------
(* The goroutines of the requests *)

(* How one request moves: it keeps its server once it has one, and is      *)
(* never again "none".                                                     *)
Moves(q) ==
  \/ UNCHANGED <<pc, on>>
  \/ /\ \E l \in ReqPc \ {"none"} : pc' = [pc EXCEPT ![q] = l]
     /\ on' = on /\ pc[q] # "none"
  \/ pc' = [pc EXCEPT ![q] = "conn"] /\ on' = [on EXCEPT ![q] = svr] /\ svr \in open

LEMMA RequestMoves == ASSUME NEW q \in Req, OfRequest(q) PROVE Moves(q)
<1> USE DEF At, Goto, Moves, ReqPc, Over
<1>1. CASE Connects(q)
  BY <1>1 DEF Connects
<1>2. CASE Flushes(q) \/ ClientLeaves(q)
  BY <1>2 DEF Flushes, TimerFires, delayedFlush, ClientLeaves
<1>3. CASE DropsIdle(q) \/ ServeHTTP(q) \/ RoundTripFails(q) \/ Responds(q) \/ Switches(q)
  BY <1>3 DEF DropsIdle, ServeHTTP, RoundTripFails, errorHandler, Responds, Switches, Hijacks
<1>4. CASE \/ CopySelects(q) \/ CopyReads(q) \/ CopyReadFails(q)
           \/ CopyWrites(q) \/ CopyWriteFails(q) \/ CopyEnds(q)
  BY <1>4 DEF CopySelects, CopyReads, CopyReadFails, CopyWrites, CopyWriteFails, CopyEnds,
     CopyFailed, CopyStopped
<1>5. CASE \E d \in Dir : TunnelMoves(q, d)
  BY <1>5 DEF TunnelMoves, TunnelSelects, TunnelReads, TunnelWrites, TunnelFails, tunnelled
<1>6. CASE TunnelReturns(q) \/ BackCloses(q)
  BY <1>6 DEF TunnelReturns, BackCloses, tunnelled
<1> QED
  BY <1>1, <1>2, <1>3, <1>4, <1>5, <1>6 DEF TunnelMoves, OfRequest, Handle

LEMMA PcInit == Init => PcInv
  BY DEF Init, PcInv, ReqPc

LEMMA PcSteps == ControlInv /\ PcInv /\ [HttpNext]_vars => PcInv'
<1> SUFFICES ASSUME ControlInv, PcInv, [HttpNext]_vars PROVE PcInv'
  OBVIOUS
<1>1. cur \in Nat /\ cur' \in Nat /\ cur <= cur'
  BY ClosedGrows DEF ControlInv
<1>2. CASE UNCHANGED <<pc, on>>
  BY <1>1, <1>2 DEF PcInv
<1>3. ASSUME NEW q \in Req, Moves(q) PROVE PcInv'
  BY <1>1, <1>3 DEF PcInv, ControlInv, Moves, ReqPc
<1> QED
  BY <1>2, <1>3, Steps, RequestMoves, ControlKeepsRequests DEF vars

(* Only its own goroutine moves a request, so that what holds of the       *)
(* others is not disturbed.                                                *)
LEMMA StopSteps ==
  ControlInv /\ PcInv /\ StopInv /\ [HttpNext]_vars => StopInv'
<1> SUFFICES ASSUME ControlInv, PcInv, StopInv, [HttpNext]_vars PROVE StopInv'
  OBVIOUS
<1>1. closed \subseteq closed'
  BY ClosedGrows
<1>2. CASE UNCHANGED <<pc, on>>
  BY <1>1, <1>2 DEF StopInv
<1>3. ASSUME NEW q \in Req, OfRequest(q) PROVE StopInv'
  <2>1. CASE pc'[q] # "return"
    BY <1>1, <1>3, <2>1, RequestMoves DEF Moves, PcInv, StopInv, ReqPc
  <2>2. CASE pc[q] = "return" /\ pc' = pc
    BY <1>1, <1>3, <2>2, RequestMoves DEF Moves, PcInv, StopInv
  <2>3. CASE CopySelects(q)
    BY <1>1, <2>3 DEF CopySelects, PcInv, StopInv, ControlInv, Stopped, Goto, At
  <2>4. \/ pc'[q] # "return" \/ pc' = pc \/ CopySelects(q)
    BY <1>3 DEF OfRequest, Connects, Handle, Flushes, ClientLeaves, DropsIdle, ServeHTTP,
       RoundTripFails, errorHandler, Responds, Switches, Hijacks, CopyReads, CopyReadFails,
       CopyWrites, CopyWriteFails, CopyEnds, CopyFailed, CopyStopped, TimerFires, delayedFlush,
       TunnelSelects, TunnelReads, TunnelWrites, TunnelFails, TunnelReturns, BackCloses, tunnelled, Goto,
       PcInv
  <2> QED
    BY <2>1, <2>2, <2>3, <2>4
<1> QED
  BY <1>2, <1>3, Steps, ControlKeepsRequests DEF vars

(* What the other requests keep: every action of q leaves their timers,    *)
(* bodies, counts and clients alone.                                       *)
LEMMA TimerInit == Init => TimerInv
  BY DEF Init, TimerInv, NoCopy, Over

LEMMA TimerSteps == PcInv /\ TimerInv /\ [HttpNext]_vars => TimerInv'
<1> SUFFICES ASSUME PcInv, TimerInv, [HttpNext]_vars PROVE TimerInv'
  OBVIOUS
<1>1. CASE UNCHANGED <<pc, timer>>
  BY <1>1 DEF TimerInv, NoCopy, Over
<1>2. ASSUME NEW q \in Req, OfRequest(q) PROVE TimerInv'
  <2> USE DEF PcInv, TimerInv, NoCopy, Over, At, Goto
  <2>1. CASE Connects(q)
    BY <2>1 DEF Connects, stream
  <2>2. CASE DropsIdle(q) \/ ServeHTTP(q) \/ RoundTripFails(q) \/ Switches(q)
    BY <2>2 DEF DropsIdle, ServeHTTP, RoundTripFails, errorHandler, Switches, Hijacks, stream
  <2>3. CASE Responds(q)
    BY <2>3 DEF Responds
  <2>4. CASE CopySelects(q) \/ CopyReads(q) \/ CopyReadFails(q) \/ CopyWrites(q) \/ CopyWriteFails(q)
    BY <2>4 DEF CopySelects, CopyReads, CopyReadFails, CopyWrites, CopyWriteFails, stream
  <2>5. CASE CopyEnds(q)
    <3>1. /\ pc' \in {[pc EXCEPT ![q] = "done"], [pc EXCEPT ![q] = "aborted"]}
          /\ timer' = [timer EXCEPT ![q] = stop(timer[q])] /\ timer[q].pending \in BOOLEAN
      BY <2>5 DEF CopyEnds, CopyFailed, CopyStopped
    <3>2. /\ stop(timer[q]) \in [t : {"off", "armed", "fired"}, pending : BOOLEAN]
          /\ stop(timer[q]).pending = FALSE
      BY DEF stop
    <3> QED
      BY <3>1, <3>2
  <2>6. CASE Flushes(q)
    <3> DEFINE r == [timer[q] EXCEPT !.t = "fired"]
    <3>1. \/ timer[q].t # "off" /\ timer' = [timer EXCEPT ![q] = r]
          \/ timer' = [timer EXCEPT ![q] = [t |-> "off", pending |-> FALSE]]
      BY <2>6 DEF Flushes, TimerFires, delayedFlush
    <3>2. timer[q] \in [t : {"off", "armed", "fired"}, pending : BOOLEAN]
      OBVIOUS
    <3>3. r = [t |-> "fired", pending |-> timer[q].pending]
      BY <3>2
    <3>4. pc' = pc
      BY <2>6 DEF Flushes, TimerFires, delayedFlush
    <3>5. CASE timer' = [timer EXCEPT ![q] = [t |-> "off", pending |-> FALSE]]
      BY <3>4, <3>5
    <3>6. CASE /\ timer[q].t # "off"
               /\ timer' = [timer EXCEPT ![q] = [t |-> "fired", pending |-> timer[q].pending]]
      <4>1. timer[q].pending \in BOOLEAN
        BY <3>2
      <4>2. timer' \in [Req -> [t : {"off", "armed", "fired"}, pending : BOOLEAN]]
        BY <3>6, <4>1
      <4>3. \A p \in Req : timer'[p].pending = timer[p].pending /\ (p # q => timer'[p] = timer[p])
        BY <3>6
      <4> QED
        BY <3>4, <3>6, <4>2, <4>3
    <3> HIDE DEF r
    <3> QED
      BY <3>1, <3>3, <3>5, <3>6
  <2>7. CASE ClientLeaves(q)
    BY <2>7 DEF ClientLeaves, stream
  <2>8. CASE \E d \in Dir : TunnelMoves(q, d)
    BY <2>8 DEF TunnelMoves, TunnelSelects, TunnelReads, TunnelWrites, TunnelFails, tunnelled, stream
  <2>9. CASE TunnelReturns(q) \/ BackCloses(q)
    BY <2>9 DEF TunnelReturns, BackCloses, tunnelled, stream
  <2> QED
    BY <1>2, <2>1, <2>2, <2>3, <2>4, <2>5, <2>6, <2>7, <2>8, <2>9 DEF TunnelMoves, OfRequest, Handle
<1> QED
  BY <1>1, <1>2, Steps, ControlKeepsRequests DEF vars, stream

LEMMA BodyInit == Init => BodyInv
  BY HttpAssumption DEF Init, BodyInv, Copying

LEMMA BodySteps == PcInv /\ BodyInv /\ [HttpNext]_vars => BodyInv'
<1> SUFFICES ASSUME PcInv, BodyInv, [HttpNext]_vars PROVE BodyInv'
  OBVIOUS
<1>1. CASE UNCHANGED <<pc, body>>
  BY <1>1 DEF BodyInv, Copying
<1>2. ASSUME NEW q \in Req, OfRequest(q) PROVE BodyInv'
  <2> USE DEF PcInv, BodyInv, Copying, At, Goto
  <2>1. CASE Connects(q)
    BY <2>1 DEF Connects, stream
  <2>2. CASE DropsIdle(q) \/ ServeHTTP(q) \/ RoundTripFails(q) \/ Switches(q)
    BY <2>2 DEF DropsIdle, ServeHTTP, RoundTripFails, errorHandler, Switches, Hijacks, stream
  <2>3. CASE Responds(q)
    BY <2>3, HttpAssumption DEF Responds
  <2>4. CASE CopySelects(q) \/ CopyReads(q) \/ CopyReadFails(q) \/ CopyWrites(q) \/ CopyWriteFails(q)
    BY <2>4 DEF CopySelects, CopyReads, CopyReadFails, CopyWrites, CopyWriteFails, stream
  <2>5. CASE CopyEnds(q)
    BY <2>5 DEF CopyEnds, CopyFailed, CopyStopped
  <2>6. CASE Flushes(q) \/ ClientLeaves(q)
    BY <2>6 DEF Flushes, TimerFires, delayedFlush, ClientLeaves, stream
  <2>7. CASE \E d \in Dir : TunnelMoves(q, d)
    BY <2>7 DEF TunnelMoves, TunnelSelects, TunnelReads, TunnelWrites, TunnelFails, tunnelled, stream
  <2>8. CASE TunnelReturns(q) \/ BackCloses(q)
    BY <2>8 DEF TunnelReturns, BackCloses, tunnelled, stream
  <2> QED
    BY <1>2, <2>1, <2>2, <2>3, <2>4, <2>5, <2>6, <2>7, <2>8 DEF TunnelMoves, OfRequest, Handle
<1> QED
  BY <1>1, <1>2, Steps, ControlKeepsRequests DEF vars, stream

(* The counts, field by field.                                             *)
LEMMA CountsOf ==
  ASSUME CountInv, NEW q \in Req
  PROVE  /\ n[q].read \in Nat /\ n[q].written \in Nat /\ n[q].shown \in Int
         /\ n = [n EXCEPT ![q] = [read |-> n[q].read, written |-> n[q].written, shown |-> n[q].shown]]
  BY DEF CountInv

LEMMA ReadsOne ==
  ASSUME CountInv, NEW q \in Req, CopyReads(q)
  PROVE  n' = [n EXCEPT ![q] = [read |-> n[q].read + 1, written |-> n[q].written,
                                shown |-> n[q].shown]]
<1> DEFINE r == [n[q] EXCEPT !.read = @ + 1]
<1>1. n' = [n EXCEPT ![q] = r]
  BY DEF CopyReads
<1>2. n[q] \in [read : Nat, written : Nat, shown : Int]
  BY DEF CountInv
<1>3. r = [read |-> n[q].read + 1, written |-> n[q].written, shown |-> n[q].shown]
  BY <1>2
<1> QED
  BY <1>1, <1>3

LEMMA WritesOne ==
  ASSUME CountInv, NEW q \in Req, CopyWrites(q)
  PROVE  \E s \in {n[q].shown, n[q].written + 1} :
           n' = [n EXCEPT ![q] = [read |-> n[q].read, written |-> n[q].written + 1, shown |-> s]]
  BY DEF CopyWrites, CountInv

LEMMA ShowsAll ==
  ASSUME CountInv, NEW q \in Req, delayedFlush(q) \/ CopyEnds(q)
  PROVE  \/ n' = n
         \/ n' = [n EXCEPT ![q] = [read |-> n[q].read, written |-> n[q].written,
                                   shown |-> n[q].written]]
<1> DEFINE r == [n[q] EXCEPT !.shown = n[q].written]
<1>1. n' = n \/ n' = [n EXCEPT ![q] = r]
  BY DEF delayedFlush, CopyEnds, CopyFailed, CopyStopped
<1>2. n[q] \in [read : Nat, written : Nat, shown : Int]
  BY DEF CountInv
<1>3. r = [read |-> n[q].read, written |-> n[q].written, shown |-> n[q].written]
  BY <1>2
<1> QED
  BY <1>1, <1>3

LEMMA CountInit == Init => CountInv
  BY HttpAssumption DEF Init, CountInv

LEMMA CountSteps == PcInv /\ BodyInv /\ CountInv /\ [HttpNext]_vars => CountInv'
<1> SUFFICES ASSUME PcInv, BodyInv, CountInv, [HttpNext]_vars PROVE CountInv'
  OBVIOUS
<1>1. CASE UNCHANGED <<pc, body, n>>
  BY <1>1 DEF CountInv
<1>2. ASSUME NEW q \in Req, OfRequest(q) PROVE CountInv'
  <2> USE DEF PcInv, BodyInv, CountInv, At, Goto
  <2>1. CASE Connects(q)
    BY <2>1 DEF Connects, stream
  <2>2. CASE DropsIdle(q) \/ ServeHTTP(q) \/ RoundTripFails(q) \/ Switches(q)
    BY <2>2 DEF DropsIdle, ServeHTTP, RoundTripFails, errorHandler, Switches, Hijacks, stream, Over
  <2>3. CASE Responds(q)
    BY <2>3, HttpAssumption DEF Responds
  <2>4. CASE CopySelects(q) \/ CopyReadFails(q) \/ CopyWriteFails(q)
    BY <2>4 DEF CopySelects, CopyReadFails, CopyWriteFails, stream
  <2>5. CASE CopyReads(q)
    BY <2>5, ReadsOne DEF CopyReads
  <2>6. CASE CopyWrites(q)
    <3>1. PICK s \in {n[q].shown, n[q].written + 1} :
            n' = [n EXCEPT ![q] = [read |-> n[q].read, written |-> n[q].written + 1, shown |-> s]]
      BY <2>6, WritesOne
    <3>2. n[q].written < n[q].read /\ pc' = [pc EXCEPT ![q] = "select"] /\ body' = body
      BY <2>6 DEF CopyWrites
    <3> QED
      BY <3>1, <3>2
  <2>7. CASE CopyEnds(q)
    <3>1. pc' \in {[pc EXCEPT ![q] = "done"], [pc EXCEPT ![q] = "aborted"]} /\ body' = body
      BY <2>7 DEF CopyEnds, CopyFailed, CopyStopped
    <3> QED
      BY <2>7, <3>1, ShowsAll
  <2>8. CASE delayedFlush(q)
    <3>1. pc' = pc /\ body' = body
      BY <2>8 DEF delayedFlush
    <3> QED
      BY <2>8, <3>1, ShowsAll
  <2>9. CASE TimerFires(q) \/ ClientLeaves(q)
    BY <2>9 DEF TimerFires, ClientLeaves, stream
  <2>10. CASE \E d \in Dir : TunnelMoves(q, d)
    BY <2>10 DEF TunnelMoves, TunnelSelects, TunnelReads, TunnelWrites, TunnelFails, tunnelled, stream
  <2>11. CASE TunnelReturns(q) \/ BackCloses(q)
    BY <2>11 DEF TunnelReturns, BackCloses, tunnelled, stream
  <2> QED
    BY <1>2, <2>1, <2>2, <2>3, <2>4, <2>5, <2>6, <2>7, <2>8, <2>9, <2>10, <2>11
    DEF TunnelMoves, OfRequest, Handle, Flushes
<1> QED
  BY <1>1, <1>2, Steps, ControlKeepsRequests DEF vars, stream

TunnelPc == {"off", "select", "read", "write", "open", "end"}

LEMMA TunnelInit == Init => TunnelInv
  BY DEF Init, TunnelInv

(* Assigning one copy, or the watcher, keeps the type.                     *)
LEMMA TunnelPoint ==
  ASSUME TunnelInv, NEW q \in Req, NEW d \in Dir \cup {"back"}, NEW l \in TunnelPc,
         tunnel' = [tunnel EXCEPT ![q][d] = l]
  PROVE  TunnelInv'
<1> DEFINE r == [tunnel[q] EXCEPT ![d] = l]
<1>1. tunnel' = [tunnel EXCEPT ![q] = r]
  OBVIOUS
<1>2. tunnel[q] \in [Dir \cup {"back"} -> TunnelPc]
  BY DEF TunnelInv, TunnelPc
<1>3. r \in [Dir \cup {"back"} -> TunnelPc]
  BY <1>2
<1> HIDE DEF r
<1> QED
  BY <1>1, <1>3 DEF TunnelInv, TunnelPc

LEMMA TunnelSteps == TunnelInv /\ [HttpNext]_vars => TunnelInv'
<1> SUFFICES ASSUME TunnelInv, [HttpNext]_vars PROVE TunnelInv'
  OBVIOUS
<1>1. CASE UNCHANGED tunnel
  BY <1>1 DEF TunnelInv
<1>2. ASSUME NEW q \in Req, OfRequest(q) PROVE TunnelInv'
  <2>1. CASE Connects(q) \/ Flushes(q) \/ ClientLeaves(q)
    BY <1>1, <2>1 DEF Connects, Flushes, TimerFires, delayedFlush, ClientLeaves
  <2>2. CASE \/ DropsIdle(q) \/ ServeHTTP(q) \/ RoundTripFails(q) \/ Responds(q)
             \/ CopySelects(q) \/ CopyReads(q) \/ CopyReadFails(q)
             \/ CopyWrites(q) \/ CopyWriteFails(q) \/ CopyEnds(q) \/ TunnelReturns(q)
    BY <1>1, <2>2 DEF DropsIdle, ServeHTTP, RoundTripFails, errorHandler, Responds, CopySelects,
       CopyReads, CopyReadFails, CopyWrites, CopyWriteFails, CopyEnds, CopyFailed, CopyStopped,
       TunnelReturns
  <2>3. CASE Switches(q)
    <3> DEFINE start == [up |-> "select", down |-> "select", back |-> "open"]
    <3>1. \/ UNCHANGED tunnel
          \/ tunnel' = [tunnel EXCEPT ![q] = start]
          \/ tunnel' = [tunnel EXCEPT ![q]["back"] = "open"]
      BY <2>3 DEF Switches, Hijacks, errorHandler
    <3>2. start \in [Dir \cup {"back"} -> TunnelPc]
      BY DEF Dir, TunnelPc
    <3>3. CASE tunnel' = [tunnel EXCEPT ![q] = start]
      <4> HIDE DEF start
      <4> QED
        BY <3>2, <3>3 DEF TunnelInv, TunnelPc
    <3> QED
      BY <1>1, <3>1, <3>3, TunnelPoint DEF TunnelPc
  <2>4. CASE \E d \in Dir : TunnelMoves(q, d)
    <3>1. PICK d \in Dir : TunnelMoves(q, d)
      BY <2>4
    <3>2. \E l \in TunnelPc : tunnel' = [tunnel EXCEPT ![q][d] = l]
      BY <3>1 DEF TunnelMoves, TunnelSelects, TunnelReads, TunnelWrites, TunnelFails, TunnelGoto, TunnelPc
    <3> QED
      BY <3>2, TunnelPoint
  <2>5. CASE BackCloses(q)
    BY <2>5, TunnelPoint DEF BackCloses, TunnelGoto, TunnelPc
  <2> QED
    BY <1>2, <2>1, <2>2, <2>3, <2>4, <2>5 DEF TunnelMoves, OfRequest, Handle
<1> QED
  BY <1>1, <1>2, Steps, ControlKeepsRequests DEF vars

LEMMA ClientInit == Init => ClientInv
  BY DEF Init, ClientInv

(* The parts together.                                                     *)
RequestInv == PcInv /\ TimerInv /\ BodyInv /\ CountInv /\ StopInv

LEMMA ClientType ==
  ASSUME ClientInv, NEW q \in Req, OfRequest(q)
  PROVE  \E c \in {"waits", "whole", "cut", "error", "left"} : client' = [client EXCEPT ![q] = c]
<1>1. client[q] \in {"waits", "whole", "cut", "error", "left"} /\ client = [client EXCEPT ![q] = client[q]]
  BY DEF ClientInv
<1>2. CASE UNCHANGED client
  BY <1>1, <1>2
<1>3. CASE \/ DropsIdle(q) \/ RoundTripFails(q) \/ (Switches(q) /\ client' # client)
           \/ CopyEnds(q) \/ ClientLeaves(q)
  BY <1>3 DEF DropsIdle, RoundTripFails, errorHandler, Switches, Hijacks, CopyEnds, CopyFailed,
     CopyStopped, ClientLeaves, BodyEnds, Left
<1>4. UNCHANGED client \/ DropsIdle(q) \/ RoundTripFails(q) \/ Switches(q) \/ CopyEnds(q) \/ ClientLeaves(q)
  BY DEF OfRequest, Connects, Handle, Flushes, ServeHTTP, Responds, CopySelects, CopyReads,
     CopyReadFails, CopyWrites, CopyWriteFails, TimerFires, delayedFlush, TunnelSelects,
     TunnelReads, TunnelWrites, TunnelFails, TunnelReturns, BackCloses, tunnelled
<1> QED
  BY <1>2, <1>3, <1>4

(* Every action of q leaves the other requests alone.                      *)
LEMMA OthersStay ==
  ASSUME RequestInv, ClientInv, NEW q \in Req, OfRequest(q), NEW p \in Req, p # q
  PROVE  /\ pc'[p] = pc[p] /\ on'[p] = on[p] /\ client'[p] = client[p]
         /\ body'[p] = body[p] /\ n'[p] = n[p]
<1> USE DEF RequestInv
<1>1. pc'[p] = pc[p] /\ on'[p] = on[p]
  BY RequestMoves DEF Moves, PcInv
<1>2. client'[p] = client[p]
  BY ClientType DEF ClientInv
<1>3. body'[p] = body[p]
  <2>1. CASE Responds(q)
    BY <2>1 DEF Responds, BodyInv
  <2> QED
    BY <2>1 DEF OfRequest, Connects, Handle, Flushes, ClientLeaves, DropsIdle, ServeHTTP, stream,
       RoundTripFails, errorHandler, Switches, Hijacks, CopySelects, CopyReads, CopyReadFails,
       CopyWrites, CopyWriteFails, CopyEnds, CopyFailed, CopyStopped, TimerFires, delayedFlush,
       TunnelSelects, TunnelReads, TunnelWrites, TunnelFails, TunnelReturns, BackCloses, tunnelled
<1>4. n'[p] = n[p]
  <2>1. CASE CopyReads(q)
    BY <2>1, ReadsOne DEF CountInv
  <2>2. CASE CopyWrites(q)
    BY <2>2, WritesOne DEF CountInv
  <2>3. CASE delayedFlush(q) \/ CopyEnds(q)
    BY <2>3, ShowsAll DEF CountInv
  <2> QED
    BY <2>1, <2>2, <2>3 DEF OfRequest, Connects, Handle, Flushes, ClientLeaves, DropsIdle, ServeHTTP,
       RoundTripFails, errorHandler, Responds, Switches, Hijacks, CopySelects, CopyReadFails,
       CopyWriteFails, TimerFires, stream,
       TunnelSelects, TunnelReads, TunnelWrites, TunnelFails, TunnelReturns, BackCloses, tunnelled
<1> QED
  BY <1>1, <1>2, <1>3, <1>4

(* Nobody but CopyStopped tells a client that it has got everything, and   *)
(* nothing changes for such a client.                                      *)
LEMMA WholeByReturn ==
  ASSUME RequestInv, ClientInv, NEW q \in Req, OfRequest(q), client'[q] = "whole", ~CopyStopped(q)
  PROVE  client[q] = "whole" /\ pc[q] \in Over
<1>1. client[q] = "whole"
  <2>1. CASE DropsIdle(q) \/ RoundTripFails(q) \/ CopyFailed(q) \/ ClientLeaves(q)
    BY <2>1 DEF DropsIdle, RoundTripFails, errorHandler, CopyFailed, ClientLeaves, Left, ClientInv
  <2>2. CASE Switches(q)
    BY <2>2 DEF Switches, Hijacks, errorHandler, Left, ClientInv
  <2> QED
    BY <2>1, <2>2 DEF OfRequest, Connects, Handle, Flushes, ServeHTTP, Responds, CopySelects,
       CopyReads, CopyReadFails, CopyWrites, CopyWriteFails, CopyEnds, TimerFires, delayedFlush,
       TunnelSelects, TunnelReads, TunnelWrites, TunnelFails, TunnelReturns, BackCloses, tunnelled
<1> QED
  BY <1>1 DEF ClientInv

LEMMA OverIsOver ==
  ASSUME RequestInv, NEW q \in Req, OfRequest(q), pc[q] \in Over
  PROVE  UNCHANGED <<pc, on, body, n>>
<1> USE DEF Over, At
<1>1. CASE delayedFlush(q)
  BY <1>1 DEF delayedFlush, RequestInv, TimerInv
<1>2. CASE TimerFires(q) \/ ClientLeaves(q)
  BY <1>2 DEF TimerFires, ClientLeaves, stream
<1>3. CASE \E d \in Dir : TunnelMoves(q, d)
  BY <1>3 DEF TunnelMoves, TunnelSelects, TunnelReads, TunnelWrites, TunnelFails, tunnelled, stream
<1>4. CASE BackCloses(q)
  BY <1>4 DEF BackCloses, tunnelled, stream
<1> QED
  BY <1>1, <1>2, <1>3, <1>4 DEF TunnelMoves, OfRequest, Connects, Handle, Flushes, DropsIdle, ServeHTTP,
     RoundTripFails, Responds, Switches, CopySelects, CopyReads, CopyReadFails, CopyWrites,
     CopyWriteFails, CopyEnds, CopyFailed, CopyStopped, TunnelReturns

LEMMA ClientSteps ==
  ControlInv /\ RequestInv /\ ClientInv /\ [HttpNext]_vars => ClientInv'
<1> SUFFICES ASSUME ControlInv, RequestInv, ClientInv, [HttpNext]_vars PROVE ClientInv'
  OBVIOUS
<1>1. closed \subseteq closed'
  BY ClosedGrows
<1>2. CASE UNCHANGED <<pc, on, body, n, client>>
  BY <1>1, <1>2 DEF ClientInv
<1>3. ASSUME NEW q \in Req, OfRequest(q) PROVE ClientInv'
  <2>1. client' \in [Req -> {"waits", "whole", "cut", "error", "left"}]
    BY <1>3, ClientType DEF ClientInv
  <2>2. ASSUME NEW p \in Req, client'[p] = "whole"
        PROVE  /\ pc'[p] \in Over
               /\ n'[p].shown < body'[p].chunks => body'[p].kind = "streamed" /\ on'[p] \in closed'
    <3>1. CASE p # q
      BY <1>1, <1>3, <2>2, <3>1, OthersStay DEF ClientInv
    <3>2. CASE p = q /\ ~CopyStopped(q)
      BY <1>1, <1>3, <2>2, <3>2, WholeByReturn, OverIsOver DEF ClientInv
    <3>3. CASE p = q /\ CopyStopped(q)
      <4>1. pc[q] = "return" /\ pc'[q] = "done" /\ body' = body /\ on' = on
        BY <3>3 DEF CopyStopped, At, Goto, RequestInv, PcInv
      <4>2. body[q].kind \in {"sized", "streamed"} /\ body[q].chunks \in Nat /\ on[q] \in closed
        BY <4>1 DEF RequestInv, BodyInv, StopInv, Copying
      <4>3. n[q].written \in Nat /\ n'[q].shown = n[q].written
        <5>1. n[q] \in [read : Nat, written : Nat, shown : Int]
          BY DEF RequestInv, CountInv
        <5> QED
          BY <3>3, <5>1 DEF CopyStopped, RequestInv, CountInv
      <4>4. BodyEnds(q) = "whole"
        BY <2>2, <3>3 DEF CopyStopped, Left, ClientInv
      <4> QED
        BY <1>1, <3>3, <4>1, <4>2, <4>3, <4>4 DEF BodyEnds, Over
    <3> QED
      BY <3>1, <3>2, <3>3
  <2> QED
    BY <2>1, <2>2 DEF ClientInv
<1> QED
  BY <1>2, <1>3, Steps, ControlKeepsRequests DEF vars, stream

-----------------------------------------------------------------------------
(* Headers *)

LEMMA HeaderInit == Init => HeaderInv
  BY DEF Init, HeaderInv, PassedOn

LEMMA HeaderSteps == HeaderInv /\ [HttpNext]_vars => HeaderInv'
<1> SUFFICES ASSUME HeaderInv, [HttpNext]_vars PROVE HeaderInv'
  OBVIOUS
<1>1. CASE UNCHANGED hdr
  BY <1>1 DEF HeaderInv
<1>2. ASSUME NEW q \in Req, OfRequest(q) PROVE HeaderInv'
  <2>1. ASSUME NEW r \in PassedOn, hdr' = [hdr EXCEPT ![q] = r] PROVE HeaderInv'
    BY <2>1 DEF HeaderInv
  <2>2. CASE ServeHTTP(q) \/ Responds(q)
    <3>1. \E r \in PassedOn : hdr' = [hdr EXCEPT ![q] = r]
      BY <2>2 DEF ServeHTTP, Responds, PassedOn
    <3> QED
      BY <2>1, <3>1
  <2>3. CASE RoundTripFails(q) \/ CopySelects(q) \/ TunnelReturns(q)
    <3>1. hdr' = [hdr EXCEPT ![q] = Nothing]
      BY <2>3 DEF RoundTripFails, errorHandler, CopySelects, TunnelReturns, forgetHdr
    <3> QED
      BY <2>1, <3>1 DEF PassedOn
  <2>4. CASE Switches(q)
    <3>1. PICK h \in ResHeader : Hijacks(q, h) \/ errorHandler(q)
      BY <2>4 DEF Switches
    <3>2. \E r \in PassedOn : hdr' = [hdr EXCEPT ![q] = r]
      BY <3>1 DEF Hijacks, errorHandler, forgetHdr, PassedOn
    <3> QED
      BY <2>1, <3>2
  <2> QED
    BY <1>1, <1>2, <2>2, <2>3, <2>4 DEF OfRequest, Connects, Handle, Flushes, ClientLeaves, DropsIdle,
       CopyReads, CopyReadFails, CopyWrites, CopyWriteFails, CopyEnds, CopyFailed, CopyStopped,
       TimerFires, delayedFlush, TunnelSelects, TunnelReads, TunnelWrites, TunnelFails, TunnelReturns,
       BackCloses, tunnelled
<1> QED
  BY <1>1, <1>2, Steps, ControlKeepsRequests DEF vars

IsHeader(h) == h = [listed |-> h.listed, val |-> h.val, trailers |-> h.trailers]

(* What Del() and Put() leave of a header.                                 *)
LEMMA DelKeeps ==
  ASSUME NEW h, NEW names
  PROVE  /\ DOMAIN Del(h, names).val = DOMAIN h.val \ names
         /\ \A x \in DOMAIN h.val \ names : Del(h, names).val[x] = h.val[x]
         /\ Del(h, names).trailers = h.trailers /\ IsHeader(Del(h, names))
  BY DEF Del, Restrict, IsHeader

LEMMA PutKeeps ==
  ASSUME NEW h, NEW name, NEW v, IsHeader(h)
  PROVE  /\ DOMAIN Put(h, name, v).val = DOMAIN h.val \cup {name}
         /\ Put(h, name, v).val[name] = v
         /\ \A x \in DOMAIN h.val \ {name} : Put(h, name, v).val[x] = h.val[x]
         /\ Put(h, name, v).listed = h.listed
         /\ IsHeader(Put(h, name, v))
<1> DEFINE f == [x \in DOMAIN h.val \cup {name} |-> IF x = name THEN v ELSE h.val[x]]
<1>1. Put(h, name, v) = [h EXCEPT !.val = f]
  BY DEF Put
<1>2. [h EXCEPT !.val = f] = [listed |-> h.listed, val |-> f, trailers |-> h.trailers]
  BY DEF IsHeader
<1> QED
  BY <1>1, <1>2 DEF IsHeader

(* A response's header: only Trailer may be there, put back.               *)
LEMMA ReturnedIsClean ==
  ASSUME NEW h, NEW x \in ForOneHop(h) \cap DOMAIN Returned(h).val
  PROVE  Exempt(h, Returned(h), x)
<1> DEFINE a == removeConnectionHeaders(h)
           b == Del(a, hopHeaders)
<1>1. /\ DOMAIN b.val = (DOMAIN h.val \ h.listed) \ hopHeaders
      /\ b.trailers = h.trailers /\ IsHeader(b)
  BY DelKeeps DEF removeConnectionHeaders
<1>2. Returned(h) = AddTrailer(b)
  BY DEF Returned
<1> HIDE DEF a, b
<1>3. CASE h.trailers = {}
  BY <1>1, <1>2, <1>3 DEF AddTrailer, ForOneHop
<1>4. CASE h.trailers # {}
  <2>1. DOMAIN Returned(h).val = DOMAIN b.val \cup {"Trailer"}
    BY <1>1, <1>2, <1>4, PutKeeps DEF AddTrailer
  <2>2. x = "Trailer"
    BY <1>1, <2>1 DEF ForOneHop
  <2> QED
    BY <1>4, <2>2 DEF Exempt
<1> QED
  BY <1>3, <1>4

(* Connection and Upgrade are asked for again and nothing else changes.    *)
UpgradeAdded(h, c, up) ==
  /\ IsHeader(c) /\ c.listed = {"Upgrade"}
  /\ DOMAIN c.val = DOMAIN h.val \cup {"Connection", "Upgrade"}
  /\ c.val["Upgrade"] = <<up>>
  /\ \A x \in DOMAIN h.val \ {"Connection", "Upgrade"} : c.val[x] = h.val[x]

LEMMA UpgradePuts ==
  ASSUME NEW h, NEW p, NEW r, NEW up, IsHeader(h),
         p = Put(h, "Connection", <<"Upgrade">>), r = Put(p, "Upgrade", <<up>>)
  PROVE  UpgradeAdded(h, [r EXCEPT !.listed = {"Upgrade"}], up)
<1>1. DOMAIN p.val = DOMAIN h.val \cup {"Connection"} /\ IsHeader(p)
  BY PutKeeps
<1>2. \A x \in DOMAIN h.val \ {"Connection"} : p.val[x] = h.val[x]
  BY PutKeeps
<1>3. DOMAIN r.val = DOMAIN p.val \cup {"Upgrade"} /\ r.val["Upgrade"] = <<up>> /\ IsHeader(r)
  BY <1>1, PutKeeps
<1>4. \A x \in DOMAIN p.val \ {"Upgrade"} : r.val[x] = p.val[x]
  BY <1>1, PutKeeps
<1>5. [r EXCEPT !.listed = {"Upgrade"}]
        = [listed |-> {"Upgrade"}, val |-> r.val, trailers |-> r.trailers]
  BY <1>3 DEF IsHeader
<1> QED
  BY <1>1, <1>2, <1>3, <1>4, <1>5 DEF UpgradeAdded, IsHeader

LEMMA AddUpgradeAdds ==
  ASSUME NEW h, NEW up, up # "", IsHeader(h)
  PROVE  UpgradeAdded(h, AddUpgrade(h, up), up)
  BY UpgradePuts DEF AddUpgrade

(* A request's header, step by step: what removeConnectionHeaders and      *)
(* DelHopHeaders leave, and what AddUpgrade puts back.                      *)
LEMMA OutgoingIsClean ==
  ASSUME NEW h, NEW x \in ForOneHop(h) \cap DOMAIN Outgoing(h).val
  PROVE  Exempt(h, Outgoing(h), x)
<1> DEFINE up == upgradeType(h)
           a == removeConnectionHeaders(h)
           b == DelHopHeaders(a)
           c == AddUpgrade(b, up)
<1>1. /\ DOMAIN a.val = DOMAIN h.val \ h.listed
      /\ \A y \in DOMAIN a.val : a.val[y] = h.val[y]
  BY DelKeeps DEF removeConnectionHeaders
<1>2. /\ DOMAIN b.val \subseteq DOMAIN a.val
      /\ \A y \in DOMAIN b.val : b.val[y] = a.val[y]
      /\ \A y \in DOMAIN b.val \cap hopHeaders :
           Get(a, y) = "" \/ (y = "Te" /\ Get(a, y) = "trailers")
      /\ IsHeader(b)
  <2> DEFINE gone == {y \in hopHeaders : Get(a, y) # "" /\ ~(y = "Te" /\ Get(a, y) = "trailers")}
  <2>1. b = Del(a, gone)
    BY DEF DelHopHeaders
  <2>2. /\ DOMAIN b.val = DOMAIN a.val \ gone
        /\ \A y \in DOMAIN a.val \ gone : b.val[y] = a.val[y]
        /\ IsHeader(b)
    <3> HIDE DEF a, b, gone
    <3> QED
      BY <2>1, DelKeeps
  <2>3. ASSUME NEW y \in DOMAIN a.val \ gone, y \in hopHeaders
        PROVE  Get(a, y) = "" \/ (y = "Te" /\ Get(a, y) = "trailers")
    <3> HIDE DEF a
    <3> QED
      BY <2>3
  <2> HIDE DEF a, b, gone
  <2> QED
    BY <2>2, <2>3
<1>6. ASSUME up # ""
      PROVE  UpgradeAdded(b, c, up)
  <2> HIDE DEF b
  <2>1. c = AddUpgrade(b, up)
    OBVIOUS
  <2> HIDE DEF c, up
  <2> QED
    BY <1>2, <1>6, <2>1, AddUpgradeAdds
<1>3. /\ Outgoing(h) = AddForwarded(c)
      /\ DOMAIN Outgoing(h).val = DOMAIN c.val \cup {"X-Forwarded-For"}
      /\ \A y \in DOMAIN c.val \ {"X-Forwarded-For"} : Outgoing(h).val[y] = c.val[y]
      /\ Outgoing(h).listed = c.listed
  <2>1. IsHeader(c)
    <3>1. CASE up = ""
      BY <1>2, <3>1 DEF AddUpgrade
    <3>2. CASE up # ""
      BY <3>2, <1>6 DEF UpgradeAdded
    <3> QED
      BY <3>1, <3>2
  <2>2. Outgoing(h) = AddForwarded(c)
    BY DEF Outgoing
  <2>3. \E v : AddForwarded(c) = Put(c, "X-Forwarded-For", v)
    BY DEF AddForwarded
  <2> HIDE DEF c
  <2> QED
    BY <2>1, <2>2, <2>3, PutKeeps
<1>4. CASE x = "X-Forwarded-For"
  BY <1>4 DEF Exempt
<1>8. ASSUME x \in DOMAIN b.val, Outgoing(h).val[x] = b.val[x]
      PROVE  Exempt(h, Outgoing(h), x)
  <2> HIDE DEF a, b, c, up
  <2>1. x \in hopHeaders /\ x \notin h.listed /\ x \in DOMAIN a.val
    BY <1>1, <1>2, <1>8 DEF ForOneHop
  <2>2. Get(Outgoing(h), x) = Get(a, x)
    BY <1>2, <1>8, <2>1 DEF Get, Has
  <2> QED
    BY <1>2, <1>8, <2>1, <2>2 DEF Exempt
<1>5. CASE x # "X-Forwarded-For" /\ up = ""
  <2>1. c = b
    BY <1>5 DEF AddUpgrade
  <2>2. x \in DOMAIN b.val /\ Outgoing(h).val[x] = b.val[x]
    <3> HIDE DEF a, b, c, up
    <3> QED
      BY <1>3, <1>5, <2>1
  <2> QED
    BY <1>8, <2>2
<1>7. CASE x # "X-Forwarded-For" /\ up # ""
  <2>1. CASE x \in {"Connection", "Upgrade"}
    <3>1. /\ Outgoing(h).listed = {"Upgrade"} /\ "Upgrade" \in DOMAIN Outgoing(h).val
          /\ Outgoing(h).val["Upgrade"] = <<up>>
      <4>1. c.listed = {"Upgrade"} /\ "Upgrade" \in DOMAIN c.val /\ c.val["Upgrade"] = <<up>>
        BY <1>6, <1>7 DEF UpgradeAdded
      <4>2. "Upgrade" \in DOMAIN c.val \ {"X-Forwarded-For"}
        BY <4>1
      <4>3. /\ Outgoing(h).listed = c.listed
            /\ DOMAIN c.val \subseteq DOMAIN Outgoing(h).val
            /\ \A y \in DOMAIN c.val \ {"X-Forwarded-For"} : Outgoing(h).val[y] = c.val[y]
        BY <1>3
      <4> HIDE DEF b, c, up
      <4> QED
        BY <4>1, <4>2, <4>3
    <3>2. upgradeType(Outgoing(h)) = up
      <4> HIDE DEF up
      <4> QED
        BY <3>1 DEF upgradeType, Get, Has
    <3> QED
      BY <1>7, <2>1, <3>2 DEF Exempt
  <2>2. CASE x \notin {"Connection", "Upgrade"}
    <3>1. x \in DOMAIN b.val /\ Outgoing(h).val[x] = b.val[x]
      <4> HIDE DEF b, c, up
      <4> QED
        BY <1>3, <1>6, <1>7, <2>2 DEF UpgradeAdded
    <3> QED
      BY <1>8, <3>1
  <2> QED
    BY <2>1, <2>2
<1> QED
  BY <1>4, <1>5, <1>7

-----------------------------------------------------------------------------
(* The https relay: what it has read *)

HelloPc == {"type", "version", "length", "rest", "session", "suites", "compression", "bound",
            "extension", "name", "dial", "copy", "closed", "panicked"}
Reading == {"type", "version", "length", "rest"}
Before(l) == IF l = "type" THEN 0 ELSE IF l = "version" THEN 1 ELSE IF l = "length" THEN 3 ELSE 5

(* As long as every Read filled its buffer, the record is the beginning of *)
(* what the client sends, up to where the handler has read it.             *)
GotInv ==
  /\ hello \in Hello /\ short \in BOOLEAN /\ hpc \in HelloPc
  /\ ~short => /\ arrived \in Nat /\ arrived <= Len(hello.bytes) /\ taken \in 0 .. arrived
               /\ hpc \in Reading => taken = Before(hpc)
               /\ hpc # "copy" => rec = SubSeq(hello.bytes, 1, taken) /\ sent = <<>>
               /\ hpc = "copy" => sent = SubSeq(hello.bytes, 1, taken)

LEMMA GotInit == HelloInit => GotInv
<1> SUFFICES ASSUME HelloInit PROVE GotInv
  OBVIOUS
<1>1. Len(hello.bytes) \in Nat
  BY HelloAssumption, LenProperties DEF HelloInit
<1>2. SubSeq(hello.bytes, 1, 0) = <<>>
  BY SubSeqEmpty
<1>3. rec = SubSeq(hello.bytes, 1, taken)
  BY <1>2 DEF HelloInit
<1>4. arrived \in Nat /\ arrived <= Len(hello.bytes) /\ taken \in 0 .. arrived
  BY <1>1 DEF HelloInit
<1>5. hpc = "type" /\ taken = 0 /\ sent = <<>> /\ hello \in Hello /\ short = FALSE
  BY DEF HelloInit
<1> QED
  BY <1>3, <1>4, <1>5 DEF GotInv, HelloPc, Reading, Before

LEMMA ReadsOn ==
  ASSUME GotInv, hpc \in Reading, NEW k \in Nat, Read(k), ~short'
  PROVE  /\ ~short /\ taken' = taken + k /\ taken' \in 0 .. arrived
         /\ rec' = SubSeq(hello.bytes, 1, taken')
         /\ UNCHANGED <<hello, arrived, hostname, sent>>
<1> DEFINE m == IF arrived - taken < k THEN arrived - taken ELSE k
           pad == [i \in 1 .. k - m |-> 0]
<1>1. /\ rec' = rec \o SubSeq(hello.bytes, taken + 1, taken + m) \o pad
      /\ taken' = taken + m /\ short' = (short \/ m < k)
      /\ UNCHANGED <<hello, arrived, hostname, sent>>
  BY DEF Read
<1>2. ~short /\ ~(m < k)
  BY <1>1
<1>3. arrived \in Nat /\ taken \in 0 .. arrived /\ arrived <= Len(hello.bytes)
  BY <1>2 DEF GotInv
<1>4. m = k /\ taken + k <= arrived
  BY <1>2, <1>3
<1> HIDE DEF m
<1>5. pad = <<>>
  BY <1>4
<1>6. hello.bytes \in Seq(Byte) /\ Len(hello.bytes) \in Nat
  BY HelloAssumption, LenProperties DEF GotInv
<1>7. rec = SubSeq(hello.bytes, 1, taken)
  BY <1>2 DEF GotInv, Reading, Before
<1>8. rec \o SubSeq(hello.bytes, taken + 1, taken + k) = SubSeq(hello.bytes, 1, taken + k)
  BY <1>3, <1>4, <1>6, <1>7, ConcatAdjacentSubSeq
<1>9. SubSeq(hello.bytes, 1, taken + k) \in Seq(Byte)
  <2>1. \A i \in 1 .. taken + k : hello.bytes[i] \in Byte
    BY <1>3, <1>4, <1>6, ElementOfSeq
  <2> QED
    BY <1>3, <2>1, SubSeqProperties
<1>10. rec' = SubSeq(hello.bytes, 1, taken + k)
  BY <1>1, <1>4, <1>5, <1>8, <1>9, ConcatEmptySeq
<1> QED
  BY <1>1, <1>2, <1>3, <1>4, <1>10

(* The length that the handler computes is a number.                       *)
LEMMA RestLengthIs ==
  ASSUME GotInv, ~short, hpc = "rest"
  PROVE  restLength \in Nat /\ restLength = 256 * hello.bytes[4] + hello.bytes[5]
<1>1. hello.bytes \in Seq(Byte) /\ Len(hello.bytes) \in Nat /\ 5 <= Len(hello.bytes)
  BY HelloAssumption, LenProperties DEF GotInv, Reading, Before
<1>2. \A i \in 1 .. 5 : hello.bytes[i] \in Byte
  BY <1>1, ElementOfSeq
<1>3. \A i \in 1 .. 5 : SubSeq(hello.bytes, 1, 5)[i] = hello.bytes[i]
  BY <1>2, SubSeqProperties
<1>4. rec = SubSeq(hello.bytes, 1, 5)
  BY DEF GotInv, Reading, Before
<1>5. rec[4] = hello.bytes[4] /\ rec[5] = hello.bytes[5]
  BY <1>3, <1>4
<1>6. hello.bytes[4] \in Nat /\ hello.bytes[5] \in Nat
  BY <1>2 DEF Byte
<1> QED
  BY <1>5, <1>6 DEF restLength

LEMMA GotReads ==
  ASSUME GotInv, ReadsType \/ ReadsVersion \/ ReadsLength \/ ReadsRest
  PROVE  GotInv'
<1>1. hpc \in Reading /\ hpc' \in {"closed", "version", "length", "rest", "session"}
  BY DEF ReadsType, ReadsVersion, ReadsLength, ReadsRest, Reading
<1>2. hello' = hello /\ short' \in BOOLEAN /\ (short => short')
  BY DEF ReadsType, ReadsVersion, ReadsLength, ReadsRest, Read, GotInv
<1>3. CASE short'
  BY <1>1, <1>2, <1>3 DEF GotInv, HelloPc
<1>4. CASE ~short'
  <2>1. PICK k \in Nat : Read(k) /\ (hpc' \in Reading => taken + k = Before(hpc'))
    <3>1. CASE ReadsType
      BY <1>2, <1>4, <3>1 DEF ReadsType, GotInv, Reading, Before
    <3>2. CASE ReadsVersion
      BY <1>2, <1>4, <3>2 DEF ReadsVersion, GotInv, Reading, Before
    <3>3. CASE ReadsLength
      BY <1>2, <1>4, <3>3 DEF ReadsLength, GotInv, Reading, Before
    <3>4. CASE ReadsRest
      <4>1. restLength \in Nat
        BY <1>2, <1>4, <3>4, RestLengthIs DEF ReadsRest
      <4> QED
        BY <3>4, <4>1 DEF ReadsRest, Reading
    <3> QED
      BY <3>1, <3>2, <3>3, <3>4
  <2>2. /\ ~short /\ taken' = taken + k /\ taken' \in 0 .. arrived
        /\ rec' = SubSeq(hello.bytes, 1, taken')
        /\ UNCHANGED <<hello, arrived, hostname, sent>>
    BY <1>1, <1>4, <2>1, ReadsOn
  <2>3. sent = <<>>
    BY <1>1, <2>2 DEF GotInv, Reading
  <2>4. hpc' \in HelloPc /\ hpc' # "copy"
    BY <1>1 DEF HelloPc
  <2>5. rec' = SubSeq(hello'.bytes, 1, taken') /\ sent' = <<>>
    BY <2>2, <2>3
  <2>6. hello' \in Hello /\ arrived' \in Nat /\ arrived' <= Len(hello'.bytes) /\ taken' \in 0 .. arrived'
    BY <2>2 DEF GotInv
  <2>7. hpc' \in Reading => taken' = Before(hpc')
    BY <2>1, <2>2
  <2> QED
    BY <1>2, <2>4, <2>5, <2>6, <2>7 DEF GotInv
<1> QED
  BY <1>3, <1>4

Walks == SkipsFields \/ ChecksBound \/ SkipsExtension \/ ReadsName

LEMMA WalksKeep ==
  ASSUME Walks
  PROVE  /\ UNCHANGED parsing
         /\ hpc \in {"session", "suites", "compression", "bound", "extension", "name"}
         /\ hpc' \in {"suites", "compression", "bound", "extension", "name", "closed", "panicked"}
  BY DEF Walks, SkipsFields, Skips, ChecksBound, SkipsExtension, ReadsName

LEMMA GotSteps == GotInv /\ [HelloNext]_hvars => GotInv'
<1> SUFFICES ASSUME GotInv, [HelloNext]_hvars PROVE GotInv'
  OBVIOUS
<1>1. CASE ReadsType \/ ReadsVersion \/ ReadsLength \/ ReadsRest
  BY <1>1, GotReads
<1>2. CASE RestArrives
  <2>1. Len(hello.bytes) \in Nat
    BY HelloAssumption, LenProperties DEF GotInv
  <2> QED
    BY <1>2, <2>1 DEF RestArrives, GotInv, parse
<1>3. CASE Walks
  BY <1>3, WalksKeep DEF GotInv, parsing, network, HelloPc, Reading, Before
<1>4. CASE ReadFails \/ EndsSearch \/ DialFails
  BY <1>4 DEF ReadFails, EndsSearch, DialFails, GotInv, network, parse, HelloPc, Reading, Before
<1>5. CASE DialsAndWrites
  BY <1>5 DEF DialsAndWrites, GotInv, network, parse, HelloPc, Reading, Before
<1>6. CASE CopiesOn
  <2>1. hello.bytes \in Seq(Byte) /\ Len(hello.bytes) \in Nat
    BY HelloAssumption, LenProperties DEF GotInv
  <2>2. CASE ~short
    <3>1. /\ arrived \in Nat /\ arrived <= Len(hello.bytes) /\ taken \in 0 .. arrived
          /\ sent = SubSeq(hello.bytes, 1, taken)
      BY <1>6, <2>2 DEF CopiesOn, GotInv
    <3>2. SubSeq(hello.bytes, 1, taken) \o SubSeq(hello.bytes, taken + 1, arrived)
            = SubSeq(hello.bytes, 1, arrived)
      BY <2>1, <3>1, ConcatAdjacentSubSeq
    <3>3. sent' = SubSeq(hello'.bytes, 1, taken') /\ taken' = arrived' /\ hpc' = "copy" /\ hello' = hello
      BY <1>6, <3>1, <3>2 DEF CopiesOn
    <3>4. arrived' = arrived /\ short' = short
      BY <1>6 DEF CopiesOn
    <3> QED
      BY <3>1, <3>3, <3>4 DEF GotInv, HelloPc, Reading
  <2> QED
    BY <1>6, <2>2 DEF CopiesOn, GotInv, parse
<1>7. CASE UNCHANGED hvars
  BY <1>7 DEF hvars, GotInv
<1> QED
  BY <1>1, <1>2, <1>3, <1>4, <1>5, <1>6, <1>7 DEF HelloNext, Walks

-----------------------------------------------------------------------------
(* The https relay: the search for the name *)

(* The fields of a well-formed record are where its lengths say, and each  *)
(* lies inside the record.                                                 *)
LEMMA BytesAre ==
  ASSUME NEW h \in Hello
  PROVE  /\ h.bytes \in Seq(Byte) /\ Len(h.bytes) \in Nat
         /\ h.name \in Seq(Byte) /\ Len(h.name) \in Nat
         /\ \A i \in Nat : i + 1 <= RestLen(h) => B1(h, i) \in Nat
         /\ \A i \in Nat : i + 2 <= RestLen(h) => B2(h, i) \in Nat
<1>1. /\ h.bytes \in Seq(Byte) /\ Len(h.bytes) \in Nat
      /\ h.name \in Seq(Byte) /\ Len(h.name) \in Nat
  BY HelloAssumption, LenProperties
<1>2. ASSUME NEW j \in 1 .. Len(h.bytes) PROVE h.bytes[j] \in Nat
  <2>1. h.bytes[j] \in Byte
    BY <1>1, ElementOfSeq
  <2>2. \A x \in Byte : x \in Nat
    BY DEF Byte
  <2> QED
    BY <2>1, <2>2, Zenon
<1> QED
  BY <1>1, <1>2 DEF B1, B2, RestLen

LEMMA ExtensionFollows ==
  ASSUME NEW h, WellFormed(h), NEW k \in Extensions(h)
  PROVE  /\ h.exts[k] + 4 <= RestLen(h)
         /\ h.exts[k + 1] = h.exts[k] + 4 + B2(h, h.exts[k] + 2)
         /\ IsName(h, k) => h.name # <<>> /\ HoldsName(h, k)
<1>1. Follows(h, k)
  BY DEF WellFormed
<1> QED
  BY <1>1 DEF Follows

LEMMA FieldsAre ==
  ASSUME NEW h \in Hello, WellFormed(h)
  PROVE  /\ SuitesAt(h) \in Nat /\ SuitesAt(h) + 2 <= RestLen(h)
         /\ CompressionAt(h) \in Nat /\ CompressionAt(h) + 1 <= RestLen(h)
         /\ FieldsEnd(h) \in Nat /\ FieldsEnd(h) <= RestLen(h)
         /\ Len(h.exts) \in Nat \ {0} /\ \A k \in 1 .. Len(h.exts) : h.exts[k] \in Nat
<1> DEFINE r == RestLen(h)
<1>1. r \in Int /\ 38 < r
  BY BytesAre DEF WellFormed, RestLen
<1>2. SuitesAt(h) \in Nat /\ SuitesAt(h) + 2 <= r
  <2>1. B1(h, 38) \in Nat
    BY <1>1, BytesAre
  <2> QED
    BY <2>1 DEF SuitesAt, WellFormed
<1>3. CompressionAt(h) \in Nat /\ CompressionAt(h) + 1 <= r
  <2>1. B2(h, SuitesAt(h)) \in Nat
    BY <1>2, BytesAre
  <2> QED
    BY <1>1, <1>2, <2>1 DEF CompressionAt, WellFormed
<1>4. FieldsEnd(h) \in Nat
  <2>1. B1(h, CompressionAt(h)) \in Nat
    BY <1>3, BytesAre
  <2> QED
    BY <1>3, <2>1 DEF FieldsEnd
<1>5. Len(h.exts) \in Nat \ {0} /\ \A k \in 1 .. Len(h.exts) : h.exts[k] \in Nat
  BY EmptySeq, ElementOfSeq DEF WellFormed
<1>6. FieldsEnd(h) <= r
  <2>1. h.exts[1] = FieldsEnd(h) + 2
    BY DEF WellFormed
  <2>2. CASE Len(h.exts) = 1
    <3>1. h.exts[1] = r \/ FieldsEnd(h) = r
      BY <2>2 DEF WellFormed
    <3> QED
      BY <1>1, <1>4, <2>1, <3>1
  <2>3. CASE Len(h.exts) # 1
    <3>1. \A m \in Nat \ {0} : m # 1 => 1 \in 1 .. m - 1
      OBVIOUS
    <3>2. 1 \in Extensions(h)
      BY <1>5, <2>3, <3>1, Zenon DEF Extensions
    <3>3. h.exts[1] + 4 <= r
      BY <3>2, ExtensionFollows
    <3> QED
      BY <1>1, <1>4, <2>1, <3>3
  <2> QED
    BY <2>2, <2>3
<1> QED
  BY <1>2, <1>3, <1>4, <1>5, <1>6

LEMMA ExtensionsAre ==
  ASSUME NEW h \in Hello, WellFormed(h), NEW k \in Extensions(h)
  PROVE  /\ k \in 1 .. Len(h.exts) /\ k + 1 \in 1 .. Len(h.exts)
         /\ h.exts[k] \in Nat /\ h.exts[k] + 4 <= RestLen(h)
         /\ h.exts[k + 1] = h.exts[k] + 4 + B2(h, h.exts[k] + 2)
         /\ IsName(h, k) => h.name # <<>> /\ HoldsName(h, k)
<1>1. k \in 1 .. Len(h.exts) /\ k + 1 \in 1 .. Len(h.exts)
  BY FieldsAre DEF Extensions
<1>2. h.exts[k] \in Nat
  BY <1>1, FieldsAre
<1> QED
  BY <1>1, <1>2, ExtensionFollows

(* What the handler finds in a record that it has in full.                 *)
LEMMA RestIs ==
  ASSUME hello \in Hello, rec = hello.bytes, RestLen(hello) \in Nat
  PROVE  /\ Len(Rest) = RestLen(hello)
         /\ \A i \in Nat : i + 1 <= RestLen(hello) => Rest[i + 1] = B1(hello, i)
         /\ \A i \in Nat : i + 1 <= RestLen(hello) => Num(i, 1) = B1(hello, i)
         /\ \A i \in Nat : i + 2 <= RestLen(hello) => Num(i, 2) = B2(hello, i)
<1>1. hello.bytes \in Seq(Byte) /\ Len(hello.bytes) \in Nat
  BY BytesAre
<1>2. \A j \in 6 .. Len(hello.bytes) : hello.bytes[j] \in Byte
  BY <1>1, ElementOfSeq
<1>3. /\ Len(SubSeq(hello.bytes, 6, Len(hello.bytes))) =
           IF 6 <= Len(hello.bytes) THEN Len(hello.bytes) - 6 + 1 ELSE 0
      /\ \A i \in 1 .. Len(hello.bytes) - 6 + 1 :
           SubSeq(hello.bytes, 6, Len(hello.bytes))[i] = hello.bytes[6 + i - 1]
  BY <1>1, <1>2, SubSeqProperties
<1>4. Rest = SubSeq(hello.bytes, 6, Len(hello.bytes))
  BY DEF Rest
<1>5. Len(Rest) = RestLen(hello)
  BY <1>1, <1>3, <1>4 DEF RestLen
<1>6. ASSUME NEW j \in 1 .. RestLen(hello) PROVE Rest[j] = hello.bytes[j + 5]
  <2>1. j \in 1 .. Len(hello.bytes) - 6 + 1 /\ 6 + j - 1 = j + 5
    BY <1>1 DEF RestLen
  <2> QED
    BY <1>3, <1>4, <2>1
<1>7. ASSUME NEW i \in Nat, i + 1 <= RestLen(hello) PROVE Rest[i + 1] = B1(hello, i)
  <2>1. i + 1 \in 1 .. RestLen(hello) /\ i + 1 + 5 = i + 6
    BY <1>7
  <2> QED
    BY <1>6, <2>1 DEF B1
<1>8. ASSUME NEW i \in Nat, i + 2 <= RestLen(hello) PROVE Num(i, 2) = B2(hello, i)
  <2>1. i + 1 \in 1 .. RestLen(hello) /\ i + 2 \in 1 .. RestLen(hello) /\ i + 1 + 5 = i + 6 /\ i + 2 + 5 = i + 7
    BY <1>8
  <2>2. Rest[i + 1] = hello.bytes[i + 6] /\ Rest[i + 2] = hello.bytes[i + 7]
    BY <1>6, <2>1
  <2> QED
    BY <2>2 DEF Num, B2
<1> QED
  BY <1>5, <1>7, <1>8 DEF Num

LEMMA LowerIsEmpty ==
  ASSUME NEW s \in Seq(Byte)
  PROVE  ToLower(s) = <<>> <=> s = <<>>
<1>1. DOMAIN ToLower(s) = 1 .. Len(s) /\ Len(s) \in Nat
  BY LenProperties DEF ToLower
<1>2. CASE s = <<>>
  <2>1. DOMAIN s = {}
    BY <1>2
  <2> QED
    BY <1>2, <2>1 DEF ToLower
<1>3. CASE s # <<>>
  <2>1. 1 \in DOMAIN ToLower(s)
    BY <1>1, <1>3, EmptySeq
  <2> QED
    BY <1>3, <2>1
<1> QED
  BY <1>2, <1>3

(* The search has passed only extensions of other kinds, so that it cannot *)
(* have missed the name.                                                   *)
Passed(k) == \A j \in 1 .. k - 1 : ~IsName(hello, j)
Searching == \E k \in 1 .. Len(hello.exts) : current = hello.exts[k] /\ Passed(k)
Found == hostname = ToLower(hello.name) /\ hostname # <<>>
WalkInv ==
  ~short =>
    /\ hpc # "panicked"
    /\ hpc \notin Reading \cup {"closed"} => rec = hello.bytes
    /\ hpc \in Reading \cup {"session", "suites", "compression", "bound", "name"} => hostname = <<>>
    /\ hpc = "session" => current = 38
    /\ hpc = "suites" => current = SuitesAt(hello)
    /\ hpc = "compression" => current = CompressionAt(hello)
    /\ hpc = "bound" => current = FieldsEnd(hello)
    /\ hpc = "extension" => Found \/ (hostname = <<>> /\ Searching)
    /\ hpc = "name" => \E k \in Extensions(hello) : current = hello.exts[k] /\ IsName(hello, k)
    /\ hpc \in {"dial", "copy"} => hostname = ToLower(hello.name)
    /\ hpc = "closed" => hostname = ToLower(hello.name) \/ Len(rec) < Len(hello.bytes)

LEMMA WalkInit == HelloInit => WalkInv
  BY DEF HelloInit, WalkInv, Reading

LEMMA ShortStays == ASSUME [HelloNext]_hvars PROVE hello' = hello /\ (short => short')
<1>1. CASE ReadsType \/ ReadsVersion \/ ReadsLength \/ ReadsRest
  <2>1. \E k : Read(k)
    BY <1>1 DEF ReadsType, ReadsVersion, ReadsLength, ReadsRest
  <2> QED
    BY <2>1 DEF Read
<1>2. CASE Walks
  BY <1>2, WalksKeep DEF parsing, network
<1>3. CASE RestArrives \/ ReadFails \/ EndsSearch \/ DialFails \/ DialsAndWrites \/ CopiesOn \/ UNCHANGED hvars
  BY <1>3 DEF RestArrives, ReadFails, EndsSearch, DialFails, DialsAndWrites, CopiesOn, hvars, network
<1> QED
  BY <1>1, <1>2, <1>3 DEF HelloNext, Walks

(* A record that has been read so far is the record, byte for byte.        *)
LEMMA PrefixIs ==
  ASSUME NEW h \in Hello, NEW t \in Nat, t <= Len(h.bytes)
  PROVE  /\ Len(SubSeq(h.bytes, 1, t)) = t
         /\ \A i \in 1 .. t : SubSeq(h.bytes, 1, t)[i] = h.bytes[i]
<1>1. h.bytes \in Seq(Byte) /\ Len(h.bytes) \in Nat
  BY BytesAre
<1>2. \A i \in 1 .. t : h.bytes[i] \in Byte
  BY <1>1, ElementOfSeq
<1> QED
  BY <1>2, SubSeqProperties

LEMMA WalkReads ==
  ASSUME GotInv, WalkInv, WellFormed(hello), ~short, ~short',
         ReadsType \/ ReadsVersion \/ ReadsLength \/ ReadsRest
  PROVE  WalkInv'
<1> DEFINE h == hello
<1>1. hello \in Hello /\ hpc \in Reading /\ hostname = <<>> /\ taken = Before(hpc)
  BY DEF ReadsType, ReadsVersion, ReadsLength, ReadsRest, GotInv, WalkInv, Reading
<1>2. /\ h.bytes[1] = 22 /\ h.bytes[2] = 3 /\ h.bytes[3] >= 1 /\ B1(h, 0) = 1
      /\ 256 * h.bytes[4] + h.bytes[5] = RestLen(h) /\ 38 < RestLen(h)
  BY DEF WellFormed
<1>3. ASSUME NEW k \in Nat, Read(k)
      PROVE  /\ hello' = hello /\ hostname' = <<>>
             /\ \A i \in 1 .. taken + k : rec'[i] = hello.bytes[i]
             /\ taken + k <= Len(hello.bytes) /\ rec' = SubSeq(hello.bytes, 1, taken + k)
  <2>1. /\ taken' = taken + k /\ taken' \in 0 .. arrived
        /\ rec' = SubSeq(hello.bytes, 1, taken')
        /\ UNCHANGED <<hello, arrived, hostname, sent>>
    BY <1>1, <1>3, ReadsOn
  <2>2. taken + k \in Nat /\ taken + k <= Len(hello.bytes)
    BY <1>1, <2>1, BytesAre DEF GotInv
  <2> QED
    BY <1>1, <2>1, <2>2, PrefixIs
<1>4. CASE ReadsType
  <2>1. hello' = hello /\ hostname' = <<>> /\ rec'[1] = 22 /\ hpc = "type"
    BY <1>1, <1>2, <1>3, <1>4 DEF ReadsType, Before
  <2>2. hpc' = "version"
    BY <1>4, <2>1 DEF ReadsType
  <2> QED
    BY <2>1, <2>2 DEF WalkInv, Reading
<1>5. CASE ReadsVersion
  <2>1. hello' = hello /\ hostname' = <<>> /\ rec'[2] = 3 /\ rec'[3] = h.bytes[3] /\ hpc = "version"
    BY <1>1, <1>2, <1>3, <1>5 DEF ReadsVersion, Before
  <2>2. h.bytes[3] \in Nat
    <3>1. 3 \in 1 .. Len(h.bytes)
      BY <1>1, <1>2, BytesAre DEF RestLen
    <3>2. h.bytes[3] \in Byte
      BY <1>1, <3>1, BytesAre, ElementOfSeq
    <3>3. \A x \in Byte : x \in Nat
      BY DEF Byte
    <3> QED
      BY <3>2, <3>3, Zenon
  <2>3. ~(rec'[2] < 3) /\ ~(rec'[3] < 1)
    BY <1>2, <2>1, <2>2
  <2>4. hpc' = "length"
    BY <1>5, <2>1, <2>3 DEF ReadsVersion
  <2> QED
    BY <2>1, <2>4 DEF WalkInv, Reading
<1>6. CASE ReadsLength
  <2>1. hello' = hello /\ hostname' = <<>> /\ hpc' = "rest"
    BY <1>1, <1>3, <1>6 DEF ReadsLength
  <2> QED
    BY <2>1 DEF WalkInv, Reading
<1>7. CASE ReadsRest
  <2>1. restLength = RestLen(h) /\ restLength \in Nat /\ Len(h.bytes) = 5 + RestLen(h) /\ h.bytes \in Seq(Byte)
    BY <1>1, <1>2, <1>7, RestLengthIs, BytesAre DEF ReadsRest, RestLen
  <2>2. taken = 5 /\ Read(restLength)
    BY <1>1, <1>7 DEF ReadsRest, Before
  <2>3. rec' = SubSeq(h.bytes, 1, Len(h.bytes)) /\ hello' = hello /\ hostname' = <<>>
    BY <1>3, <2>1, <2>2
  <2>4. rec' = h.bytes
    BY <2>1, <2>3, SubSeqFull
  <2>5. rec'[6] = 1 /\ restLength # 0
    BY <1>2, <2>1, <2>4 DEF B1
  <2>6. hpc' = "session" /\ current' = 38
    BY <1>7, <2>5 DEF ReadsRest
  <2> QED
    BY <2>3, <2>4, <2>6 DEF WalkInv, Reading
<1> QED
  BY <1>4, <1>5, <1>6, <1>7

LEMMA WalkReadFails ==
  ASSUME GotInv, WalkInv, WellFormed(hello), ~short, ReadFails
  PROVE  WalkInv'
<1>1. taken \in {0, 1, 3, 5} /\ rec = SubSeq(hello.bytes, 1, taken) /\ hello \in Hello
  BY DEF ReadFails, GotInv, Reading, Before
<1>2. Len(hello.bytes) \in Nat /\ 5 < Len(hello.bytes)
  BY <1>1, BytesAre DEF WellFormed, RestLen
<1>3. Len(rec) = taken
  BY <1>1, <1>2, PrefixIs
<1>4. Len(rec) < Len(hello.bytes)
  BY <1>1, <1>2, <1>3
<1>5. hpc' = "closed" /\ rec' = rec /\ hello' = hello
  BY DEF ReadFails, network, parse
<1> QED
  BY <1>4, <1>5 DEF WalkInv, Reading

(* Up to the extensions there is one field after the other.                *)
LEMMA WalkFields ==
  ASSUME GotInv, WalkInv, WellFormed(hello), ~short, SkipsFields \/ ChecksBound
  PROVE  WalkInv'
<1> DEFINE h == hello
<1>1. /\ hello \in Hello /\ rec = hello.bytes /\ hostname = <<>>
      /\ UNCHANGED parsing /\ hostname' = <<>>
  BY DEF SkipsFields, Skips, ChecksBound, GotInv, WalkInv, Reading
<1>2. /\ hello' = hello /\ rec' = rec
  BY <1>1 DEF parsing, network
<1>3. RestLen(h) \in Nat /\ 38 < RestLen(h) /\ 38 + 1 <= RestLen(h)
  BY <1>1, BytesAre DEF WellFormed, RestLen
<1>4. /\ SuitesAt(h) \in Nat /\ SuitesAt(h) + 2 <= RestLen(h)
      /\ CompressionAt(h) \in Nat /\ CompressionAt(h) + 1 <= RestLen(h)
      /\ FieldsEnd(h) \in Nat /\ FieldsEnd(h) <= RestLen(h)
  BY <1>1, FieldsAre
<1>5. Len(Rest) = RestLen(h)
  BY <1>1, <1>3, RestIs
<1>6. CASE Skips("session", 1, "suites")
  <2>1. current = 38 /\ Num(38, 1) = B1(h, 38) /\ hpc = "session"
    BY <1>1, <1>3, <1>6, RestIs DEF Skips, WalkInv
  <2>2. hpc' = "suites" /\ current' = 38 + 1 + B1(h, 38)
    BY <1>3, <1>5, <1>6, <2>1 DEF Skips, Inside
  <2>3. B1(h, 38) \in Nat
    BY <1>1, <1>3, BytesAre
  <2>4. current' = SuitesAt(h)
    BY <2>2, <2>3 DEF SuitesAt
  <2> QED
    BY <1>1, <1>2, <2>2, <2>4 DEF WalkInv, Reading
<1>7. CASE Skips("suites", 2, "compression")
  <2>1. current = SuitesAt(h) /\ Num(current, 2) = B2(h, SuitesAt(h))
    BY <1>1, <1>3, <1>4, <1>7, RestIs DEF Skips, WalkInv
  <2>2. hpc' = "compression" /\ current' = CompressionAt(h)
    BY <1>4, <1>5, <1>7, <2>1 DEF Skips, Inside, CompressionAt
  <2> QED
    BY <1>1, <1>2, <2>2 DEF WalkInv, Reading
<1>8. CASE Skips("compression", 1, "bound")
  <2>1. current = CompressionAt(h) /\ Num(current, 1) = B1(h, CompressionAt(h))
    BY <1>1, <1>3, <1>4, <1>8, RestIs DEF Skips, WalkInv
  <2>2. hpc' = "bound" /\ current' = FieldsEnd(h)
    BY <1>4, <1>5, <1>8, <2>1 DEF Skips, Inside, FieldsEnd
  <2> QED
    BY <1>1, <1>2, <2>2 DEF WalkInv, Reading
<1>9. CASE ChecksBound
  <2>1. current = FieldsEnd(h) /\ restLength = RestLen(h)
    BY <1>1, <1>9 DEF ChecksBound, WalkInv, WellFormed, restLength
  <2>2. hpc' = "extension" /\ current' = FieldsEnd(h) + 2
    BY <1>3, <1>4, <1>9, <2>1 DEF ChecksBound
  <2>3. current' = h.exts[1] /\ 1 \in 1 .. Len(h.exts)
    BY <1>1, <2>2, FieldsAre DEF WellFormed
  <2>4. Searching'
    <3>1. \A j \in 1 .. 1 - 1 : FALSE
      OBVIOUS
    <3> QED
      BY <1>2, <2>3, <3>1 DEF Searching, Passed
  <2> QED
    BY <1>1, <1>2, <2>2, <2>4 DEF WalkInv, Reading
<1> QED
  BY <1>6, <1>7, <1>8, <1>9 DEF SkipsFields

(* The search ends where the extensions do.                                *)
LEMMA SearchEnds ==
  ASSUME hello \in Hello, WellFormed(hello), NEW k \in 1 .. Len(hello.exts)
  PROVE  /\ RestLen(hello) \in Nat /\ hello.exts[k] \in Nat
         /\ k \in Extensions(hello) <=> hello.exts[k] < RestLen(hello)
         /\ k \notin Extensions(hello) => k = Len(hello.exts)
<1> DEFINE h == hello
<1>1. RestLen(h) \in Nat
  BY BytesAre DEF RestLen, WellFormed
<1>2. Len(h.exts) \in Nat /\ h.exts[k] \in Nat /\ FieldsEnd(h) \in Nat
  BY FieldsAre
<1>3. CASE k = Len(h.exts)
  <2>1. k \notin Extensions(h)
    BY <1>2, <1>3 DEF Extensions
  <2>2. \/ h.exts[k] = RestLen(h)
        \/ k = 1 /\ FieldsEnd(h) = RestLen(h)
    BY <1>3 DEF WellFormed
  <2>3. h.exts[1] = FieldsEnd(h) + 2
    BY DEF WellFormed
  <2>4. ~(h.exts[k] < RestLen(h))
    BY <1>1, <1>2, <2>2, <2>3
  <2> QED
    BY <1>1, <1>2, <1>3, <2>1, <2>4
<1>4. CASE k # Len(h.exts)
  <2>1. k \in Extensions(h)
    BY <1>2, <1>4 DEF Extensions
  <2>2. h.exts[k] + 4 <= RestLen(h)
    BY <2>1, ExtensionsAre
  <2>3. h.exts[k] < RestLen(h)
    BY <1>1, <1>2, <2>2
  <2> QED
    BY <1>1, <1>2, <2>1, <2>3
<1> QED
  BY <1>3, <1>4

LEMMA WalkExtension ==
  ASSUME GotInv, WalkInv, WellFormed(hello), ~short, SkipsExtension
  PROVE  WalkInv'
<1> DEFINE h == hello
<1>1. /\ hello \in Hello /\ rec = hello.bytes /\ hostname = <<>>
      /\ hello' = hello /\ rec' = rec /\ hostname' = <<>> /\ Searching
  BY DEF SkipsExtension, More, GotInv, WalkInv, Reading, parsing, network, Found
<1>2. PICK k \in 1 .. Len(h.exts) : current = h.exts[k] /\ Passed(k)
  BY <1>1 DEF Searching
<1>3. current < RestLen(h)
  BY <1>1 DEF SkipsExtension, More, WellFormed, restLength
<1>4. k \in Extensions(h) /\ RestLen(h) \in Nat
  BY <1>1, <1>2, <1>3, SearchEnds
<1>5. /\ k + 1 \in 1 .. Len(h.exts) /\ current \in Nat /\ current + 4 <= RestLen(h)
      /\ h.exts[k + 1] = current + 4 + B2(h, current + 2)
  BY <1>1, <1>2, <1>4, ExtensionsAre
<1>6. Len(Rest) = RestLen(h) /\ Num(current, 2) = B2(h, current) /\ Num(current + 2, 2) = B2(h, current + 2)
  <2>1. current + 2 <= RestLen(h) /\ current + 2 \in Nat /\ (current + 2) + 2 <= RestLen(h)
    BY <1>4, <1>5
  <2> QED
    BY <1>1, <1>4, <1>5, <2>1, RestIs
<1>7. Inside(current, 4)
  BY <1>5, <1>6 DEF Inside
<1>8. CASE B2(h, current) = 0
  <2>1. hpc' = "name" /\ current' = current
    BY <1>6, <1>7, <1>8 DEF SkipsExtension
  <2>2. IsName(h, k)
    BY <1>2, <1>8 DEF IsName
  <2> QED
    BY <1>1, <1>2, <1>4, <2>1, <2>2 DEF WalkInv, Reading
<1>9. CASE B2(h, current) # 0
  <2>1. hpc' = "extension" /\ current' = h.exts[k + 1]
    BY <1>5, <1>6, <1>7, <1>9 DEF SkipsExtension
  <2>2. ASSUME NEW j \in 1 .. (k + 1) - 1 PROVE ~IsName(h, j)
    <3>1. CASE j = k
      BY <1>2, <1>9, <3>1 DEF IsName
    <3>2. CASE j # k
      <4>1. j \in 1 .. k - 1
        BY <1>4, <3>2 DEF Extensions
      <4> QED
        BY <1>2, <4>1 DEF Passed
    <3> QED
      BY <3>1, <3>2
  <2>3. Searching'
    BY <1>1, <1>5, <2>1, <2>2 DEF Searching, Passed
  <2> QED
    BY <1>1, <2>1, <2>3 DEF WalkInv, Reading
<1> QED
  BY <1>8, <1>9

LEMMA WalkName ==
  ASSUME GotInv, WalkInv, WellFormed(hello), ~short, ReadsName
  PROVE  WalkInv'
<1> DEFINE h == hello
<1>1. /\ hello \in Hello /\ rec = hello.bytes
      /\ hello' = hello /\ rec' = rec
  BY DEF ReadsName, GotInv, WalkInv, Reading, parsing, network
<1>2. PICK k \in Extensions(h) : current = h.exts[k] /\ IsName(h, k)
  BY DEF ReadsName, WalkInv
<1>3. current \in Nat /\ h.name # <<>> /\ HoldsName(h, k)
  BY <1>1, <1>2, ExtensionsAre
<1>4. PICK at \in Nat : at = current
  BY <1>3
<1>5. /\ B1(h, at + 6) = 0 /\ B2(h, at + 7) = Len(h.name)
      /\ at + 9 + Len(h.name) <= RestLen(h)
      /\ h.name = SubSeq(h.bytes, at + 15, at + 14 + Len(h.name))
  BY <1>2, <1>3, <1>4 DEF HoldsName
<1>6. h.bytes \in Seq(Byte) /\ Len(h.bytes) \in Nat /\ RestLen(h) \in Nat /\ Len(h.bytes) = RestLen(h) + 5
  BY <1>1, BytesAre DEF RestLen, WellFormed
<1>7. Len(h.name) \in Nat \ {0}
  BY <1>1, <1>3, BytesAre, EmptySeq
<1>8. PICK len \in Nat \ {0} : len = Len(h.name)
  BY <1>7
<1>9. at + 6 + 1 <= RestLen(h) /\ at + 7 + 2 <= RestLen(h) /\ at + 9 + len <= RestLen(h)
  <2>1. at + 9 + len <= RestLen(h)
    BY <1>5, <1>8
  <2> QED
    BY <1>6, <2>1
<1>10. /\ Len(Rest) = RestLen(h)
       /\ Num(at + 6, 1) = 0 /\ Num(at + 7, 2) = len
  BY <1>1, <1>5, <1>6, <1>8, <1>9, RestIs
<1>11. Inside(at + 6, 1) /\ Inside(at + 7, 2) /\ Inside(at + 9, len)
  BY <1>9, <1>10 DEF Inside
<1>12. SubSeq(Rest, at + 10, at + 9 + len) = h.name
  <2>1. Rest = SubSeq(h.bytes, 6, Len(h.bytes))
    BY <1>1 DEF Rest
  <2>2. /\ 6 \in 1 .. Len(h.bytes) /\ Len(h.bytes) \in 1 .. Len(h.bytes)
        /\ at + 10 \in 1 .. Len(h.bytes) - 6 + 1 /\ at + 9 + len \in 1 .. Len(h.bytes) - 6 + 1
        /\ 6 + (at + 10) - 1 = at + 15 /\ 6 + (at + 9 + len) - 1 = at + 14 + len
    BY <1>6, <1>9
  <2>3. SubSeq(SubSeq(h.bytes, 6, Len(h.bytes)), at + 10, at + 9 + len)
          = SubSeq(h.bytes, 6 + (at + 10) - 1, 6 + (at + 9 + len) - 1)
    BY <1>6, <2>2, SubSeqOfSubSeq
  <2> QED
    BY <1>5, <1>8, <2>1, <2>2, <2>3
<1>13. hostname' = ToLower(h.name) /\ hpc' = "extension"
  <2>1. at + 6 + 1 = at + 7 /\ at + 7 + 2 = at + 9 /\ at + 9 + 1 = at + 10
    OBVIOUS
  <2>2. LET type == at + 6  lent == type + 1  name == lent + 2 IN
          CASE ~Inside(type, 1) -> hpc' = "panicked" /\ UNCHANGED <<current, hostname>>
            [] Inside(type, 1) /\ Num(type, 1) # 0 -> hpc' = "closed" /\ UNCHANGED <<current, hostname>>
            [] Inside(type, 1) /\ Num(type, 1) = 0 /\ ~(Inside(lent, 2) /\ Inside(name, Num(lent, 2))) ->
                 hpc' = "panicked" /\ UNCHANGED <<current, hostname>>
            [] OTHER -> /\ hostname' = ToLower(SubSeq(Rest, name + 1, name + Num(lent, 2)))
                        /\ current' = name + Num(current + 2, 2)
                        /\ hpc' = "extension"
    BY <1>4 DEF ReadsName
  <2>3. hostname' = ToLower(SubSeq(Rest, at + 10, at + 9 + len)) /\ hpc' = "extension"
    BY <1>10, <1>11, <2>1, <2>2
  <2> QED
    BY <1>12, <2>3
<1>14. ToLower(h.name) # <<>>
  BY <1>1, <1>3, BytesAre, LowerIsEmpty
<1> QED
  BY <1>1, <1>13, <1>14 DEF WalkInv, Reading, Found

LEMMA WalkEnds ==
  ASSUME GotInv, WalkInv, WellFormed(hello), ~short, EndsSearch
  PROVE  WalkInv'
<1> DEFINE h == hello
<1>1. /\ hello \in Hello /\ rec = hello.bytes
      /\ hello' = hello /\ rec' = rec /\ hostname' = hostname /\ current' = current
      /\ Found \/ (hostname = <<>> /\ Searching)
      /\ hpc' = IF hostname = <<>> THEN "closed" ELSE "dial"
  BY DEF EndsSearch, GotInv, WalkInv, Reading, parse, network
<1>2. CASE Found
  BY <1>1, <1>2 DEF WalkInv, Reading, Found
<1>3. CASE hostname = <<>> /\ Searching
  <2>1. PICK k \in 1 .. Len(h.exts) : current = h.exts[k] /\ Passed(k)
    BY <1>3 DEF Searching
  <2>2. ~(current < RestLen(h))
    BY <1>1, <1>3 DEF EndsSearch, More, WellFormed, restLength
  <2>3. k = Len(h.exts)
    BY <1>1, <2>1, <2>2, SearchEnds
  <2>4. h.name = <<>>
    BY <2>1, <2>3 DEF WellFormed, Passed, Extensions
  <2>5. ToLower(h.name) = <<>>
    BY <1>1, <2>4, BytesAre, LowerIsEmpty
  <2> QED
    BY <1>1, <1>3, <2>5 DEF WalkInv, Reading
<1> QED
  BY <1>1, <1>2, <1>3

LEMMA WalkSteps ==
  ASSUME WellFormed(hello), GotInv, WalkInv, [HelloNext]_hvars
  PROVE  WalkInv'
<1>1. hello' = hello /\ (short => short')
  BY ShortStays
<1>2. CASE short'
  BY <1>2 DEF WalkInv
<1>3. CASE ~short'
  <2>1. CASE ReadsType \/ ReadsVersion \/ ReadsLength \/ ReadsRest
    BY <1>1, <1>3, <2>1, WalkReads
  <2>2. CASE ReadFails
    BY <1>1, <1>3, <2>2, WalkReadFails
  <2>3. CASE SkipsFields \/ ChecksBound
    BY <1>1, <1>3, <2>3, WalkFields
  <2>4. CASE SkipsExtension
    BY <1>1, <1>3, <2>4, WalkExtension
  <2>5. CASE ReadsName
    BY <1>1, <1>3, <2>5, WalkName
  <2>6. CASE EndsSearch
    BY <1>1, <1>3, <2>6, WalkEnds
  <2>7. CASE DialFails \/ DialsAndWrites
    BY <1>1, <1>3, <2>7 DEF DialFails, DialsAndWrites, network, parse, WalkInv, Reading
  <2>8. CASE RestArrives \/ CopiesOn \/ UNCHANGED hvars
    <3>1. UNCHANGED <<hpc, parse>>
      BY <2>8 DEF RestArrives, CopiesOn, hvars, parse
    <3> QED
      BY <1>1, <1>3, <3>1 DEF WalkInv, parse, Found, Searching, Passed
  <2> QED
    BY <2>1, <2>2, <2>3, <2>4, <2>5, <2>6, <2>7, <2>8 DEF HelloNext
<1> QED
  BY <1>2, <1>3

-----------------------------------------------------------------------------
(* Theorems *)

HttpInv == ControlInv /\ RequestInv /\ TunnelInv /\ ClientInv /\ HeaderInv

LEMMA HttpInvariant == HttpSpec => []HttpInv
<1>1. Init => HttpInv
  BY ControlInit, PcInit, TimerInit, BodyInit, CountInit, TunnelInit, ClientInit, HeaderInit
  DEF HttpInv, RequestInv, StopInv, Init
<1>2. HttpInv /\ [HttpNext]_vars => HttpInv'
  BY ControlSteps, PcSteps, TimerSteps, BodySteps, CountSteps, StopSteps, TunnelSteps, ClientSteps,
     HeaderSteps DEF HttpInv, RequestInv
<1> QED
  BY <1>1, <1>2, PTL DEF HttpSpec

(* Theorem: the types, with the order of the counts: no chunk is written   *)
(* that was not read, none is shown that was not written, and none is read *)
(* that the backend did not send.                                          *)
THEOREM HttpTypes == HttpSpec => []TypeOK
<1>1. HttpInv => TypeOK
  <2> SUFFICES ASSUME HttpInv PROVE TypeOK
    OBVIOUS
  <2>1. /\ ctl \in {"serve", "listen", "up", "shutdown", "close", "gone"}
        /\ cur \in 0 .. MaxServe /\ svr \in 0 .. cur
        /\ closed \subseteq Gen /\ open \subseteq {svr}
    BY HttpAssumption DEF HttpInv, ControlInv, Gen
  <2>2. pc \in [Req -> ReqPc] /\ on \in [Req -> 0 .. cur]
    BY DEF HttpInv, RequestInv, PcInv
  <2>3. ASSUME NEW q \in Req
        PROVE  /\ body[q].kind \in {"none", "sized", "streamed"}
               /\ body[q].chunks \in 0 .. MaxChunk[q]
               /\ timer[q].t \in {"off", "armed", "fired"} /\ timer[q].pending \in BOOLEAN
    BY DEF HttpInv, RequestInv, BodyInv, TimerInv
  <2>4. ASSUME NEW q \in Req
        PROVE  /\ -1 <= n[q].shown /\ n[q].shown <= n[q].written
               /\ n[q].written <= n[q].read /\ n[q].read <= body[q].chunks
    BY DEF HttpInv, RequestInv, CountInv
  <2>5. ASSUME NEW q \in Req
        PROVE  /\ tunnel[q] \in [Dir \cup {"back"} -> {"off", "select", "read", "write", "open", "end"}]
               /\ client[q] \in {"waits", "whole", "cut", "error", "left"}
    BY DEF HttpInv, TunnelInv, ClientInv
  <2> QED
    BY <2>1, <2>2, <2>3, <2>4, <2>5 DEF TypeOK
<1> QED
  BY <1>1, HttpInvariant, PTL

(* Theorem: a client that takes a shortened response for a whole one got a *)
(* streamed one from a relay that was closed; no failure of a backend, of  *)
(* a client or of a timer does that.                                       *)
THEOREM ShortIsSeen == HttpSpec => []TruncationIsVisible
<1>1. HttpInv => TruncationIsVisible
  BY DEF HttpInv, ClientInv, TruncationIsVisible
<1> QED
  BY <1>1, HttpInvariant, PTL

(* Theorem: when a handler has returned, no timer flushes its response.    *)
THEOREM TimerStopped == HttpSpec => NoFlushAfterReturn
<1> DEFINE A == \A q \in Req : pc[q] \in Over => n'[q].shown = n[q].shown
<1>1. HttpInv /\ [HttpNext]_vars => [A]_vars
  <2> SUFFICES ASSUME HttpInv, [HttpNext]_vars, NEW q \in Req, pc[q] \in Over
               PROVE  n'[q].shown = n[q].shown
    OBVIOUS
  <2>1. CASE UNCHANGED n
    BY <2>1
  <2>2. ASSUME NEW p \in Req, OfRequest(p) PROVE n'[q].shown = n[q].shown
    <3>1. CASE p = q
      BY <2>2, <3>1, OverIsOver DEF HttpInv
    <3>2. CASE p # q
      BY <2>2, <3>2, OthersStay DEF HttpInv
    <3> QED
      BY <3>1, <3>2
  <2> QED
    BY <2>1, <2>2, Steps, ControlKeepsRequests DEF vars, stream
<1> QED
  BY <1>1, HttpInvariant, PTL DEF HttpSpec, NoFlushAfterReturn

(* Theorem: whatever headers clients and backends send, those for one hop  *)
(* go no further, but for the exempt ones and, in a response that switches *)
(* protocols, all of them.                                                 *)
THEOREM HopHeadersStay == HttpSpec => []OneHopOnly
<1>1. HttpInv => OneHopOnly
  <2> SUFFICES ASSUME HttpInv, NEW q \in Req, hdr[q].what # "switch",
                      NEW x \in ForOneHop(hdr[q].from) \cap DOMAIN hdr[q].to.val
               PROVE  Exempt(hdr[q].from, hdr[q].to, x)
    BY DEF OneHopOnly
  <2>1. hdr[q] \in PassedOn
    BY DEF HttpInv, HeaderInv
  <2>2. CASE hdr[q] = Nothing
    <3>1. DOMAIN hdr[q].to.val = {}
      BY <2>2 DEF Nothing, Sent, None
    <3> QED
      BY <3>1
  <2>3. ASSUME NEW h \in ReqHeader, hdr[q] = Sent("request", h, Outgoing(h))
        PROVE  Exempt(hdr[q].from, hdr[q].to, x)
    <3>1. hdr[q].from = h /\ hdr[q].to = Outgoing(h)
      BY <2>3 DEF Sent
    <3> QED
      BY <3>1, OutgoingIsClean
  <2>4. ASSUME NEW h \in ResHeader, hdr[q] = Sent("response", h, Returned(h))
        PROVE  Exempt(hdr[q].from, hdr[q].to, x)
    <3>1. hdr[q].from = h /\ hdr[q].to = Returned(h)
      BY <2>4 DEF Sent
    <3> QED
      BY <3>1, ReturnedIsClean
  <2>5. ASSUME NEW h \in ResHeader, hdr[q] = Sent("switch", h, h)
        PROVE  FALSE
    BY <2>5 DEF Sent
  <2> QED
    BY <2>1, <2>2, <2>3, <2>4, <2>5 DEF PassedOn
<1> QED
  BY <1>1, HttpInvariant, PTL

LEMMA HelloInvariant == HelloSpec => []GotInv
  BY GotInit, GotSteps, PTL DEF HelloSpec

(* Theorem: whatever bytes a client sends, and however they are cut into   *)
(* pieces, the remote gets them and no others, in their order, as long as  *)
(* every Read filled its buffer.                                           *)
THEOREM RecordPassesIntact == HelloSpec => []ForwardedIntact
<1>1. GotInv => ForwardedIntact
  <2> SUFFICES ASSUME GotInv, ~short PROVE IsPrefix(sent, hello.bytes)
    BY DEF ForwardedIntact
  <2>1. hello \in Hello /\ taken \in Nat /\ taken <= Len(hello.bytes) /\ Len(hello.bytes) \in Nat
    BY HelloAssumption, LenProperties DEF GotInv
  <2>2. PICK t \in Nat : t <= Len(hello.bytes) /\ sent = SubSeq(hello.bytes, 1, t)
    <3>1. SubSeq(hello.bytes, 1, 0) = <<>> /\ 0 <= Len(hello.bytes)
      BY <2>1, SubSeqEmpty
    <3>2. CASE hpc = "copy"
      BY <2>1, <3>2 DEF GotInv
    <3>3. CASE hpc # "copy"
      <4>1. sent = SubSeq(hello.bytes, 1, 0)
        BY <3>1, <3>3 DEF GotInv
      <4> QED
        BY <3>1, <4>1
    <3> QED
      BY <3>2, <3>3
  <2>3. Len(sent) = t
    BY <2>1, <2>2, PrefixIs
  <2>4. SubSeq(sent, 1, t) = SubSeq(hello.bytes, 1, t)
    <3>1. \A i \in 1 .. t : hello.bytes[i] \in Byte
      BY <2>1, <2>2, HelloAssumption, ElementOfSeq
    <3>2. sent \in Seq(Byte)
      BY <2>2, <3>1, SubSeqProperties
    <3> QED
      BY <2>2, <2>3, <3>2, SubSeqFull
  <2> QED
    BY <2>2, <2>3, <2>4 DEF IsPrefix
<1> QED
  BY <1>1, HelloInvariant, PTL

(* Theorem: whatever records clients send, in one that is well-formed and  *)
(* read whole, however long its fields and whatever its extensions, the    *)
(* search finds the server's name if there is one, takes nothing else for  *)
(* it and never indexes beyond the end.                                    *)
THEOREM NameIsFound == HelloSpec => []FindsServerName
<1> DEFINE Known == WellFormed(hello) => WalkInv
<1>1. HelloInit => Known
  BY WalkInit
<1>2. GotInv /\ Known /\ [HelloNext]_hvars => Known'
  <2>1. [HelloNext]_hvars => hello' = hello
    BY ShortStays
  <2>2. [HelloNext]_hvars => (WellFormed(hello)' <=> WellFormed(hello))
    <3> SUFFICES ASSUME [HelloNext]_hvars PROVE WellFormed(hello)' <=> WellFormed(hello)
      OBVIOUS
    <3> hello' = hello
      BY <2>1
    <3> QED
      OBVIOUS
  <2> QED
    BY <2>2, WalkSteps
<1>3. GotInv /\ Known => FindsServerName
  BY DEF WalkInv, FindsServerName, GotInv
<1> QED
  BY <1>1, <1>2, <1>3, HelloInvariant, PTL DEF HelloSpec

=============================================================================

--------------------------- MODULE UdpServerProofs ---------------------------
(***************************************************************************)
(* The UDP side of a relay for any number of clients, sessions, datagrams  *)
(* and slots: type correctness, one session per client, where the slots    *)
(* are, and that no buffer but that of a session's first datagram is ever  *)
(* shared.                                                                 *)
(***************************************************************************)
EXTENDS UdpServer, FiniteSetTheorems, TLAPS

(* The types, in four parts, with what the locals of the goroutines hold   *)
(* while they are in use.                                                  *)
LoopTypes ==
  /\ loop \in [pc : LoopPc, buf : Buf \cup {None}, client : Client \cup {None},
               dgram : 0 .. MaxDgram, ses : 0 .. MaxSession]
  /\ loop.pc \notin {"select", "go", "done"} => loop.buf \in Buf
  /\ loop.pc \in {"lookup", "send", "new", "cache", "put", "go"}
       => loop.client \in Client /\ loop.dgram \in Dgram
  /\ loop.pc \in {"send", "cache", "put", "go"} => loop.ses \in Session

SessTypes ==
  /\ sess \in [Session -> [client : Client \cup {None}, connected : BOOLEAN,
                           cache : Seq(Entry)]]
  /\ \A s \in Session : Len(sess[s].cache) <= CacheCap

CopyTypes ==
  /\ copy \in [Session -> [Dir -> [pc : CopyPc, buf : Buf \cup {None}]]]
  /\ \A s \in Session, d \in Dir :
       copy[s][d].pc \in {"select", "read", "write", "put"} => copy[s][d].buf \in Buf

OtherTypes ==
  /\ limit \in Limits /\ stopped \in BOOLEAN /\ bound \in BOOLEAN
  /\ inbox \in Seq(Client \X Dgram)
  /\ nsent \in 0 .. MaxDgram /\ nsess \in 0 .. MaxSession
  /\ table \in [Client -> 0 .. MaxSession]
  /\ handler \in [Session -> HandlerPc]
  /\ rc \subseteq Session
  /\ tokens \in Nat /\ tcpHalf \in Nat
  /\ pool \subseteq Buf
  /\ mem \in [Buf -> 0 .. MaxDgram]

Types == LoopTypes /\ SessTypes /\ CopyTypes /\ OtherTypes

-----------------------------------------------------------------------------
(* Types *)

LEMMA TypesInit == Init => Types
<1> SUFFICES ASSUME Init PROVE Types
  OBVIOUS
<1> USE UdpAssumption
<1>1. LoopTypes
  BY DEF Init, Idle, LoopTypes, LoopPc
<1>2. SessTypes
  BY DEF Init, SessTypes
<1>3. CopyTypes
  BY DEF Init, CopyTypes, CopyPc
<1>4. OtherTypes
  <2>1. <<>> \in Seq(Client \X Dgram)
    OBVIOUS
  <2>2. 0 \in 0 .. MaxDgram /\ 0 \in 0 .. MaxSession /\ 0 \in Nat
    OBVIOUS
  <2>3. /\ table \in [Client -> 0 .. MaxSession] /\ mem \in [Buf -> 0 .. MaxDgram]
        /\ handler \in [Session -> HandlerPc]
    BY <2>2 DEF Init, HandlerPc
  <2> HIDE UdpAssumption
  <2> QED BY <2>1, <2>2, <2>3 DEF Init, OtherTypes
<1> QED BY <1>1, <1>2, <1>3, <1>4 DEF Types

LEMMA LoopTypesKept == LoopTypes /\ UNCHANGED loop => LoopTypes'
  BY DEF LoopTypes
LEMMA SessTypesKept == SessTypes /\ UNCHANGED sess => SessTypes'
  BY DEF SessTypes
LEMMA CopyTypesKept == CopyTypes /\ UNCHANGED copy => CopyTypes'
  BY DEF CopyTypes

LEMMA IdleTypes == loop' \in {Idle, [Idle EXCEPT !.pc = "done"]} => LoopTypes'
  BY UdpAssumption DEF Idle, LoopTypes, LoopPc

(* The step the loop goes to, and the locals it keeps *)
LEMMA LoopGoesTo ==
  ASSUME LoopTypes, NEW l, LoopGoto(l)
  PROVE  /\ loop'.pc = l /\ loop'.buf = loop.buf /\ loop'.client = loop.client
         /\ loop'.dgram = loop.dgram /\ loop'.ses = loop.ses
  BY DEF LoopTypes, LoopGoto

LEMMA LoopHas ==
  /\ LoopSelects => loop'.pc = "acquire"
  /\ LoopTypes /\ LoopReads => /\ loop'.pc = "lookup" /\ loop'.buf = loop.buf
                              /\ loop'.dgram = Head(inbox)[2]
  /\ LoopTypes /\ LoopPuts => /\ loop'.pc = "go" /\ loop'.buf = None
                             /\ loop'.ses = loop.ses
  /\ LoopTypes /\ NewUDPConn => /\ loop'.pc = "cache" /\ loop'.ses = nsess + 1
                               /\ loop'.buf = loop.buf
<1>1. LoopSelects => loop'.pc = "acquire"
  BY DEF LoopSelects, Idle
<1>2. ASSUME LoopTypes, LoopReads
      PROVE  /\ loop'.pc = "lookup" /\ loop'.buf = loop.buf
             /\ loop'.dgram = Head(inbox)[2]
  BY <1>2 DEF LoopReads, LoopTypes
<1>3. ASSUME LoopTypes, LoopPuts
      PROVE  loop'.pc = "go" /\ loop'.buf = None /\ loop'.ses = loop.ses
  BY <1>3 DEF LoopPuts, LoopTypes
<1>4. ASSUME LoopTypes, NewUDPConn
      PROVE  loop'.pc = "cache" /\ loop'.ses = nsess + 1 /\ loop'.buf = loop.buf
  BY <1>4 DEF NewUDPConn, LoopTypes
<1> QED BY <1>1, <1>2, <1>3, <1>4

LEMMA CacheGrows ==
  ASSUME LoopTypes, SessTypes, NEW first \in BOOLEAN, loop.pc \in {"send", "cache"},
         Caches(first)
  PROVE  SessTypes'
<1> DEFINE e == [buf |-> loop.buf, dgram |-> loop.dgram, first |-> first]
           c == sess[loop.ses].cache
<1>1. loop.ses \in Session /\ e \in Entry
  BY DEF LoopTypes, Entry
<1>2. c \in Seq(Entry) /\ Len(c) < CacheCap
  BY <1>1 DEF SessTypes, Caches
<1>3. Append(c, e) \in Seq(Entry) /\ Len(Append(c, e)) = Len(c) + 1
  BY <1>1, <1>2
<1>4. sess' = [sess EXCEPT ![loop.ses].cache = Append(c, e)]
  BY DEF Caches
<1>5. Len(Append(c, e)) <= CacheCap
  BY <1>2, <1>3, UdpAssumption
<1> HIDE DEF e, c
<1> QED BY <1>1, <1>3, <1>4, <1>5 DEF SessTypes

LEMMA LoopStepTypes == Types /\ Loop => Types'
<1> SUFFICES ASSUME Types, Loop PROVE Types'
  OBVIOUS
<1> USE UdpAssumption DEF Types
<1>0. CopyTypes'
  BY CopyTypesKept DEF Loop, LoopSelects, LoopStops, acquireConn, LoopReads, LoopTemporary,
     LoopFails, LoopLooksUp, LoopSends, NewUDPConn, LoopCachesFirst, LoopPuts, LoopGoes, workers
<1>1. CASE LoopSelects
  <2>1. PICK b \in Buf : Gets(b, NewForLoop) /\ loop' = [Idle EXCEPT !.pc = "acquire", !.buf = b]
    BY <1>1 DEF LoopSelects
  <2>2. LoopTypes'
    <3>1. loop' = [pc |-> "acquire", buf |-> b, client |-> None, dgram |-> 0, ses |-> 0]
      BY <2>1 DEF Idle
    <3> QED BY <3>1 DEF LoopTypes, LoopPc
  <2>3. OtherTypes'
    BY <1>1, <2>1 DEF LoopSelects, Gets, OtherTypes, relayState, sessions, workers
  <2> QED BY <1>0, <1>1, <2>2, <2>3, SessTypesKept DEF LoopSelects, sessions
<1>2. CASE LoopStops
  <2>1. LoopTypes'
    BY <1>2 DEF LoopStops, LoopGoto, LoopTypes, LoopPc
  <2>2. OtherTypes'
    BY <1>2 DEF LoopStops, OtherTypes, relayState, sessions, workers
  <2> QED BY <1>0, <1>2, <2>1, <2>2, SessTypesKept DEF LoopStops, sessions
<1>3. CASE acquireConn
  <2>1. LoopTypes'
    BY <1>3 DEF acquireConn, LoopGoto, LoopTypes, LoopPc
  <2>2. OtherTypes'
    BY <1>3 DEF acquireConn, OtherTypes, relayState, sessions, workers
  <2> QED BY <1>0, <1>3, <2>1, <2>2, SessTypesKept DEF acquireConn, sessions
<1>4. CASE LoopReads
  <2>1. Head(inbox) \in Client \X Dgram /\ Tail(inbox) \in Seq(Client \X Dgram)
    BY <1>4 DEF LoopReads, OtherTypes
  <2>2. PICK c \in Client, n \in Dgram :
          /\ mem' = [mem EXCEPT ![loop.buf] = n]
          /\ loop' = [loop EXCEPT !.pc = "lookup", !.client = c, !.dgram = n]
    BY <1>4, <2>1 DEF LoopReads
  <2>3. LoopTypes' /\ loop.buf \in Buf
    <3>1. loop' = [pc |-> "lookup", buf |-> loop.buf, client |-> c, dgram |-> n, ses |-> loop.ses]
      BY <2>2 DEF LoopTypes
    <3>2. n \in 0 .. MaxDgram /\ loop.buf \in Buf
      BY <1>4 DEF Dgram, LoopReads, LoopTypes, LoopPc
    <3>3. loop.ses \in 0 .. MaxSession
      BY DEF LoopTypes
    <3> QED BY <3>1, <3>2, <3>3 DEF LoopTypes, LoopPc
  <2>4. OtherTypes'
    <3>1. mem' \in [Buf -> 0 .. MaxDgram]
      BY <2>2, <2>3 DEF OtherTypes, Dgram
    <3> QED BY <1>4, <2>1, <3>1 DEF LoopReads, OtherTypes, relayState, sessions, workers
  <2> QED BY <1>0, <1>4, <2>3, <2>4, SessTypesKept DEF LoopReads, sessions
<1>5. CASE LoopTemporary \/ LoopFails
  <2>1. LoopTypes'
    BY <1>5, IdleTypes DEF LoopTemporary, LoopFails
  <2>2. OtherTypes'
    BY <1>5 DEF LoopTemporary, LoopFails, releaseConn, OtherTypes, relayState, sessions, workers
  <2> QED BY <1>0, <1>5, <2>1, <2>2, SessTypesKept DEF LoopTemporary, LoopFails, sessions
<1>6. CASE LoopLooksUp
  <2>1. loop.client \in Client /\ table[loop.client] \in 0 .. MaxSession
    BY <1>6 DEF LoopLooksUp, LoopTypes, OtherTypes
  <2>2. LoopTypes'
    <3>1. CASE LoopGoto("new")
      BY <1>6, <3>1 DEF LoopLooksUp, LoopGoto, LoopTypes, LoopPc
    <3>2. CASE LET s == table[loop.client] IN s # 0 /\ loop' = [loop EXCEPT !.pc = "send", !.ses = s]
      <4> DEFINE s == table[loop.client]
      <4>1. loop' = [pc |-> "send", buf |-> loop.buf, client |-> loop.client,
                     dgram |-> loop.dgram, ses |-> s]
        BY <3>2 DEF LoopTypes
      <4>2. s \in 0 .. MaxSession /\ s \in Session
        BY <2>1, <3>2 DEF Session
      <4>3. loop.buf \in Buf /\ loop.dgram \in Dgram /\ loop.dgram \in 0 .. MaxDgram
        BY <1>6 DEF LoopLooksUp, LoopTypes
      <4> HIDE DEF s
      <4> QED BY <2>1, <4>1, <4>2, <4>3 DEF LoopTypes, LoopPc
    <3> QED BY <1>6, <3>1, <3>2 DEF LoopLooksUp
  <2>3. OtherTypes'
    <3>1. table' \in [Client -> 0 .. MaxSession]
      BY <1>6, <2>1 DEF LoopLooksUp, OtherTypes
    <3> QED BY <1>6, <3>1 DEF LoopLooksUp, OtherTypes, relayState, workers
  <2> QED BY <1>0, <1>6, <2>2, <2>3, SessTypesKept DEF LoopLooksUp
<1>7. CASE LoopSends
  <2>1. LoopTypes' /\ SessTypes'
    BY <1>7, IdleTypes, CacheGrows DEF LoopSends
  <2>2. OtherTypes'
    BY <1>7 DEF LoopSends, OtherTypes, relayState, workers
  <2> QED BY <1>0, <2>1, <2>2
<1>8. CASE NewUDPConn
  <2>1. nsess' \in Session /\ nsess' \in 0 .. MaxSession /\ loop.client \in Client
    BY <1>8 DEF NewUDPConn, LoopTypes, OtherTypes, Session
  <2>2. SessTypes'
    BY <1>8, <2>1 DEF NewUDPConn, SessTypes
  <2>3. LoopTypes'
    BY <1>8, <2>1 DEF NewUDPConn, LoopTypes, LoopPc
  <2>4. OtherTypes'
    BY <1>8, <2>1 DEF NewUDPConn, OtherTypes, relayState, workers
  <2> QED BY <1>0, <2>2, <2>3, <2>4
<1>9. CASE LoopCachesFirst
  <2>1. SessTypes'
    BY <1>9, CacheGrows DEF LoopCachesFirst
  <2>2. LoopTypes'
    BY <1>9 DEF LoopCachesFirst, LoopGoto, LoopTypes, LoopPc
  <2>3. OtherTypes'
    BY <1>9 DEF LoopCachesFirst, OtherTypes, relayState, workers
  <2> QED BY <1>0, <2>1, <2>2, <2>3
<1>10. CASE LoopPuts
  <2>1. LoopTypes' /\ loop.buf \in Buf
    BY <1>10 DEF LoopPuts, LoopTypes, LoopPc
  <2>2. OtherTypes'
    BY <1>10, <2>1 DEF LoopPuts, Puts, OtherTypes, relayState, sessions, workers
  <2> QED BY <1>0, <1>10, <2>1, <2>2, SessTypesKept DEF LoopPuts, sessions
<1>11. CASE LoopGoes
  <2>1. LoopTypes' /\ loop.ses \in Session
    BY <1>11, IdleTypes DEF LoopGoes, LoopTypes
  <2>2. OtherTypes'
    BY <1>11, <2>1 DEF LoopGoes, OtherTypes, HandlerPc, relayState, sessions
  <2> QED BY <1>0, <1>11, <2>1, <2>2, SessTypesKept DEF LoopGoes, sessions
<1> QED BY <1>1, <1>2, <1>3, <1>4, <1>5, <1>6, <1>7, <1>8, <1>9, <1>10, <1>11 DEF Loop

LEMMA HandleTypes == ASSUME Types, NEW s \in Session, Handle(s) PROVE Types'
<1> USE UdpAssumption DEF Types
<1>0. LoopTypes'
  BY LoopTypesKept DEF Handle, DialFails, DialSucceeds, CopyEnds, HandlerReleases, UDPConnClose
<1>1. CASE DialFails(s) \/ CopyEnds(s)
  <2>1. OtherTypes'
    BY <1>1 DEF DialFails, CopyEnds, HandlerGoto, OtherTypes, HandlerPc, relayState, sessions
  <2> QED BY <1>0, <1>1, <2>1, SessTypesKept, CopyTypesKept DEF DialFails, CopyEnds, sessions
<1>2. CASE DialSucceeds(s)
  <2>1. OtherTypes'
    BY <1>2 DEF DialSucceeds, HandlerGoto, OtherTypes, HandlerPc, relayState, sessions
  <2>2. CopyTypes'
    BY <1>2 DEF DialSucceeds, CopyTypes, CopyPc
  <2> QED BY <1>0, <1>2, <2>1, <2>2, SessTypesKept DEF DialSucceeds, sessions
<1>3. CASE HandlerReleases(s)
  <2>1. OtherTypes'
    BY <1>3 DEF HandlerReleases, releaseConn, HandlerGoto, OtherTypes, HandlerPc, relayState, sessions
  <2> QED BY <1>0, <1>3, <2>1, SessTypesKept, CopyTypesKept DEF HandlerReleases, sessions
<1>4. CASE UDPConnClose(s)
  <2>1. OtherTypes'
    BY <1>4 DEF UDPConnClose, HandlerGoto, OtherTypes, HandlerPc, relayState
  <2>2. SessTypes'
    BY <1>4 DEF UDPConnClose, SessTypes
  <2> QED BY <1>0, <1>4, <2>1, <2>2, CopyTypesKept DEF UDPConnClose
<1> QED BY <1>1, <1>2, <1>3, <1>4 DEF Handle

(* The steps of the copy of session s in direction d *)
Copying(s, d) == Copy(s, d) \/ (d = "up" /\ Up(s)) \/ (d = "down" /\ Down(s))

LEMMA CopyingKeeps ==
  ASSUME NEW s \in Session, NEW d \in Dir, Copying(s, d)
  PROVE  UNCHANGED still
  BY DEF Copying, Copy, Up, Down, CopyGets, CopySelects, UpReads, UpReadFails, DownReads,
         DownReadFails, CopyWrites, CopyWriteFails, CopyPuts

LEMMA CopyGoes ==
  ASSUME CopyTypes, NEW s \in Session, NEW d \in Dir,
         NEW l \in {"select", "read", "write", "put"}, CopyGoto(s, d, l),
         copy[s][d].pc \in {"select", "read", "write", "put"}
  PROVE  CopyTypes'
  BY DEF CopyGoto, CopyTypes, CopyPc

LEMMA CopyingTypes ==
  ASSUME Types, NEW s \in Session, NEW d \in Dir, Copying(s, d) PROVE Types'
<1> USE UdpAssumption DEF Types
<1>0. UNCHANGED still /\ LoopTypes'
  BY CopyingKeeps, LoopTypesKept DEF still
<1>1. ASSUME mem' \in [Buf -> 0 .. MaxDgram], pool' \subseteq Buf, SessTypes', CopyTypes'
      PROVE  Types'
  BY <1>0, <1>1 DEF OtherTypes, still, relayState
<1>2. pool \subseteq Buf /\ mem \in [Buf -> 0 .. MaxDgram]
  BY DEF OtherTypes
<1>3. CASE CopyGets(s, d)
  <2>1. PICK b \in Buf : /\ Gets(b, <<s, d>>)
                         /\ copy' = [copy EXCEPT ![s][d] = [pc |-> "select", buf |-> b]]
    BY <1>3 DEF CopyGets
  <2>2. CopyTypes'
    BY <2>1 DEF CopyTypes, CopyPc
  <2> QED BY <1>1, <1>2, <1>3, <2>1, <2>2, SessTypesKept DEF CopyGets, Gets
<1>4. CASE CopySelects(s, d) \/ CopyWrites(s, d) \/ CopyWriteFails(s, d)
  <2>1. CopyTypes'
    BY <1>4, CopyGoes DEF CopySelects, CopyWrites, CopyWriteFails, CopyAt
  <2> QED BY <1>1, <1>2, <1>4, <2>1, SessTypesKept DEF CopySelects, CopyWrites, CopyWriteFails
<1>5. CASE CopyPuts(s, d)
  <2>1. CopyTypes' /\ copy[s][d].buf \in Buf
    BY <1>5 DEF CopyPuts, CopyAt, CopyTypes, CopyPc
  <2> QED BY <1>1, <1>2, <1>5, <2>1, SessTypesKept DEF CopyPuts, Puts
<1>6. CASE d = "up" /\ UpReads(s)
  <2>1. /\ sess[s].cache \in Seq(Entry) /\ sess[s].cache # <<>> /\ Len(sess[s].cache) <= CacheCap
    BY <1>6 DEF UpReads, SessTypes
  <2>2. /\ Head(sess[s].cache) \in Entry /\ Tail(sess[s].cache) \in Seq(Entry)
        /\ Len(Tail(sess[s].cache)) <= CacheCap
    BY <2>1
  <2>3. SessTypes'
    BY <1>6, <2>2 DEF UpReads, SessTypes
  <2>4. mem[Head(sess[s].cache).buf] \in 0 .. MaxDgram
    BY <1>2, <2>2 DEF Entry
  <2>5. mem' \in [Buf -> 0 .. MaxDgram]
    BY <1>2, <1>6, <2>4 DEF UpReads
  <2>6. CopyTypes'
    BY <1>6, CopyGoes DEF UpReads, CopyAt
  <2> QED BY <1>1, <1>2, <1>6, <2>3, <2>5, <2>6 DEF UpReads
<1>7. CASE (d = "up" /\ UpReadFails(s)) \/ (d = "down" /\ DownReadFails(s))
  <2>1. CopyTypes'
    BY <1>7, CopyGoes DEF UpReadFails, DownReadFails, CopyAt
  <2> QED BY <1>1, <1>2, <1>7, <2>1, SessTypesKept DEF UpReadFails, DownReadFails
<1>8. CASE d = "down" /\ DownReads(s)
  <2>1. mem' \in [Buf -> 0 .. MaxDgram]
    <3>1. 0 \in 0 .. MaxDgram
      OBVIOUS
    <3> QED BY <1>2, <1>8, <3>1 DEF DownReads
  <2>2. CopyTypes'
    BY <1>8, CopyGoes DEF DownReads, CopyAt
  <2> QED BY <1>1, <1>2, <1>8, <2>1, <2>2, SessTypesKept DEF DownReads
<1> HIDE DEF Types
<1>9. CASE Copy(s, d)
  BY <1>3, <1>4, <1>5, <1>9 DEF Copy
<1>10. CASE d = "up" /\ Up(s)
  BY <1>6, <1>7, <1>10 DEF Up
<1>11. CASE d = "down" /\ Down(s)
  BY <1>7, <1>8, <1>11 DEF Down
<1> QED BY <1>9, <1>10, <1>11 DEF Copying

(* Clients, Close() and the TCP half *)
Other == TcpTakes \/ TcpReturns
Outside == (\E c \in Client : Sends(c)) \/ CloseStopCh \/ CloseUDPConn \/ Other

LEMMA OutsideKeeps == Outside => UNCHANGED <<loop, sessions, workers, pool, mem>>
  BY DEF Outside, Other, Sends, CloseStopCh, CloseUDPConn, TcpTakes, TcpReturns, sessions, workers

LEMMA OutsideTypes == Types /\ Outside => Types'
<1> SUFFICES ASSUME Types, Outside PROVE Types'
  OBVIOUS
<1> USE UdpAssumption DEF Types
<1>0. LoopTypes' /\ SessTypes' /\ CopyTypes'
  BY OutsideKeeps, LoopTypesKept, SessTypesKept, CopyTypesKept DEF sessions, workers
<1>1. CASE \E c \in Client : Sends(c)
  <2>1. PICK c \in Client : Sends(c)
    BY <1>1
  <2>2. <<c, nsent'>> \in Client \X Dgram /\ nsent' \in 0 .. MaxDgram
    BY <2>1 DEF Sends, OtherTypes, Dgram
  <2>3. inbox' \in Seq(Client \X Dgram)
    BY <2>1, <2>2 DEF Sends, OtherTypes
  <2> QED BY <1>0, <2>1, <2>2, <2>3 DEF Sends, OtherTypes, relayState, sessions, workers
<1>2. CASE CloseStopCh
  BY <1>0, <1>2 DEF CloseStopCh, OtherTypes, sessions, workers
<1>3. CASE CloseUDPConn
  <2>1. inbox' \in Seq(Client \X Dgram)
    BY <1>3 DEF CloseUDPConn
  <2> QED BY <1>0, <1>3, <2>1 DEF CloseUDPConn, OtherTypes, sessions, workers
<1>4. CASE Other
  <2>1. tokens' \in Nat /\ tcpHalf' \in Nat
    BY <1>4 DEF Other, TcpTakes, TcpReturns, releaseConn, OtherTypes
  <2> QED BY <1>0, <1>4, <2>1 DEF Other, TcpTakes, TcpReturns, OtherTypes, sessions, workers
<1> QED BY <1>1, <1>2, <1>3, <1>4 DEF Outside

LEMMA Steps ==
  ASSUME [Next]_vars
  PROVE  \/ Outside \/ Loop \/ UNCHANGED vars
         \/ \E s \in Session : Handle(s) \/ \E d \in Dir : Copying(s, d)
<1> "up" \in Dir /\ "down" \in Dir
  BY DEF Dir
<1> QED BY DEF Next, Outside, Other, Copying

LEMMA TypesStep == Types /\ [Next]_vars => Types'
<1> SUFFICES ASSUME Types, [Next]_vars PROVE Types'
  OBVIOUS
<1>1. CASE UNCHANGED vars
  BY <1>1, LoopTypesKept, SessTypesKept, CopyTypesKept DEF vars, Types, OtherTypes
<1> QED BY <1>1, Steps, LoopStepTypes, OutsideTypes, HandleTypes, CopyingTypes

(* Every variable keeps its type for any clients, sessions and limit: the  *)
(* caches stay within their capacity, no goroutine uses a local that is    *)
(* not set, and no handler waits for a slot that was never taken           *)
(* (udp.go:14-84).                                                         *)
THEOREM UdpTypes == Spec => []TypeOK
<1>1. Types => TypeOK
  BY DEF Types, LoopTypes, SessTypes, CopyTypes, OtherTypes, TypeOK
<1> QED BY <1>1, TypesInit, TypesStep, PTL DEF Spec

-----------------------------------------------------------------------------
(* Sessions *)

(* A session that is connected is the one the table has for its client,    *)
(* and the table has none for a client whose session is about to be made.  *)
SessInv ==
  /\ \A s \in Session : sess[s].connected =>
       /\ s <= nsess /\ sess[s].client \in Client /\ table[sess[s].client] = s
  /\ loop.pc = "new" => table[loop.client] = 0

LEMMA SessInit == Init => SessInv
  BY DEF Init, SessInv, Idle

LEMMA SessKept ==
  ASSUME Types, SessInv, UNCHANGED <<table, nsess>>, loop' = loop \/ loop'.pc # "new",
         sess' \in [Session -> [client : Client \cup {None}, connected : BOOLEAN, cache : Seq(Entry)]],
         \A s \in Session : /\ sess'[s].client = sess[s].client
                            /\ sess'[s].connected => sess[s].connected
  PROVE  SessInv'
  BY DEF SessInv

LEMMA CachesKeepSessions ==
  ASSUME Types, NEW first \in BOOLEAN, loop.pc \in {"send", "cache"}, Caches(first)
  PROVE  \A s \in Session : /\ sess'[s].client = sess[s].client
                            /\ sess'[s].connected = sess[s].connected
  BY DEF Caches, Types, SessTypes

LEMMA LoopSessions == Types /\ SessInv /\ Loop => SessInv'
<1> SUFFICES ASSUME Types, SessInv, Loop PROVE SessInv'
  OBVIOUS
<1>0. Types' /\ LoopTypes
  BY LoopStepTypes DEF Types
<1>1. CASE LoopLooksUp
  <2>1. /\ loop.client \in Client /\ UNCHANGED <<sess, nsess>>
        /\ table \in [Client -> 0 .. MaxSession]
    BY <1>1 DEF LoopLooksUp, Types, LoopTypes, OtherTypes
  <2>2. CASE LoopGoto("new") /\ table' = [table EXCEPT ![loop.client] = 0]
    <3>1. ~(table[loop.client] # 0 /\ sess[table[loop.client]].connected)
      BY <1>1, <2>2 DEF LoopLooksUp, LoopGoto, Types, LoopTypes
    <3>2. loop'.client = loop.client
      BY <2>2 DEF LoopGoto, Types, LoopTypes
    <3>3. ASSUME NEW s \in Session, sess[s].connected
          PROVE  sess[s].client # loop.client
      BY <3>1, <3>3 DEF SessInv, Session
    <3> QED BY <2>1, <2>2, <3>2, <3>3 DEF SessInv
  <2>3. CASE UNCHANGED table /\ loop'.pc = "send"
    BY <2>1, <2>3 DEF SessInv
  <2> QED BY <1>1, <2>2, <2>3 DEF LoopLooksUp, Types, LoopTypes
<1>2. CASE NewUDPConn
  <2>1. /\ nsess' = nsess + 1 /\ nsess' \in Session /\ nsess \in Nat
        /\ loop.client \in Client /\ table[loop.client] = 0
        /\ table' = [table EXCEPT ![loop.client] = nsess']
        /\ sess' = [sess EXCEPT ![nsess'] =
                      [client |-> loop.client, connected |-> TRUE, cache |-> <<>>]]
        /\ loop'.pc = "cache"
    BY <1>2, UdpAssumption DEF NewUDPConn, SessInv, Session, Types, LoopTypes, OtherTypes
  <2>2. ASSUME NEW s \in Session, sess'[s].connected
        PROVE  s <= nsess' /\ sess'[s].client \in Client /\ table'[sess'[s].client] = s
    <3>1. CASE s = nsess'
      BY <2>1, <3>1 DEF Types, SessTypes, OtherTypes
    <3>2. CASE s # nsess'
      <4>1. sess'[s] = sess[s]
        BY <2>1, <3>2 DEF Types, SessTypes
      <4>2. s <= nsess /\ sess[s].client \in Client /\ table[sess[s].client] = s
        BY <2>2, <4>1 DEF SessInv
      <4>3. sess[s].client # loop.client
        BY <2>1, <4>2 DEF Session
      <4> QED BY <2>1, <4>1, <4>2, <4>3 DEF Types, OtherTypes, Session
    <3> QED BY <3>1, <3>2
  <2> QED BY <2>1, <2>2 DEF SessInv
<1>3. CASE LoopSends \/ LoopCachesFirst
  <2>1. /\ \A s \in Session : /\ sess'[s].client = sess[s].client
                              /\ sess'[s].connected = sess[s].connected
        /\ UNCHANGED <<table, nsess>>
    BY <1>3, CachesKeepSessions DEF LoopSends, LoopCachesFirst
  <2>2. loop'.pc # "new"
    <3>1. CASE LoopSends
      BY <3>1 DEF LoopSends, Idle
    <3>2. CASE LoopCachesFirst
      BY <1>0, <3>2, LoopGoesTo DEF LoopCachesFirst
    <3> QED BY <1>3, <3>1, <3>2
  <2> QED BY <1>0, <2>1, <2>2, SessKept DEF Types, SessTypes
<1>4. CASE \/ LoopSelects \/ LoopStops \/ acquireConn \/ LoopReads \/ LoopTemporary
           \/ LoopFails \/ LoopPuts \/ LoopGoes
  <2>1. UNCHANGED <<table, nsess, sess>>
    BY <1>4 DEF LoopSelects, LoopStops, acquireConn, LoopReads, LoopTemporary, LoopFails,
       LoopPuts, LoopGoes, sessions
  <2>2. loop'.pc # "new"
    <3>1. CASE LoopTemporary \/ LoopFails \/ LoopGoes
      BY <3>1 DEF LoopTemporary, LoopFails, LoopGoes, Idle
    <3>2. CASE LoopStops \/ acquireConn
      BY <1>0, <3>2, LoopGoesTo DEF LoopStops, acquireConn
    <3>3. CASE LoopSelects \/ LoopReads \/ LoopPuts
      BY <1>0, <3>3, LoopHas
    <3> QED BY <1>4, <3>1, <3>2, <3>3
  <2> QED BY <1>0, <2>1, <2>2, SessKept DEF Types, SessTypes
<1> QED BY <1>1, <1>2, <1>3, <1>4 DEF Loop

LEMMA SessStep == Types /\ SessInv /\ [Next]_vars => SessInv'
<1> SUFFICES ASSUME Types, SessInv, [Next]_vars PROVE SessInv'
  OBVIOUS
<1>0. Types'
  BY TypesStep
<1>1. CASE Outside \/ UNCHANGED vars
  BY <1>1, OutsideKeeps DEF vars, sessions, SessInv
<1>2. ASSUME NEW s \in Session, Handle(s) PROVE SessInv'
  <2>1. UNCHANGED <<loop, table, nsess>>
    BY <1>2 DEF Handle, DialFails, DialSucceeds, CopyEnds, HandlerReleases, UDPConnClose, sessions
  <2>2. \A t \in Session : /\ sess'[t].client = sess[t].client
                           /\ sess'[t].connected => sess[t].connected
    <3>1. CASE UDPConnClose(s)
      BY <3>1 DEF UDPConnClose, Types, SessTypes
    <3>2. CASE ~UDPConnClose(s)
      BY <1>2, <3>2 DEF Handle, DialFails, DialSucceeds, CopyEnds, HandlerReleases, sessions
    <3> QED BY <3>1, <3>2
  <2> QED BY <1>0, <2>1, <2>2, SessKept DEF Types, SessTypes
<1>3. ASSUME NEW s \in Session, NEW d \in Dir, Copying(s, d) PROVE SessInv'
  <2>1. UNCHANGED <<loop, table, nsess>>
    BY <1>3, CopyingKeeps DEF still
  <2>2. UNCHANGED sess \/ sess' = [sess EXCEPT ![s].cache = Tail(@)]
    BY <1>3 DEF Copying, Copy, Up, Down, CopyGets, CopySelects, UpReads, UpReadFails,
       DownReads, DownReadFails, CopyWrites, CopyWriteFails, CopyPuts
  <2>3. \A t \in Session : /\ sess'[t].client = sess[t].client
                           /\ sess'[t].connected => sess[t].connected
    BY <2>2 DEF Types, SessTypes
  <2> QED BY <1>0, <2>1, <2>3, SessKept DEF Types, SessTypes
<1> QED BY <1>1, <1>2, <1>3, Steps, LoopSessions

(* However datagrams, time-outs and Close() of the sessions interleave, a  *)
(* client never has two connected sessions (udp.go:37-46).                 *)
THEOREM OneSessionPerClient == Spec => []OneSession
<1>1. SessInv => OneSession
  BY DEF SessInv, OneSession
<1>2. Types /\ SessInv /\ [Next]_vars => Types' /\ SessInv'
  BY TypesStep, SessStep
<1> QED BY <1>1, <1>2, TypesInit, SessInit, PTL DEF Spec

-----------------------------------------------------------------------------
(* Slots *)

Over == {s \in Session : handler[s] \in {"close", "done"}}

(* The handler of a session starts once, after the session was made.       *)
HandlerInv ==
  /\ \A s \in Session : handler[s] # "none" => s <= nsess
  /\ loop.pc \in {"cache", "put", "go"} => loop.ses <= nsess /\ handler[loop.ses] = "none"

SlotInv == HandlerInv /\ SlotsCounted

LEMMA OverFinite == IsFiniteSet(Over) /\ Cardinality(Over) \in Nat
<1>1. IsFiniteSet(Session)
  BY UdpAssumption, FS_Interval DEF Session
<1>2. Over \in SUBSET Session
  BY DEF Over
<1> QED BY <1>1, <1>2, FS_Subset, FS_CardinalityType

LEMMA SlotInit == Init => SlotInv
<1> SUFFICES ASSUME Init PROVE SlotInv
  OBVIOUS
<1>1. HandlerInv
  BY DEF Init, Idle, HandlerInv
<1>2. Over = {} /\ loop.pc # "read"
  BY DEF Init, Idle, Over
<1>3. SlotsCounted
  <2>1. Cardinality(Over) = 0 /\ Len(inbox) = 0
    BY <1>2, FS_EmptySet DEF Init
  <2> QED BY <1>2, <2>1 DEF Init, SlotsCounted, Over
<1> QED BY <1>1, <1>3 DEF SlotInv

LEMMA SlotsKept ==
  ASSUME SlotsCounted, UNCHANGED <<limit, bound, nsent, inbox, tokens, tcpHalf>>,
         Over' = Over, loop'.pc = "read" <=> loop.pc = "read"
  PROVE  SlotsCounted'
  BY DEF SlotsCounted, Over

LEMMA LoopSlots == Types /\ SlotInv /\ Loop => SlotInv'
<1> SUFFICES ASSUME Types, SlotInv, Loop PROVE SlotInv'
  OBVIOUS
<1> USE DEF SlotInv
<1>0. LoopTypes
  BY DEF Types
<1>1. CASE LoopSelects \/ LoopStops \/ LoopLooksUp \/ LoopSends
  <2>1. UNCHANGED <<limit, bound, tcpHalf, nsent, inbox, tokens, nsess, handler>>
    BY <1>1 DEF LoopSelects, LoopStops, LoopLooksUp, LoopSends, relayState, workers, sessions
  <2>2. loop.pc # "read" /\ loop'.pc \in {"acquire", "done", "send", "new", "select"}
    <3>1. CASE LoopSelects
      BY <3>1, LoopHas DEF LoopSelects
    <3>2. CASE LoopStops
      BY <1>0, <3>2, LoopGoesTo DEF LoopStops
    <3>3. CASE LoopLooksUp
      BY <1>0, <3>3 DEF LoopLooksUp, LoopGoto, LoopTypes
    <3>4. CASE LoopSends
      BY <3>4 DEF LoopSends, Idle
    <3> QED BY <1>1, <3>1, <3>2, <3>3, <3>4
  <2> QED BY <2>1, <2>2, SlotsKept DEF HandlerInv, Over
<1>2. CASE LoopCachesFirst \/ LoopPuts
  <2>1. UNCHANGED <<limit, bound, tcpHalf, nsent, inbox, tokens, nsess, handler>>
    BY <1>2 DEF LoopCachesFirst, LoopPuts, relayState, workers, sessions
  <2>2. /\ loop.pc \in {"cache", "put"} /\ loop'.pc \in {"put", "go"}
        /\ loop'.ses = loop.ses
    <3>1. CASE LoopCachesFirst
      BY <1>0, <3>1, LoopGoesTo DEF LoopCachesFirst
    <3>2. CASE LoopPuts
      BY <1>0, <3>2, LoopHas DEF LoopPuts
    <3> QED BY <1>2, <3>1, <3>2
  <2> QED BY <2>1, <2>2, SlotsKept DEF HandlerInv, Over
<1>3. CASE NewUDPConn
  <2>1. /\ UNCHANGED <<limit, bound, tcpHalf, nsent, inbox, tokens, handler>>
        /\ nsess' = nsess + 1 /\ nsess \in Nat /\ nsess + 1 \in Session
        /\ loop.pc = "new"
    BY <1>3, UdpAssumption DEF NewUDPConn, relayState, workers, Types, OtherTypes, Session
  <2>2. loop'.pc = "cache" /\ loop'.ses = nsess'
    BY <1>0, <1>3, <2>1, LoopHas
  <2>3. HandlerInv'
    BY <2>1, <2>2 DEF HandlerInv, Session
  <2> QED BY <2>1, <2>2, <2>3, SlotsKept DEF Over
<1>4. CASE acquireConn
  <2>1. /\ loop.pc = "acquire" /\ loop'.pc = "read"
        /\ UNCHANGED <<limit, bound, tcpHalf, nsent, inbox, nsess, handler>>
    BY <1>0, <1>4, LoopGoesTo DEF acquireConn, relayState, sessions, workers
  <2>2. limit > 0 => tokens' = tokens + 1
    BY <1>4 DEF acquireConn
  <2>3. tokens \in Nat /\ tcpHalf \in Nat /\ Len(inbox) \in Nat /\ nsent \in Nat
    BY UdpAssumption DEF Types, OtherTypes
  <2>4. SlotsCounted'
    BY <2>1, <2>2, <2>3, OverFinite DEF SlotsCounted, Over
  <2> QED BY <2>1, <2>4 DEF HandlerInv
<1>5. CASE LoopReads
  <2>1. /\ loop.pc = "read" /\ loop'.pc = "lookup"
        /\ UNCHANGED <<limit, bound, tcpHalf, nsent, tokens, nsess, handler>>
    BY <1>0, <1>5, LoopHas DEF LoopReads, relayState, sessions, workers
  <2>2. inbox \in Seq(Client \X Dgram) /\ inbox # <<>> /\ inbox' = Tail(inbox)
    BY <1>5 DEF LoopReads, Types, OtherTypes
  <2>3. Len(inbox') = Len(inbox) - 1 /\ Len(inbox) \in Nat
    BY <2>2
  <2>4. tokens \in Nat /\ tcpHalf \in Nat /\ nsent \in Nat
    BY UdpAssumption DEF Types, OtherTypes
  <2>5. SlotsCounted'
    BY <2>1, <2>3, <2>4, OverFinite DEF SlotsCounted, Over
  <2> QED BY <2>1, <2>5 DEF HandlerInv
<1>6. CASE LoopTemporary \/ LoopFails
  <2>1. /\ loop.pc = "read" /\ loop'.pc \in {"select", "done"}
        /\ UNCHANGED <<limit, bound, tcpHalf, nsent, inbox, nsess, handler>>
    BY <1>6 DEF LoopTemporary, LoopFails, Idle, relayState, sessions, workers
  <2>2. limit > 0 => tokens' = tokens - 1
    BY <1>6 DEF LoopTemporary, LoopFails, releaseConn
  <2>3. tokens \in Nat /\ tcpHalf \in Nat /\ Len(inbox) \in Nat /\ nsent \in Nat
    BY UdpAssumption DEF Types, OtherTypes
  <2>4. SlotsCounted'
    BY <2>1, <2>2, <2>3, OverFinite DEF SlotsCounted, Over
  <2> QED BY <2>1, <2>4 DEF HandlerInv
<1>7. CASE LoopGoes
  <2>1. /\ loop.pc = "go" /\ loop'.pc = "select" /\ loop.ses \in Session
        /\ UNCHANGED <<limit, bound, tcpHalf, nsent, inbox, tokens, nsess>>
        /\ handler' = [handler EXCEPT ![loop.ses] = "dial"]
    BY <1>0, <1>7 DEF LoopGoes, Idle, relayState, sessions, LoopTypes
  <2>2. loop.ses <= nsess /\ handler[loop.ses] = "none"
    BY <2>1 DEF HandlerInv
  <2>3. Over' = Over /\ HandlerInv'
    BY <2>1, <2>2 DEF Over, HandlerInv, Types, OtherTypes
  <2> QED BY <2>1, <2>3, SlotsKept
<1> QED BY <1>1, <1>2, <1>3, <1>4, <1>5, <1>6, <1>7 DEF Loop

LEMMA HandleSlots ==
  ASSUME Types, SlotInv, NEW s \in Session, Handle(s) PROVE SlotInv'
<1> USE DEF SlotInv
<1>0. UNCHANGED <<limit, bound, tcpHalf, nsent, inbox, loop, nsess>>
  BY DEF Handle, DialFails, DialSucceeds, CopyEnds, HandlerReleases, UDPConnClose, relayState, sessions
<1>1. PICK l \in {"release", "copy", "close", "done"} :
        handler[s] # "none" /\ handler' = [handler EXCEPT ![s] = l]
  BY DEF Handle, DialFails, DialSucceeds, CopyEnds, HandlerReleases, UDPConnClose, HandlerGoto
<1>2. HandlerInv'
  BY <1>0, <1>1 DEF HandlerInv, Types, OtherTypes, LoopTypes
<1>3. CASE HandlerReleases(s)
  <2>1. s \notin Over /\ Over' = Over \cup {s}
    BY <1>3 DEF HandlerReleases, HandlerGoto, Over, Types, OtherTypes
  <2>2. Cardinality(Over') = Cardinality(Over) + 1
    BY <2>1, OverFinite, FS_AddElement
  <2>3. limit > 0 => tokens' = tokens - 1
    BY <1>3 DEF HandlerReleases, releaseConn
  <2>4. tokens \in Nat /\ tcpHalf \in Nat /\ Len(inbox) \in Nat /\ nsent \in Nat
    BY UdpAssumption DEF Types, OtherTypes
  <2>5. SlotsCounted'
    BY <1>0, <2>2, <2>3, <2>4, OverFinite DEF SlotsCounted, Over
  <2> QED BY <1>2, <2>5
<1>4. CASE ~HandlerReleases(s)
  <2>1. UNCHANGED tokens /\ Over' = Over
    BY <1>4 DEF Handle, DialFails, DialSucceeds, CopyEnds, UDPConnClose, HandlerGoto, Over,
       Types, OtherTypes
  <2> QED BY <1>0, <1>2, <2>1, SlotsKept
<1> QED BY <1>3, <1>4

LEMMA SlotStep == Types /\ SlotInv /\ [Next]_vars => SlotInv'
<1> SUFFICES ASSUME Types, SlotInv, [Next]_vars PROVE SlotInv'
  OBVIOUS
<1>1. CASE UNCHANGED vars
  BY <1>1 DEF vars, SlotInv, HandlerInv, SlotsCounted
<1>2. CASE Outside
  <2>0. Types'
    BY <1>2, OutsideTypes
  <2>1. UNCHANGED <<loop, nsess, handler>>
    BY <1>2, OutsideKeeps DEF sessions, workers
  <2>2. HandlerInv'
    BY <2>1 DEF SlotInv, HandlerInv
  <2>3. CASE \E c \in Client : Sends(c)
    <3>1. PICK c \in Client : Sends(c)
      BY <2>3
    <3>2. inbox \in Seq(Client \X Dgram) /\ nsent \in Nat /\ tokens \in Nat /\ tcpHalf \in Nat
      BY UdpAssumption DEF Types, OtherTypes
    <3>3. /\ UNCHANGED <<limit, bound, tokens, tcpHalf>> /\ nsent' = nsent + 1
          /\ inbox' = Append(inbox, <<c, nsent'>>) /\ <<c, nsent'>> \in Client \X Dgram
      BY <3>1, <3>2, UdpAssumption DEF Sends, relayState, Dgram
    <3>4. Len(inbox') = Len(inbox) + 1 /\ Len(inbox) \in Nat
      BY <3>2, <3>3
    <3> QED BY <2>1, <2>2, <3>2, <3>3, <3>4, OverFinite DEF SlotInv, SlotsCounted, Over
  <2>4. CASE CloseStopCh
    BY <2>1, <2>2, <2>4, SlotsKept DEF CloseStopCh, SlotInv, Over
  <2>5. CASE CloseUDPConn
    BY <2>2, <2>5 DEF CloseUDPConn, SlotInv, SlotsCounted
  <2>6. CASE Other
    <3>1. UNCHANGED <<limit, bound, nsent, inbox>>
      BY <2>6 DEF Other, TcpTakes, TcpReturns
    <3>2. limit > 0 => \E x \in {-1, 1} : tokens' = tokens + x /\ tcpHalf' = tcpHalf + x
      BY <2>6 DEF Other, TcpTakes, TcpReturns, releaseConn, Types, OtherTypes
    <3>3. /\ nsent \in Int /\ tokens \in Int /\ tcpHalf \in Int /\ limit \in Int
          /\ tokens' \in Int /\ tcpHalf' \in Int
      BY <2>0, UdpAssumption DEF Types, OtherTypes
    <3>4. UNCHANGED <<Over, loop>>
      BY <2>1 DEF Over
    <3> DEFINE rest == nsent - Len(inbox) + (IF loop.pc = "read" THEN 1 ELSE 0)
                       - Cardinality(Over)
    <3>5. rest \in Int /\ rest' = rest
      <4>1. Len(inbox) \in Int /\ Cardinality(Over) \in Int
        BY OverFinite DEF Types, OtherTypes
      <4> QED BY <3>1, <3>3, <3>4, <4>1
    <3>6. SlotsCounted <=> (bound /\ limit > 0 => tokens = tcpHalf + rest)
      <4>1. Len(inbox) \in Int /\ Cardinality(Over) \in Int
        BY OverFinite DEF Types, OtherTypes
      <4>2. tcpHalf + rest = tcpHalf + nsent - Len(inbox)
                             + (IF loop.pc = "read" THEN 1 ELSE 0) - Cardinality(Over)
        BY <3>3, <4>1
      <4> QED BY <4>2 DEF SlotsCounted, Over
    <3>7. SlotsCounted' <=> (bound' /\ limit' > 0 => tokens' = tcpHalf' + rest')
      <4>1. Len(inbox') \in Int /\ Cardinality(Over') \in Int
        BY <3>1, <3>4, OverFinite DEF Types, OtherTypes
      <4>2. tcpHalf' + rest' = tcpHalf' + nsent' - Len(inbox')
                             + (IF loop'.pc = "read" THEN 1 ELSE 0) - Cardinality(Over')
        BY <3>1, <3>3, <4>1
      <4> QED BY <4>2 DEF SlotsCounted, Over
    <3> HIDE DEF rest
    <3>8. ASSUME limit > 0, tokens = tcpHalf + rest PROVE tokens' = tcpHalf' + rest'
      <4>1. PICK x \in {-1, 1} : tokens' = tokens + x /\ tcpHalf' = tcpHalf + x
        BY <3>2, <3>8
      <4> QED BY <3>3, <3>5, <3>8, <4>1
    <3>9. limit' = limit /\ bound' = bound
      BY <3>1
    <3>10. SlotsCounted'
      BY <3>6, <3>7, <3>8, <3>9, Zenon DEF SlotInv
    <3> QED BY <2>2, <3>10 DEF SlotInv
  <2> QED BY <1>2, <2>3, <2>4, <2>5, <2>6 DEF Outside
<1>3. ASSUME NEW s \in Session, NEW d \in Dir, Copying(s, d) PROVE SlotInv'
  <2>1. UNCHANGED <<limit, bound, nsent, inbox, tokens, tcpHalf, loop, nsess, handler>>
    BY <1>3, CopyingKeeps DEF still, relayState
  <2> QED BY <2>1, SlotsKept DEF SlotInv, HandlerInv, Over
<1> QED BY <1>1, <1>2, <1>3, Steps, LoopSlots, HandleSlots

(* For any limit and however sessions begin, fail and end, while the       *)
(* socket is open the slots taken are one for every datagram read, and     *)
(* for the read under way, less one for every session that is over: the    *)
(* later datagrams of a session keep theirs for good (udp.go:27,30,64).    *)
THEOREM SlotsOfDatagrams == Spec => []SlotsCounted
<1>1. Types /\ SlotInv /\ [Next]_vars => Types' /\ SlotInv'
  BY TypesStep, SlotStep
<1>2. SlotInv => SlotsCounted
  BY DEF SlotInv
<1> QED BY <1>1, <1>2, TypesInit, SlotInit, PTL DEF Spec

-----------------------------------------------------------------------------
(* Buffers *)

(* The datagrams that wait in a cache and did not open their session.      *)
Waiting == {e \in Entry : /\ ~e.first
                          /\ \E s \in Session : \E i \in 1 .. Len(sess[s].cache) :
                               sess[s].cache[i] = e}

(* A buffer has one owner: the loop, a copy, or a later datagram, and the  *)
(* pool has none that is owned.  What the loop has read stays in its       *)
(* buffer until it is sent.                                                *)
LoopOwns ==
  /\ loop.buf # None => loop.buf \notin pool
  /\ loop.pc \in {"lookup", "send"} => mem[loop.buf] = loop.dgram
CopyOwns == \A s \in Session, d \in Dir : copy[s][d].buf # None =>
  /\ copy[s][d].buf # loop.buf /\ copy[s][d].buf \notin pool
  /\ \A t \in Session, x \in Dir : copy[t][x].buf = copy[s][d].buf => t = s /\ x = d
WaitingOwns == \A e \in Waiting :
  /\ mem[e.buf] = e.dgram /\ e.buf # loop.buf /\ e.buf \notin pool
  /\ \A s \in Session, d \in Dir : copy[s][d].buf # e.buf

BufInv == LoopOwns /\ CopyOwns /\ WaitingOwns

LEMMA BufInit == Init => BufInv
<1> SUFFICES ASSUME Init PROVE BufInv
  OBVIOUS
<1>1. LoopOwns /\ CopyOwns
  BY DEF Init, Idle, LoopOwns, CopyOwns
<1>2. \A s \in Session : Len(sess[s].cache) = 0
  BY DEF Init
<1>3. Waiting = {}
  BY <1>2 DEF Waiting
<1> QED BY <1>1, <1>3 DEF BufInv, WaitingOwns

LEMMA WaitingIsCached == \A e \in Waiting : Cached(e.buf) /\ e.buf \in Buf /\ e.buf # None
  BY UdpAssumption DEF Waiting, Cached, Entry

(* What waits after a step on the caches *)
LEMMA WaitingKept == UNCHANGED sess => Waiting' = Waiting
  BY DEF Waiting

LEMMA WaitingAfterClose ==
  ASSUME Types, NEW s \in Session, sess' = [sess EXCEPT ![s].connected = FALSE]
  PROVE  Waiting' = Waiting
<1>1. \A t \in Session : sess'[t].cache = sess[t].cache
  BY DEF Types, SessTypes
<1> QED BY <1>1 DEF Waiting

LEMMA WaitingAfterRead ==
  ASSUME Types, NEW s \in Session, sess[s].cache # <<>>,
         sess' = [sess EXCEPT ![s].cache = Tail(@)]
  PROVE  Waiting' \subseteq Waiting
<1>1. \A t \in Session : sess[t].cache \in Seq(Entry)
  BY DEF Types, SessTypes
<1>2. \A t \in Session : sess'[t].cache = IF t = s THEN Tail(sess[s].cache) ELSE sess[t].cache
  BY DEF Types, SessTypes
<1>3. /\ Len(Tail(sess[s].cache)) = Len(sess[s].cache) - 1 /\ Len(sess[s].cache) \in Nat
      /\ \A i \in 1 .. Len(Tail(sess[s].cache)) : Tail(sess[s].cache)[i] = sess[s].cache[i + 1]
  BY <1>1
<1>4. ASSUME NEW t \in Session, NEW i \in 1 .. Len(sess'[t].cache)
      PROVE  \E j \in 1 .. Len(sess[t].cache) : sess[t].cache[j] = sess'[t].cache[i]
  <2>1. CASE t = s
    <3>1. i + 1 \in 1 .. Len(sess[t].cache) /\ sess[t].cache[i + 1] = sess'[t].cache[i]
      <4>1. sess'[t].cache = Tail(sess[s].cache)
        BY <1>2, <2>1
      <4>2. i \in 1 .. Len(Tail(sess[s].cache))
        BY <1>4, <4>1
      <4>3. i + 1 \in 1 .. Len(sess[s].cache)
        BY <1>3, <4>2
      <4> QED BY <1>3, <2>1, <4>1, <4>2, <4>3
    <3> QED BY <3>1
  <2>2. CASE t # s
    BY <1>2, <1>4, <2>2
  <2> QED BY <2>1, <2>2
<1> QED BY <1>4 DEF Waiting

LEMMA WaitingAfterMake ==
  ASSUME Types, NEW s \in Session, NEW c,
         sess' = [sess EXCEPT ![s] = [client |-> c, connected |-> TRUE, cache |-> <<>>]]
  PROVE  Waiting' \subseteq Waiting
<1>1. \A t \in Session : sess'[t].cache = IF t = s THEN <<>> ELSE sess[t].cache
  BY DEF Types, SessTypes
<1>2. ASSUME NEW t \in Session, NEW i \in 1 .. Len(sess'[t].cache)
      PROVE  i \in 1 .. Len(sess[t].cache) /\ sess[t].cache[i] = sess'[t].cache[i]
  <2>1. Len(<<>>) = 0
    OBVIOUS
  <2> QED BY <1>1, <1>2, <2>1
<1> QED BY <1>2 DEF Waiting

LEMMA WaitingAfterCaches ==
  ASSUME Types, NEW first \in BOOLEAN, loop.pc \in {"send", "cache"}, Caches(first)
  PROVE  \A e \in Waiting' :
           \/ e \in Waiting
           \/ ~first /\ e = [buf |-> loop.buf, dgram |-> loop.dgram, first |-> first]
<1> DEFINE n == [buf |-> loop.buf, dgram |-> loop.dgram, first |-> first]
           c == sess[loop.ses].cache
<1>1. loop.ses \in Session /\ n \in Entry /\ n.first = first
  BY DEF Types, LoopTypes, Entry
<1>2. \A t \in Session : sess[t].cache \in Seq(Entry)
  BY DEF Types, SessTypes
<1>3. \A t \in Session : sess'[t].cache = IF t = loop.ses THEN Append(c, n) ELSE sess[t].cache
  BY <1>1 DEF Types, SessTypes, Caches
<1> HIDE DEF n
<1>4. /\ Len(Append(c, n)) = Len(c) + 1 /\ Len(c) \in Nat
      /\ Append(c, n)[Len(c) + 1] = n
      /\ \A i \in 1 .. Len(c) : Append(c, n)[i] = c[i]
  BY <1>1, <1>2
<1>5. ASSUME NEW t \in Session, NEW i \in 1 .. Len(sess'[t].cache)
      PROVE  \/ sess'[t].cache[i] = n
             \/ \E j \in 1 .. Len(sess[t].cache) : sess[t].cache[j] = sess'[t].cache[i]
  <2>1. CASE t = loop.ses
    <3>1. i \in 1 .. Len(c) \/ i = Len(c) + 1
      <4>1. sess'[t].cache = Append(c, n)
        BY <1>3, <2>1
      <4>2. i \in 1 .. Len(Append(c, n))
        BY <1>5, <4>1
      <4> HIDE DEF c
      <4> QED BY <1>4, <4>2
    <3> QED BY <1>3, <1>4, <2>1, <3>1
  <2>2. CASE t # loop.ses
    BY <1>3, <1>5, <2>2
  <2> QED BY <2>1, <2>2
<1>6. ASSUME NEW e \in Waiting' PROVE e \in Waiting \/ (~first /\ e = n)
  BY <1>1, <1>5, <1>6 DEF Waiting
<1> QED BY <1>6 DEF n

(* A step that gives buffers up, at most, and writes into none *)
LEMMA BufKept ==
  ASSUME BufInv, UNCHANGED mem, pool' \subseteq pool, Waiting' \subseteq Waiting,
         loop'.buf \in {loop.buf, None},
         \A s \in Session, d \in Dir : copy'[s][d].buf \in {copy[s][d].buf, None},
         loop'.pc \in {"lookup", "send"} =>
           /\ loop.pc \in {"lookup", "send"}
           /\ loop'.buf = loop.buf /\ loop'.dgram = loop.dgram
  PROVE  BufInv'
<1>1. LoopOwns'
  BY DEF BufInv, LoopOwns
<1>2. CopyOwns'
  BY DEF BufInv, CopyOwns
<1>3. \A e \in Waiting' : e.buf # None
  BY WaitingIsCached
<1>4. WaitingOwns'
  BY <1>3 DEF BufInv, WaitingOwns
<1> QED BY <1>1, <1>2, <1>4 DEF BufInv

(* A buffer that Get returns has no owner *)
LEMMA GotIsFree ==
  ASSUME BufInv, NEW b \in Buf, NEW new, Gets(b, new)
  PROVE  /\ b # loop.buf /\ \A s \in Session, d \in Dir : copy[s][d].buf # b
         /\ \A e \in Waiting : e.buf # b
         /\ pool' = pool \ {b}
<1>0. b # None
  BY UdpAssumption
<1>1. CASE ~Held(b)
  BY <1>1, WaitingIsCached DEF Held, Gets
<1>2. CASE b \in pool
  BY <1>0, <1>2 DEF BufInv, LoopOwns, CopyOwns, WaitingOwns, Gets
<1> QED BY <1>1, <1>2 DEF Gets

(* A write into a buffer of one's own *)
LEMMA OwnWrite ==
  ASSUME Types, BufInv, NEW b \in Buf, NEW v, mem' = [mem EXCEPT ![b] = v],
         UNCHANGED pool, loop'.buf = loop.buf, Waiting' \subseteq Waiting,
         \A s \in Session, d \in Dir : copy'[s][d].buf = copy[s][d].buf,
         \A e \in Waiting : e.buf # b,
         loop'.pc \in {"lookup", "send"} => mem'[loop.buf] = loop'.dgram
  PROVE  BufInv'
<1>1. LoopOwns' /\ CopyOwns'
  BY DEF BufInv, LoopOwns, CopyOwns
<1>2. \A e \in Waiting : mem'[e.buf] = mem[e.buf]
  BY WaitingIsCached DEF Types, OtherTypes
<1>3. WaitingOwns'
  BY <1>2 DEF BufInv, WaitingOwns
<1> QED BY <1>1, <1>3 DEF BufInv

LEMMA LoopBuffers == Types /\ BufInv /\ Loop => BufInv'
<1> SUFFICES ASSUME Types, BufInv, Loop PROVE BufInv'
  OBVIOUS
<1>0. LoopTypes /\ UNCHANGED copy
  BY DEF Types, Loop, LoopSelects, LoopStops, acquireConn, LoopReads, LoopTemporary,
     LoopFails, LoopLooksUp, LoopSends, NewUDPConn, LoopCachesFirst, LoopPuts, LoopGoes, workers
<1>1. CASE LoopSelects
  <2>1. PICK b \in Buf : Gets(b, NewForLoop) /\ loop' = [Idle EXCEPT !.pc = "acquire", !.buf = b]
    BY <1>1 DEF LoopSelects
  <2>2. loop'.pc = "acquire" /\ loop'.buf = b
    BY <2>1 DEF Idle
  <2>3. UNCHANGED <<mem, sess>>
    BY <1>1 DEF LoopSelects, sessions
  <2>4. /\ \A s \in Session, d \in Dir : copy[s][d].buf # b
        /\ \A e \in Waiting : e.buf # b
        /\ pool' = pool \ {b}
    BY <2>1, GotIsFree
  <2>5. LoopOwns' /\ CopyOwns' /\ WaitingOwns'
    BY <1>0, <2>2, <2>3, <2>4, WaitingKept DEF BufInv, LoopOwns, CopyOwns, WaitingOwns
  <2> QED BY <2>5 DEF BufInv
<1>2. CASE LoopStops \/ acquireConn
  <2>1. loop'.pc \in {"done", "read"} /\ loop'.buf = loop.buf
    BY <1>0, <1>2, LoopGoesTo DEF LoopStops, acquireConn
  <2>2. UNCHANGED <<mem, pool, sess>>
    BY <1>2 DEF LoopStops, acquireConn, sessions
  <2> QED BY <1>0, <2>1, <2>2, WaitingKept, BufKept
<1>3. CASE LoopReads
  <2>1. /\ loop'.pc = "lookup" /\ loop'.buf = loop.buf /\ loop'.dgram = Head(inbox)[2]
        /\ loop.buf \in Buf
    BY <1>0, <1>3, LoopHas DEF LoopReads, LoopTypes
  <2>2. UNCHANGED <<pool, sess>> /\ mem' = [mem EXCEPT ![loop.buf] = Head(inbox)[2]]
    BY <1>3 DEF LoopReads, sessions
  <2>3. mem'[loop.buf] = loop'.dgram
    BY <2>1, <2>2 DEF Types, OtherTypes
  <2>4. \A e \in Waiting : e.buf # loop.buf
    BY DEF BufInv, WaitingOwns
  <2> QED BY <1>0, <2>1, <2>2, <2>3, <2>4, WaitingKept, OwnWrite
<1>4. CASE LoopTemporary \/ LoopFails \/ LoopGoes
  <2>1. loop'.pc \in {"done", "select"} /\ loop'.buf = None
    BY <1>4 DEF LoopTemporary, LoopFails, LoopGoes, Idle
  <2>2. UNCHANGED <<mem, pool, sess>>
    BY <1>4 DEF LoopTemporary, LoopFails, LoopGoes, sessions
  <2> QED BY <1>0, <2>1, <2>2, WaitingKept, BufKept
<1>5. CASE LoopLooksUp
  <2>1. /\ loop.pc = "lookup" /\ loop'.buf = loop.buf /\ loop'.dgram = loop.dgram
    BY <1>0, <1>5 DEF LoopLooksUp, LoopGoto, LoopTypes
  <2>2. UNCHANGED <<mem, pool, sess>>
    BY <1>5 DEF LoopLooksUp
  <2> QED BY <1>0, <2>1, <2>2, WaitingKept, BufKept
<1>6. CASE LoopSends
  <2>1. /\ loop.pc = "send" /\ loop.buf \in Buf /\ loop'.pc = "select" /\ loop'.buf = None
        /\ UNCHANGED <<mem, pool>>
    BY <1>0, <1>6 DEF LoopSends, Idle, LoopTypes
  <2>2. \A e \in Waiting' : e \in Waiting \/ (e.buf = loop.buf /\ e.dgram = loop.dgram)
    <3>1. \A e \in Waiting' :
            \/ e \in Waiting
            \/ e = [buf |-> loop.buf, dgram |-> loop.dgram, first |-> FALSE]
      BY <1>6, WaitingAfterCaches DEF LoopSends
    <3> QED BY <3>1
  <2>3. LoopOwns' /\ CopyOwns'
    BY <1>0, <2>1 DEF BufInv, LoopOwns, CopyOwns
  <2>4. loop.buf # None
    BY <2>1, UdpAssumption
  <2>5. ASSUME NEW e \in Waiting'
        PROVE  /\ mem'[e.buf] = e.dgram /\ e.buf # loop'.buf /\ e.buf \notin pool'
               /\ \A s \in Session, d \in Dir : copy'[s][d].buf # e.buf
    <3>1. CASE e \in Waiting
      BY <1>0, <2>1, <3>1, WaitingIsCached DEF BufInv, WaitingOwns
    <3>2. CASE e.buf = loop.buf /\ e.dgram = loop.dgram
      BY <1>0, <2>1, <2>4, <3>2 DEF BufInv, LoopOwns, CopyOwns
    <3> QED BY <2>2, <3>1, <3>2
  <2> QED BY <2>3, <2>5 DEF BufInv, WaitingOwns
<1>7. CASE NewUDPConn
  <2>1. loop'.pc = "cache" /\ loop'.buf = loop.buf
    BY <1>0, <1>7, LoopHas
  <2>2. /\ UNCHANGED <<mem, pool>> /\ nsess' \in Session
        /\ sess' = [sess EXCEPT ![nsess'] =
                      [client |-> loop.client, connected |-> TRUE, cache |-> <<>>]]
    BY <1>7, UdpAssumption DEF NewUDPConn, Session, Types, OtherTypes
  <2>3. Waiting' \subseteq Waiting
    BY <2>2, WaitingAfterMake
  <2> QED BY <1>0, <2>1, <2>2, <2>3, BufKept
<1>8. CASE LoopCachesFirst
  <2>1. loop'.pc = "put" /\ loop'.buf = loop.buf /\ UNCHANGED <<mem, pool>>
    BY <1>0, <1>8, LoopGoesTo DEF LoopCachesFirst
  <2>2. Waiting' \subseteq Waiting
    BY <1>8, WaitingAfterCaches DEF LoopCachesFirst
  <2> QED BY <1>0, <2>1, <2>2, BufKept
<1>9. CASE LoopPuts
  <2>1. /\ loop'.pc = "go" /\ loop'.buf = None /\ loop.buf \in Buf
        /\ UNCHANGED <<mem, sess>> /\ pool' \subseteq pool \cup {loop.buf}
    BY <1>0, <1>9, LoopHas DEF LoopPuts, Puts, LoopTypes, sessions
  <2>2. LoopOwns' /\ CopyOwns'
    BY <1>0, <2>1 DEF BufInv, LoopOwns, CopyOwns
  <2>3. WaitingOwns'
    BY <1>0, <2>1, WaitingKept, WaitingIsCached DEF BufInv, WaitingOwns
  <2> QED BY <2>2, <2>3 DEF BufInv
<1> QED BY <1>1, <1>2, <1>3, <1>4, <1>5, <1>6, <1>7, <1>8, <1>9 DEF Loop

LEMMA CopyingBuffers ==
  ASSUME Types, BufInv, NEW s \in Session, NEW d \in Dir, Copying(s, d) PROVE BufInv'
<1>0. UNCHANGED loop
  BY CopyingKeeps DEF still
<1>a. copy \in [Session -> [Dir -> [pc : CopyPc, buf : Buf \cup {None}]]]
  BY DEF Types, CopyTypes
<1>b. ASSUME NEW x \in Dir, NEW l, CopyGoto(s, x, l)
      PROVE  \A t \in Session, y \in Dir : copy'[t][y].buf = copy[t][y].buf
  BY <1>a, <1>b DEF CopyGoto
<1>c. \A x \in Dir : copy[s][x].pc = "read" => copy[s][x].buf \in Buf
  BY DEF Types, CopyTypes
<1>1. CASE CopyGets(s, d)
  <2>1. PICK b \in Buf : /\ Gets(b, <<s, d>>)
                         /\ copy' = [copy EXCEPT ![s][d] = [pc |-> "select", buf |-> b]]
    BY <1>1 DEF CopyGets
  <2>2. \A t \in Session, x \in Dir :
          copy'[t][x].buf = IF t = s /\ x = d THEN b ELSE copy[t][x].buf
    BY <1>a, <2>1
  <2>3. UNCHANGED <<mem, sess>>
    BY <1>1 DEF CopyGets
  <2>4. /\ b # loop.buf /\ \A t \in Session, x \in Dir : copy[t][x].buf # b
        /\ \A e \in Waiting : e.buf # b
        /\ pool' = pool \ {b}
    BY <2>1, GotIsFree
  <2>5. LoopOwns'
    BY <1>0, <2>3, <2>4 DEF BufInv, LoopOwns
  <2>6. CopyOwns'
    BY <1>0, <2>2, <2>4 DEF BufInv, CopyOwns
  <2>7. WaitingOwns'
    BY <1>0, <2>2, <2>3, <2>4, WaitingKept DEF BufInv, WaitingOwns
  <2> QED BY <2>5, <2>6, <2>7 DEF BufInv
<1>2. CASE \/ CopySelects(s, d) \/ CopyWrites(s, d) \/ CopyWriteFails(s, d)
           \/ (d = "up" /\ UpReadFails(s)) \/ (d = "down" /\ DownReadFails(s))
  <2>1. UNCHANGED <<mem, pool, sess>>
    BY <1>2 DEF CopySelects, CopyWrites, CopyWriteFails, UpReadFails, DownReadFails
  <2>2. PICK x \in Dir, l \in {"put", "read", "select"} : CopyGoto(s, x, l)
    BY <1>2 DEF CopySelects, CopyWrites, CopyWriteFails, UpReadFails, DownReadFails, Dir
  <2>3. \A t \in Session, y \in Dir : copy'[t][y].buf = copy[t][y].buf
    BY <1>b, <2>2
  <2> QED BY <1>0, <2>1, <2>3, WaitingKept, BufKept
<1>3. CASE CopyPuts(s, d)
  <2>1. copy[s][d].buf \in Buf
    BY <1>3 DEF CopyPuts, CopyAt, Types, CopyTypes
  <2>2. UNCHANGED <<mem, sess>> /\ pool' \subseteq pool \cup {copy[s][d].buf}
    BY <1>3 DEF CopyPuts, Puts
  <2>3. \A t \in Session, x \in Dir :
          copy'[t][x].buf = IF t = s /\ x = d THEN None ELSE copy[t][x].buf
    BY <1>3, <1>a DEF CopyPuts
  <2>4. copy[s][d].buf # None
    BY <2>1, UdpAssumption
  <2>5. LoopOwns'
    BY <1>0, <2>2, <2>4 DEF BufInv, LoopOwns, CopyOwns
  <2>6. CopyOwns'
    BY <1>0, <2>2, <2>3, <2>4 DEF BufInv, CopyOwns
  <2>7. WaitingOwns'
    BY <1>0, <2>2, <2>3, WaitingKept, WaitingIsCached DEF BufInv, WaitingOwns
  <2> QED BY <2>5, <2>6, <2>7 DEF BufInv
<1>4. ASSUME NEW x \in Dir, NEW v, copy[s][x].pc = "read",
             mem' = [mem EXCEPT ![copy[s][x].buf] = v], UNCHANGED pool,
             Waiting' \subseteq Waiting, CopyGoto(s, x, "write")
      PROVE  BufInv'
  <2>1. copy[s][x].buf \in Buf /\ copy[s][x].buf # None
    BY <1>c, <1>4, UdpAssumption
  <2>2. /\ copy[s][x].buf # loop.buf
        /\ \A e \in Waiting : e.buf # copy[s][x].buf
    BY <2>1 DEF BufInv, CopyOwns, WaitingOwns
  <2>3. loop'.pc \in {"lookup", "send"} => mem'[loop.buf] = loop'.dgram
    <3>1. loop.pc \in {"lookup", "send"} => loop.buf \in Buf /\ mem[loop.buf] = loop.dgram
      BY DEF BufInv, LoopOwns, Types, LoopTypes
    <3> QED BY <1>0, <1>4, <2>2, <3>1 DEF Types, OtherTypes
  <2>4. \A t \in Session, y \in Dir : copy'[t][y].buf = copy[t][y].buf
    BY <1>b, <1>4
  <2> QED BY <1>0, <1>4, <2>1, <2>2, <2>3, <2>4, OwnWrite
<1>5. CASE d = "up" /\ UpReads(s)
  <2>1. Waiting' \subseteq Waiting
    BY <1>5, WaitingAfterRead DEF UpReads
  <2> QED BY <1>4, <1>5, <2>1 DEF UpReads, CopyAt
<1>6. CASE d = "down" /\ DownReads(s)
  BY <1>4, <1>6, WaitingKept DEF DownReads, CopyAt
<1> QED BY <1>1, <1>2, <1>3, <1>5, <1>6 DEF Copying, Copy, Up, Down

LEMMA BufStep == Types /\ BufInv /\ [Next]_vars => BufInv'
<1> SUFFICES ASSUME Types, BufInv, [Next]_vars PROVE BufInv'
  OBVIOUS
<1>1. CASE Outside \/ UNCHANGED vars
  <2>1. UNCHANGED <<loop, copy, pool, mem, sess>>
    BY <1>1, OutsideKeeps DEF vars, sessions, workers
  <2> QED BY <2>1, WaitingKept, BufKept
<1>2. ASSUME NEW s \in Session, Handle(s) PROVE BufInv'
  <2>1. UNCHANGED <<loop, pool, mem>>
    BY <1>2 DEF Handle, DialFails, DialSucceeds, CopyEnds, HandlerReleases, UDPConnClose
  <2>2. \A t \in Session, d \in Dir : copy'[t][d].buf \in {copy[t][d].buf, None}
    <3>1. CASE DialSucceeds(s)
      BY <3>1 DEF DialSucceeds, Types, CopyTypes
    <3>2. CASE ~DialSucceeds(s)
      BY <1>2, <3>2 DEF Handle, DialFails, CopyEnds, HandlerReleases, UDPConnClose
    <3> QED BY <3>1, <3>2
  <2>3. Waiting' = Waiting
    <3>1. CASE UDPConnClose(s)
      BY <3>1, WaitingAfterClose DEF UDPConnClose
    <3>2. CASE ~UDPConnClose(s)
      BY <1>2, <3>2, WaitingKept DEF Handle, DialFails, DialSucceeds, CopyEnds, HandlerReleases, sessions
    <3> QED BY <3>1, <3>2
  <2> QED BY <2>1, <2>2, <2>3, BufKept
<1> QED BY <1>1, <1>2, Steps, LoopBuffers, CopyingBuffers

(* No interleaving of the loop, the pool and any number of copies damages  *)
(* a datagram that waits in a cache, but for the one that opened its       *)
(* session (udp.go:25,36-40,45-48).                                        *)
THEOREM LaterDatagramsIntact == Spec => []LaterIntact
<1>1. Types /\ BufInv => LaterIntact
  <2> SUFFICES ASSUME Types, BufInv, NEW s \in Session, NEW i \in 1 .. Len(sess[s].cache),
                      ~sess[s].cache[i].first
               PROVE  mem[sess[s].cache[i].buf] = sess[s].cache[i].dgram
    BY DEF LaterIntact
  <2>1. sess[s].cache \in Seq(Entry)
    BY DEF Types, SessTypes
  <2>2. sess[s].cache[i] \in Entry
    BY <2>1
  <2>3. sess[s].cache[i] \in Waiting
    BY <2>2 DEF Waiting
  <2> QED BY <2>3 DEF BufInv, WaitingOwns
<1>2. Types /\ BufInv /\ [Next]_vars => Types' /\ BufInv'
  BY TypesStep, BufStep
<1> QED BY <1>1, <1>2, TypesInit, BufInit, PTL DEF Spec

=============================================================================

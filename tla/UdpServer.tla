------------------------------ MODULE UdpServer ------------------------------
(***************************************************************************)
(* The UDP side of one Relay object: the accept loop of udp.go, which      *)
(* sorts datagrams into sessions by the client's address, the UDPConn of   *)
(* each session with its cache of datagrams, the handler and its two       *)
(* copying goroutines, the pool of buffers they share, and Close().        *)
(*                                                                         *)
(* A datagram is its number; a buffer holds a number, 0 for anything else, *)
(* and is named after the goroutine it was made for.  A step that fills or *)
(* reads a buffer is atomic.  Serving again after a Close() is not         *)
(* modelled here.  A tcp+udp relay, and a client of both, has an accept    *)
(* loop for TCP on the same limiter: that half (TcpServer) is an           *)
(* environment here, which takes slots, gives them back, or keeps them.    *)
(***************************************************************************)
EXTENDS Integers, Sequences, FiniteSets

CONSTANTS
  Client,      \* client addresses
  None,        \* no client, no buffer
  Limits,      \* values of Limit.Connections, 0 for none
  CacheCap,    \* capacity of UDPConn.Cache, 16
  MaxDgram,    \* bound: datagrams clients send
  MaxSession   \* bound: sessions

Dgram == 1 .. MaxDgram
Session == 1 .. MaxSession
Dir == {"up", "down"}        \* client to remote, remote to client
Buf == (Session \X Dir) \cup ((1 .. MaxDgram + 1) \X {"loop"})

ASSUME UdpAssumption ==
  /\ None \notin Client \cup Buf
  /\ Limits \subseteq Nat /\ CacheCap \in Nat \ {0}
  /\ MaxDgram \in Nat /\ MaxSession \in Nat

VARIABLES
  limit,     \* Limit.Connections
  stopped,   \* StopCh is closed
  bound,     \* the listening socket is open
  inbox,     \* datagrams the kernel holds for the socket, <<client, number>>
  nsent,     \* datagrams sent so far
  loop,      \* the accept loop: next step, buffer, client, datagram, session
  table,     \* client -> session, 0 for none
  sess,      \* the UDPConn of a session
  nsess,     \* sessions so far
  handler,   \* next step of the handler of a session
  copy,      \* next step and buffer of its copying goroutines
  rc,        \* the sessions whose socket to the remote is open
  tokens,    \* len(s.ConnLimiter)
  tcpHalf,   \* how many of them the relay's TCP half has
  pool,      \* LPool
  mem        \* contents of the buffers

vars == <<limit, stopped, bound, inbox, nsent, loop, table, sess, nsess, handler,
          copy, rc, tokens, tcpHalf, pool, mem>>
relayState == <<limit, stopped, bound, tcpHalf>>
sessions == <<table, sess, nsess>>
workers == <<handler, copy, rc>>

(* A datagram in a cache.  first: it opened the session. *)
Entry == [buf : Buf, dgram : Dgram, first : BOOLEAN]
LoopPc == {"select", "acquire", "read", "lookup", "send", "new", "cache", "put",
           "go", "done"}
CopyPc == {"off", "get", "select", "read", "write", "put", "end"}
HandlerPc == {"none", "dial", "copy", "release", "close", "done"}

TypeOK ==
  /\ limit \in Limits /\ stopped \in BOOLEAN /\ bound \in BOOLEAN
  /\ inbox \in Seq(Client \X Dgram)
  /\ nsent \in 0 .. MaxDgram /\ nsess \in 0 .. MaxSession
  /\ loop \in [pc : LoopPc, buf : Buf \cup {None}, client : Client \cup {None},
               dgram : 0 .. MaxDgram, ses : 0 .. MaxSession]
  /\ table \in [Client -> 0 .. MaxSession]
  /\ sess \in [Session -> [client : Client \cup {None}, connected : BOOLEAN,
                           cache : Seq(Entry)]]
  /\ \A s \in Session : Len(sess[s].cache) <= CacheCap
  /\ handler \in [Session -> HandlerPc]
  /\ copy \in [Session -> [Dir -> [pc : CopyPc, buf : Buf \cup {None}]]]
  /\ rc \subseteq Session
  /\ tokens \in Nat /\ tcpHalf \in Nat
  /\ pool \subseteq Buf
  /\ mem \in [Buf -> 0 .. MaxDgram]

Idle == [pc |-> "select", buf |-> None, client |-> None, dgram |-> 0, ses |-> 0]

Init ==
  /\ limit \in Limits /\ stopped = FALSE /\ bound = TRUE
  /\ inbox = <<>> /\ nsent = 0
  /\ loop = Idle
  /\ table = [c \in Client |-> 0]
  /\ sess = [s \in Session |-> [client |-> None, connected |-> FALSE, cache |-> <<>>]]
  /\ nsess = 0
  /\ handler = [s \in Session |-> "none"]
  /\ copy = [s \in Session |-> [d \in Dir |-> [pc |-> "off", buf |-> None]]]
  /\ rc = {} /\ tokens = 0 /\ tcpHalf = 0 /\ pool = {}
  /\ mem = [b \in Buf |-> 0]

-----------------------------------------------------------------------------
(* LPool.Get returns a buffer of the pool or makes one, and the collector   *)
(* empties the pool when it likes.  A buffer of the pool that nobody else  *)
(* refers to is as good as new: the pool keeps the others only.  Nobody    *)
(* refers to a buffer that has just been made.                             *)

Cached(b) == \E s \in Session : \E i \in 1 .. Len(sess[s].cache) :
               sess[s].cache[i].buf = b
Held(b) == \/ loop.buf = b
           \/ \E s \in Session, d \in Dir : copy[s][d].buf = b
           \/ Cached(b)

Gets(b, new) == /\ (b = new /\ ~Held(b)) \/ (b \in pool /\ Cached(b))
                /\ pool' = pool \ {b}
Puts(b) == pool' = IF Cached(b) THEN pool \cup {b} ELSE pool \ {b}

NewForLoop == LET n == CHOOSE n \in 1 .. MaxDgram + 1 :
                         /\ ~Held(<<n, "loop">>)
                         /\ \A m \in 1 .. n - 1 : Held(<<m, "loop">>)
              IN <<n, "loop">>

-----------------------------------------------------------------------------
(* Clients send, and Close() stops the relay. *)

Sends(c) ==
  /\ bound /\ nsent < MaxDgram
  /\ nsent' = nsent + 1
  /\ inbox' = Append(inbox, <<c, nsent'>>)
  /\ UNCHANGED <<relayState, loop, sessions, workers, tokens, pool, mem>>

CloseStopCh ==
  /\ ~stopped
  /\ stopped' = TRUE
  /\ UNCHANGED <<limit, bound, tcpHalf, inbox, nsent, loop, sessions, workers, tokens, pool, mem>>

CloseUDPConn ==
  /\ stopped /\ bound
  /\ bound' = FALSE /\ inbox' = <<>>
  /\ UNCHANGED <<limit, stopped, tcpHalf, nsent, loop, sessions, workers, tokens, pool, mem>>

releaseConn == /\ limit > 0 => tokens > 0      \* the receive would block
               /\ tokens' = IF limit > 0 THEN tokens - 1 ELSE tokens

(* The accept loops and the handlers of the TCP half.                      *)
TcpTakes ==
  /\ limit > 0 /\ tokens < limit
  /\ tokens' = tokens + 1 /\ tcpHalf' = tcpHalf + 1
  /\ UNCHANGED <<limit, stopped, bound, inbox, nsent, loop, sessions, workers, pool, mem>>

TcpReturns ==
  /\ tcpHalf > 0 /\ tcpHalf' = tcpHalf - 1
  /\ releaseConn
  /\ UNCHANGED <<limit, stopped, bound, inbox, nsent, loop, sessions, workers, pool, mem>>

-----------------------------------------------------------------------------
(* AcceptAndHandleUDP *)

LoopGoto(l) == loop' = [loop EXCEPT !.pc = l]

LoopSelects ==
  /\ loop.pc = "select" /\ ~stopped
  /\ \E b \in Buf : /\ Gets(b, NewForLoop)
                    /\ loop' = [Idle EXCEPT !.pc = "acquire", !.buf = b]
  /\ UNCHANGED <<relayState, inbox, nsent, sessions, workers, tokens, mem>>

LoopStops ==
  /\ loop.pc = "select" /\ stopped
  /\ LoopGoto("done")
  /\ UNCHANGED <<relayState, inbox, nsent, sessions, workers, tokens, pool, mem>>

acquireConn ==
  /\ loop.pc = "acquire"
  /\ limit > 0 => tokens < limit /\ tokens' = tokens + 1
  /\ limit = 0 => UNCHANGED tokens
  /\ LoopGoto("read")
  /\ UNCHANGED <<relayState, inbox, nsent, sessions, workers, pool, mem>>

LoopReads ==
  /\ loop.pc = "read" /\ inbox # <<>>
  /\ LET c == Head(inbox)[1]
         n == Head(inbox)[2] IN
       /\ mem' = [mem EXCEPT ![loop.buf] = n]
       /\ loop' = [loop EXCEPT !.pc = "lookup", !.client = c, !.dgram = n]
  /\ inbox' = Tail(inbox)
  /\ UNCHANGED <<relayState, nsent, sessions, workers, tokens, pool>>

(* Both errors drop the buffer, which is not put back. *)
LoopTemporary ==
  /\ loop.pc = "read" /\ bound
  /\ releaseConn
  /\ loop' = Idle
  /\ UNCHANGED <<relayState, inbox, nsent, sessions, workers, pool, mem>>

LoopFails ==             \* the socket is closed
  /\ loop.pc = "read" /\ ~bound
  /\ releaseConn
  /\ loop' = [Idle EXCEPT !.pc = "done"]
  /\ UNCHANGED <<relayState, inbox, nsent, sessions, workers, pool, mem>>

LoopLooksUp ==
  /\ loop.pc = "lookup"
  /\ LET s == table[loop.client] IN
       IF s # 0 /\ sess[s].connected
         THEN /\ loop' = [loop EXCEPT !.pc = "send", !.ses = s]
              /\ UNCHANGED table
         ELSE /\ LoopGoto("new")
              /\ table' = [table EXCEPT ![loop.client] = 0]
  /\ UNCHANGED <<relayState, inbox, nsent, sess, nsess, workers, tokens, pool, mem>>

(* Cache <- buf[:n], which blocks while the cache is full *)
Caches(first) ==
  /\ Len(sess[loop.ses].cache) < CacheCap
  /\ sess' = [sess EXCEPT ![loop.ses].cache =
                Append(@, [buf |-> loop.buf, dgram |-> loop.dgram, first |-> first])]

(* Mutant: a buffer goes back to the pool in the branch of an existing     *)
(* session too.                                                            *)
LoopSends_Puts ==
  /\ loop.pc = "send"
  /\ Caches(FALSE)
  /\ pool' = pool \cup {loop.buf}
  /\ loop' = Idle
  /\ UNCHANGED <<relayState, inbox, nsent, table, nsess, workers, tokens, mem>>

LoopSends ==
  /\ loop.pc = "send"
  /\ Caches(FALSE)
  /\ loop' = Idle
  /\ UNCHANGED <<relayState, inbox, nsent, table, nsess, workers, tokens, pool, mem>>

(* Mutant: table.Set is forgotten. *)
NewUDPConn_NotSet ==
  /\ loop.pc = "new" /\ nsess < MaxSession
  /\ nsess' = nsess + 1
  /\ sess' = [sess EXCEPT ![nsess'] =
                [client |-> loop.client, connected |-> TRUE, cache |-> <<>>]]
  /\ loop' = [loop EXCEPT !.pc = "cache", !.ses = nsess']
  /\ UNCHANGED <<relayState, inbox, nsent, table, workers, tokens, pool, mem>>

NewUDPConn ==
  /\ loop.pc = "new" /\ nsess < MaxSession
  /\ nsess' = nsess + 1
  /\ sess' = [sess EXCEPT ![nsess'] =
                [client |-> loop.client, connected |-> TRUE, cache |-> <<>>]]
  /\ table' = [table EXCEPT ![loop.client] = nsess']
  /\ loop' = [loop EXCEPT !.pc = "cache", !.ses = nsess']
  /\ UNCHANGED <<relayState, inbox, nsent, workers, tokens, pool, mem>>

LoopCachesFirst ==
  /\ loop.pc = "cache"
  /\ Caches(TRUE)
  /\ LoopGoto("put")
  /\ UNCHANGED <<relayState, inbox, nsent, table, nsess, workers, tokens, pool, mem>>

LoopPuts ==
  /\ loop.pc = "put"
  /\ Puts(loop.buf)
  /\ loop' = [loop EXCEPT !.pc = "go", !.buf = None]
  /\ UNCHANGED <<relayState, inbox, nsent, sessions, workers, tokens, mem>>

LoopGoes ==
  /\ loop.pc = "go"
  /\ handler' = [handler EXCEPT ![loop.ses] = "dial"]
  /\ loop' = Idle
  /\ UNCHANGED <<relayState, inbox, nsent, sessions, copy, rc, tokens, pool, mem>>

-----------------------------------------------------------------------------
(* UDPHandle.  The deferred calls run in the order rc.Close, releaseConn,  *)
(* c.Close; only then is the session not Connected any more.               *)

HandlerGoto(s, l) == handler' = [handler EXCEPT ![s] = l]

DialFails(s) ==
  /\ handler[s] = "dial"
  /\ HandlerGoto(s, "release")
  /\ UNCHANGED <<relayState, inbox, nsent, loop, sessions, copy, rc, tokens, pool, mem>>

DialSucceeds(s) ==
  /\ handler[s] = "dial"
  /\ HandlerGoto(s, "copy")
  /\ rc' = rc \cup {s}
  /\ copy' = [copy EXCEPT ![s] = [d \in Dir |-> [pc |-> "get", buf |-> None]]]
  /\ UNCHANGED <<relayState, inbox, nsent, loop, sessions, tokens, pool, mem>>

(* Mutant: without `defer rc.Close()'. *)
CopyEnds_KeepsRemote(s) ==
  /\ handler[s] = "copy" /\ copy[s]["up"].pc = "end"
  /\ HandlerGoto(s, "release")
  /\ UNCHANGED <<relayState, inbox, nsent, loop, sessions, copy, rc, tokens, pool, mem>>

CopyEnds(s) ==
  /\ handler[s] = "copy" /\ copy[s]["up"].pc = "end"
  /\ HandlerGoto(s, "release")
  /\ rc' = rc \ {s}
  /\ UNCHANGED <<relayState, inbox, nsent, loop, sessions, copy, tokens, pool, mem>>

(* Mutant: without `defer s.releaseConn()'. *)
HandlerReleases_Keeps(s) ==
  /\ handler[s] = "release"
  /\ HandlerGoto(s, "close")
  /\ UNCHANGED <<relayState, inbox, nsent, loop, sessions, copy, rc, tokens, pool, mem>>

HandlerReleases(s) ==
  /\ handler[s] = "release"
  /\ releaseConn
  /\ HandlerGoto(s, "close")
  /\ UNCHANGED <<relayState, inbox, nsent, loop, sessions, copy, rc, pool, mem>>

UDPConnClose(s) ==
  /\ handler[s] = "close"
  /\ sess' = [sess EXCEPT ![s].connected = FALSE]
  /\ HandlerGoto(s, "done")
  /\ UNCHANGED <<relayState, inbox, nsent, loop, table, nsess, copy, rc, tokens, pool, mem>>

-----------------------------------------------------------------------------
(* Copy_io with a large buffer, in both directions *)

CopyAt(s, d, l) == copy[s][d].pc = l
CopyGoto(s, d, l) == copy' = [copy EXCEPT ![s][d].pc = l]
still == <<relayState, inbox, nsent, loop, table, nsess, handler, rc, tokens>>

CopyGets(s, d) ==
  /\ CopyAt(s, d, "get")
  /\ \E b \in Buf : /\ Gets(b, <<s, d>>)
                    /\ copy' = [copy EXCEPT ![s][d] = [pc |-> "select", buf |-> b]]
  /\ UNCHANGED <<still, sess, mem>>

CopySelects(s, d) ==
  /\ CopyAt(s, d, "select")
  /\ CopyGoto(s, d, IF stopped THEN "put" ELSE "read")
  /\ UNCHANGED <<still, sess, pool, mem>>

(* UDPConn.Read takes an entry of the cache and copies what its buffer     *)
(* holds by then.                                                          *)
UpReads(s) ==
  /\ CopyAt(s, "up", "read") /\ sess[s].cache # <<>>
  /\ mem' = [mem EXCEPT ![copy[s]["up"].buf] = mem[Head(sess[s].cache).buf]]
  /\ sess' = [sess EXCEPT ![s].cache = Tail(@)]
  /\ CopyGoto(s, "up", "write")
  /\ UNCHANGED <<still, pool>>

(* Nothing came for 16 s, the timer may win over a late datagram; or the   *)
(* conn is closed.                                                         *)
UpReadFails(s) ==
  /\ CopyAt(s, "up", "read")
  /\ CopyGoto(s, "up", "put")
  /\ UNCHANGED <<still, sess, pool, mem>>

DownReads(s) ==
  /\ CopyAt(s, "down", "read") /\ s \in rc
  /\ mem' = [mem EXCEPT ![copy[s]["down"].buf] = 0]
  /\ CopyGoto(s, "down", "write")
  /\ UNCHANGED <<still, sess, pool>>

DownReadFails(s) ==
  /\ CopyAt(s, "down", "read")
  /\ CopyGoto(s, "down", "put")
  /\ UNCHANGED <<still, sess, pool, mem>>

Writable(s, d) == IF d = "up" THEN s \in rc ELSE sess[s].connected /\ bound

CopyWrites(s, d) ==
  /\ CopyAt(s, d, "write") /\ Writable(s, d)
  /\ CopyGoto(s, d, "select")
  /\ UNCHANGED <<still, sess, pool, mem>>

(* The remote's port may be unreachable, too. *)
CopyWriteFails(s, d) ==
  /\ CopyAt(s, d, "write")
  /\ CopyGoto(s, d, "put")
  /\ UNCHANGED <<still, sess, pool, mem>>

CopyPuts(s, d) ==
  /\ CopyAt(s, d, "put")
  /\ Puts(copy[s][d].buf)
  /\ copy' = [copy EXCEPT ![s][d] = [pc |-> "end", buf |-> None]]
  /\ UNCHANGED <<still, sess, mem>>

-----------------------------------------------------------------------------
Loop == \/ LoopSelects \/ LoopStops \/ acquireConn \/ LoopReads
        \/ LoopTemporary \/ LoopFails \/ LoopLooksUp \/ LoopSends \/ NewUDPConn
        \/ LoopCachesFirst \/ LoopPuts \/ LoopGoes

Handle(s) == \/ DialFails(s) \/ DialSucceeds(s) \/ CopyEnds(s)
             \/ HandlerReleases(s) \/ UDPConnClose(s)

Up(s) == UpReads(s) \/ UpReadFails(s)
Down(s) == DownReads(s) \/ DownReadFails(s)
Copy(s, d) == \/ CopyGets(s, d) \/ CopySelects(s, d) \/ CopyWrites(s, d)
              \/ CopyWriteFails(s, d) \/ CopyPuts(s, d)

Next == \/ \E c \in Client : Sends(c)
        \/ CloseStopCh \/ CloseUDPConn \/ TcpTakes \/ TcpReturns
        \/ Loop
        \/ \E s \in Session : Handle(s) \/ Up(s) \/ Down(s) \/ \E d \in Dir : Copy(s, d)

Spec == Init /\ [][Next]_vars

(* Close() goes on once it has begun, and so do the loop and the handlers; *)
(* a dial has a deadline, and who waits for a slot gets one when slots     *)
(* come back again and again (those who wait on a channel are served in    *)
(* turn).  A read of a UDPConn ends within 16 s and a write of a datagram  *)
(* at once; a read from the remote ends for certain only when its socket   *)
(* is closed.  The TCP half owes nothing.                                  *)
Fairness ==
  /\ WF_vars(CloseUDPConn) /\ WF_vars(Loop) /\ SF_vars(acquireConn)
  /\ \A s \in Session :
       /\ WF_vars(Handle(s)) /\ WF_vars(Up(s))
       /\ WF_vars(s \notin rc /\ DownReadFails(s))
       /\ \A d \in Dir : WF_vars(Copy(s, d))

FairSpec == Spec /\ Fairness

-----------------------------------------------------------------------------
(* Properties *)

(* What waits in a cache is what the client sent, but for the datagram     *)
(* that opened the session: its buffer goes back to the pool while it      *)
(* still waits, and whoever gets the buffer overwrites it.  No other       *)
(* buffer is ever shared (udp.go:25,36-40,45-48).                          *)
LaterIntact ==
  \A s \in Session : \A i \in 1 .. Len(sess[s].cache) :
    LET e == sess[s].cache[i] IN e.first \/ mem[e.buf] = e.dgram

(* A client has one session at a time: its datagrams never go to two       *)
(* remote sockets at once (udp.go:37-46).                                  *)
OneSession ==
  \A s, t \in Session : s # t /\ sess[s].connected /\ sess[t].connected
                          => sess[s].client # sess[t].client

(* The comment of udp.go:26 keeps the version in which every datagram has  *)
(* a buffer of its own: what waits in a cache is what the client sent.     *)
DatagramsIntact ==
  \A s \in Session : \A i \in 1 .. Len(sess[s].cache) :
    LET e == sess[s].cache[i] IN mem[e.buf] = e.dgram

(* Slots: while the socket is open, those taken are what the TCP half has, *)
(* and one for every datagram read (and for the read under way), less one  *)
(* for every session that is over (udp.go:27,30,64).  A session keeps the  *)
(* slots of its later datagrams for good.                                  *)
SlotsCounted ==
  bound /\ limit > 0 =>
    tokens = tcpHalf + nsent - Len(inbox) + (IF loop.pc = "read" THEN 1 ELSE 0)
             - Cardinality({s \in Session : handler[s] \in {"close", "done"}})

(* The two waits of the accept loop that nobody need end: for room in the  *)
(* cache of a session whose handler has returned (udp.go:39), and for a    *)
(* slot when sessions and the TCP half keep them all (udp.go:27).          *)
WaitsForDeadSession ==
  /\ loop.pc = "send" /\ Len(sess[loop.ses].cache) = CacheCap
  /\ handler[loop.ses] = "done"
WaitsForLostSlot ==
  /\ loop.pc = "acquire" /\ limit > 0 /\ tokens = limit
  /\ \A s \in Session : handler[s] \in {"none", "done"}

SessionOver(s) == /\ handler[s] \in {"none", "done"}
                  /\ \A d \in Dir : copy[s][d].pc \in {"off", "end"}

(* `// Shutdown server.' (relay.go:194): after Close() every session ends, *)
(* whatever its handler was doing, neither of its copies is left behind    *)
(* with a buffer, and the accept loop returns, unless one of the two waits *)
(* holds it from some time on for good (udp.go:18-74).                     *)
SessionsOver == \A s \in Session : SessionOver(s)
ShutdownEnds ==
  \/ stopped ~> SessionsOver /\ loop.pc = "done"
  \/ <>[](SessionsOver /\ (WaitsForDeadSession \/ WaitsForLostSlot))

=============================================================================

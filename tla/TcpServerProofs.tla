--------------------------- MODULE TcpServerProofs ---------------------------
(***************************************************************************)
(* The TCP side of a relay for any number of connections, any limit and    *)
(* any number of restarts: type correctness, no slot of the limiter lost   *)
(* or given back twice, no more connections than the limit, and one late   *)
(* chunk at most in each direction for every Close().                      *)
(*                                                                         *)
(* That tokens never falls below zero is no matter of types: it needs the  *)
(* count of who holds a slot.  So Types leaves it an integer, and Slots    *)
(* ties it to the two sets of holders and to what the UDP half has.        *)
(***************************************************************************)
EXTENDS TcpServer, FiniteSetTheorems, TLAPS

Types ==
  /\ handle \in Handlers
  /\ ctl \in {"serve", "listen", "up", "closing", "reopening", "gone"}
  /\ cur \in 0 .. MaxServe /\ lsn \in 0 .. MaxServe
  /\ closed \subseteq Gen /\ open \subseteq Gen
  /\ loop \in [Gen -> [pc : LoopPc, on : 0 .. MaxServe]]
  /\ tokens \in Int /\ udpHalf \in Nat
  /\ conn \in [Conn -> ConnPc]
  /\ queue \in [Conn -> 0 .. MaxServe]
  /\ copy \in [Conn -> [Dir -> CopyPc]]
  /\ late \in [Conn -> [Dir -> Nat]]

(* Serve() is called before anything else, and again only below the bound; *)
(* a StopCh is closed, and a loop started, after it was made.              *)
Generations ==
  /\ ctl \in {"serve", "reopening"} => cur < MaxServe
  /\ ctl # "serve" => cur \in Gen
  /\ closed \subseteq 1 .. cur
  /\ ctl \in {"listen", "up"} => cur \notin closed
  /\ \A g \in Gen : g > cur \/ (g = cur /\ ctl = "listen") => loop[g].pc = "none"

Slots ==
  /\ Limit = 0 => tokens = 0 /\ udpHalf = 0
  /\ SlotsCounted
  /\ Limit > 0 => tokens <= Limit

(* One chunk for every Close() so far.  The chunk of the latest one is     *)
(* still to come where a copy has not looked at StopCh since.              *)
Due(c, d) == Stopped /\ copy[c][d] \in {"read", "write"}
Late == \A c \in Conn, d \in Dir :
  /\ late[c][d] <= Cardinality(closed)
  /\ Due(c, d) => late[c][d] + 1 <= Cardinality(closed)

TcpInv == Types /\ Generations /\ Slots /\ Late

USE DEF Gen

-----------------------------------------------------------------------------
(* Counting the holders of slots *)

LEMMA Finite == /\ IsFiniteSet(Taken) /\ IsFiniteSet(Holding)
                /\ Cardinality(Taken) \in Nat /\ Cardinality(Holding) \in Nat
                /\ Cardinality(Active) \in Nat /\ Cardinality(Active) <= Cardinality(Taken)
<1>1. IsFiniteSet(Conn) /\ IsFiniteSet(Gen)
  BY TcpAssumption, FS_Interval
<1>2. Taken \in SUBSET Conn /\ Holding \in SUBSET Gen
  BY DEF Taken, Active, Kept, Holding
<1>3. IsFiniteSet(Taken) /\ IsFiniteSet(Holding)
  BY <1>1, <1>2, FS_Subset
<1>4. IsFiniteSet(Active) /\ Cardinality(Active) <= Cardinality(Taken)
  <2>1. Active \in SUBSET Taken
    BY DEF Taken
  <2> QED BY <1>3, <2>1, FS_Subset
<1> QED BY <1>3, <1>4, FS_CardinalityType

LEMMA SlotsKept ==
  ASSUME Slots, UNCHANGED <<tokens, udpHalf, Taken, Holding>>
  PROVE  Slots'
  BY DEF Slots, SlotsCounted

LEMMA SlotTaken ==
  ASSUME Types, Slots, NEW g \in Gen, g \notin Holding,
         Limit > 0 => tokens < Limit /\ tokens' = tokens + 1,
         Limit = 0 => tokens' = tokens,
         udpHalf' = udpHalf, Taken' = Taken, Holding' = Holding \cup {g}
  PROVE  Slots'
<1>1. Cardinality(Holding') = Cardinality(Holding) + 1
  BY Finite, FS_AddElement
<1> QED BY <1>1, Finite, TcpAssumption DEF Slots, SlotsCounted, Types

LEMMA SlotReturnedByLoop ==
  ASSUME Types, Slots, NEW g \in Gen, g \in Holding, releaseConn,
         udpHalf' = udpHalf, Taken' = Taken, Holding' = Holding \ {g}
  PROVE  Slots'
<1>1. Cardinality(Holding') = Cardinality(Holding) - 1
  BY Finite, FS_RemoveElement
<1>2. Cardinality(Taken') = Cardinality(Taken)
  OBVIOUS
<1>3. Limit \in Nat /\ tokens \in Int /\ udpHalf \in Nat
  BY TcpAssumption DEF Types
<1>4. Limit > 0 => tokens' = Cardinality(Taken') + Cardinality(Holding') + udpHalf'
  BY <1>1, <1>2, <1>3, Finite DEF Slots, SlotsCounted, releaseConn
<1>5. (Limit = 0 => tokens' = 0 /\ udpHalf' = 0) /\ (Limit > 0 => tokens' <= Limit)
  BY <1>3 DEF Slots, releaseConn
<1> QED BY <1>4, <1>5 DEF Slots, SlotsCounted

LEMMA SlotReturned ==
  ASSUME Types, Slots, NEW c \in Conn, c \in Taken, releaseConn,
         udpHalf' = udpHalf, Taken' = Taken \ {c}, Holding' = Holding
  PROVE  Slots'
<1>1. Cardinality(Taken') = Cardinality(Taken) - 1
  BY Finite, FS_RemoveElement
<1>2. Cardinality(Holding') = Cardinality(Holding)
  OBVIOUS
<1>3. Limit \in Nat /\ tokens \in Int /\ udpHalf \in Nat
  BY TcpAssumption DEF Types
<1>4. Limit > 0 => tokens' = Cardinality(Taken') + Cardinality(Holding') + udpHalf'
  BY <1>1, <1>2, <1>3, Finite DEF Slots, SlotsCounted, releaseConn
<1>5. (Limit = 0 => tokens' = 0 /\ udpHalf' = 0) /\ (Limit > 0 => tokens' <= Limit)
  BY <1>3 DEF Slots, releaseConn
<1> QED BY <1>4, <1>5 DEF Slots, SlotsCounted

LEMMA SlotHandedOver ==
  ASSUME Types, Slots, NEW g \in Gen, g \in Holding, NEW c \in Conn, c \notin Taken,
         tokens' = tokens, udpHalf' = udpHalf, Taken' = Taken \cup {c}, Holding' = Holding \ {g}
  PROVE  Slots'
<1>1. Cardinality(Holding') = Cardinality(Holding) - 1
  BY Finite, FS_RemoveElement
<1>2. Cardinality(Taken') = Cardinality(Taken) + 1
  BY Finite, FS_AddElement
<1> QED BY <1>1, <1>2, Finite, TcpAssumption DEF Slots, SlotsCounted, Types

LEMMA ClosedFinite == Types => IsFiniteSet(closed) /\ Cardinality(closed) \in Nat
<1>1. IsFiniteSet(Gen)
  BY TcpAssumption, FS_Interval
<1> QED BY <1>1, FS_Subset, FS_CardinalityType DEF Types

-----------------------------------------------------------------------------
(* One lemma for each group of steps *)

LEMMA TcpInit == Init => TcpInv
<1> SUFFICES ASSUME Init PROVE TcpInv
  OBVIOUS
<1>1. Types
  BY TcpAssumption DEF Init, Types, LoopPc, ConnPc, CopyPc, Nowhere
<1>2. Generations
  BY TcpAssumption DEF Init, Generations
<1>3. Slots
  <2>1. Taken = {} /\ Holding = {}
    BY DEF Init, Taken, Active, Kept, Holding
  <2> QED BY <2>1, FS_EmptySet, TcpAssumption DEF Init, Slots, SlotsCounted
<1>4. Late
  BY FS_EmptySet DEF Init, Late, Due, Stopped, Nowhere
<1> QED BY <1>1, <1>2, <1>3, <1>4 DEF TcpInv

LEMMA ControlStep == TcpInv /\ Control => TcpInv'
<1> SUFFICES ASSUME TcpInv, Control PROVE TcpInv'
  OBVIOUS
<1> USE TcpAssumption DEF TcpInv
<1>1. CASE ServeMakesStopCh
  <2>1. cur' = cur + 1 /\ cur' \in Gen
    BY <1>1 DEF ServeMakesStopCh, Types, Generations
  <2>2. Types'
    BY <1>1, <2>1 DEF ServeMakesStopCh, Types, flows
  <2>3. Generations'
    BY <1>1, <2>1 DEF ServeMakesStopCh, Types, Generations
  <2>4. Slots'
    BY <1>1, SlotsKept DEF ServeMakesStopCh, Taken, Active, Kept, Holding, flows
  <2>5. Late'
    <3>1. cur' \notin closed'
      BY <1>1, <2>1 DEF ServeMakesStopCh, Generations, Types
    <3> QED BY <1>1, <3>1 DEF ServeMakesStopCh, Late, Due, Stopped, flows
  <2> QED BY <2>2, <2>3, <2>4, <2>5
<1>2. CASE RunTCPServer
  <2>1. cur \in Gen
    BY <1>2 DEF RunTCPServer, Generations
  <2>2. Generations'
    <3>1. \A g \in Gen : g > cur => loop'[g] = loop[g]
      BY <1>2, <2>1 DEF RunTCPServer, Types
    <3> QED BY <1>2, <2>1, <3>1 DEF RunTCPServer, Generations
  <2>3. CASE UNCHANGED <<open, loop>> /\ lsn' = 0
    <3>1. Types'
      BY <1>2, <2>3 DEF RunTCPServer, Types, flows
    <3> QED BY <1>2, <2>2, <2>3, <3>1, SlotsKept
            DEF RunTCPServer, Taken, Active, Kept, Holding, Late, Due, flows, Stopped
  <2>4. CASE /\ lsn' = cur /\ open' = open \cup {cur}
             /\ loop' = [loop EXCEPT ![cur].pc = "select"]
    <3>1. Types'
      BY <1>2, <2>1, <2>4 DEF RunTCPServer, Types, flows, LoopPc
    <3>2. loop[cur].pc = "none"
      BY <1>2, <2>1 DEF RunTCPServer, Generations
    <3>3. Holding' = Holding /\ Taken' = Taken
      BY <1>2, <2>1, <2>4, <3>2 DEF RunTCPServer, Types, Holding, Taken, Active, Kept
    <3> QED BY <1>2, <2>2, <2>4, <3>1, <3>3, SlotsKept
            DEF RunTCPServer, Late, Due, flows, Stopped
  <2> QED BY <1>2, <2>3, <2>4 DEF RunTCPServer
<1>3. CASE CloseStopCh
  <2>1. Types' /\ Generations'
    BY <1>3 DEF CloseStopCh, Types, Generations, flows
  <2>2. Slots'
    BY <1>3, SlotsKept DEF CloseStopCh, Taken, Active, Kept, Holding, flows
  <2>3. Late'
    <3>1. Cardinality(closed') = Cardinality(closed) + 1
      BY <1>3, ClosedFinite, FS_AddElement DEF CloseStopCh, Generations
    <3>2. late' = late /\ late \in [Conn -> [Dir -> Nat]]
      BY <1>3 DEF CloseStopCh, flows, Types
    <3>3. \A c \in Conn, d \in Dir : late[c][d] \in Nat /\ late[c][d] <= Cardinality(closed)
      BY <3>2 DEF Late
    <3>4. \A c \in Conn, d \in Dir : late'[c][d] + 1 <= Cardinality(closed')
      BY <3>1, <3>2, <3>3, ClosedFinite
    <3>5. \A c \in Conn, d \in Dir : late'[c][d] <= Cardinality(closed')
      BY <3>1, <3>2, <3>3, ClosedFinite
    <3> QED BY <3>4, <3>5 DEF Late
  <2> QED BY <2>1, <2>2, <2>3
<1>4. CASE CloseTCPListen
  <2>1. Types' /\ Generations'
    BY <1>4 DEF CloseTCPListen, Types, Generations, flows, ConnPc
  <2>2. Taken' = Taken /\ Holding' = Holding
    BY <1>4 DEF CloseTCPListen, Taken, Active, Kept, Holding, Types
  <2>3. Slots'
    BY <1>4, <2>2, SlotsKept DEF CloseTCPListen, flows
  <2>4. Late'
    BY <1>4 DEF CloseTCPListen, Late, Due, Stopped, flows
  <2> QED BY <2>1, <2>3, <2>4
<1> QED BY <1>1, <1>2, <1>3, <1>4 DEF Control

LEMMA LoopStep == ASSUME TcpInv, NEW g \in Gen, Loop(g) PROVE TcpInv'
<1> USE TcpAssumption DEF TcpInv
<1>0. UNCHANGED <<control, queue, flows>>
  BY DEF Loop, LoopSelects, acquireConn, LoopEnters, LoopAccepts, LoopFails,
      LoopTemporary, LoopWakes, others
<1>1. Late'
  BY <1>0 DEF Late, Due, control, flows, Stopped
<1>2. SUFFICES Types' /\ Generations' /\ Slots'
  BY <1>1
<1>3. /\ loop \in [Gen -> [pc : LoopPc, on : 0 .. MaxServe]]
      /\ conn \in [Conn -> ConnPc] /\ tokens \in Int
      /\ loop[g].pc # "none" => g <= cur /\ (g # cur \/ ctl # "listen")
  BY DEF Types, Generations
<1>4. ASSUME NEW l \in LoopPc, LoopGoto(g, l), loop[g].pc # "none"
      PROVE  /\ loop' \in [Gen -> [pc : LoopPc, on : 0 .. MaxServe]]
             /\ Generations'
             /\ loop'[g].pc = l /\ \A x \in Gen \ {g} : loop'[x] = loop[x]
  BY <1>0, <1>3, <1>4 DEF LoopGoto, Generations, control, Types
<1>5. ASSUME NEW l \in LoopPc, LoopGoto(g, l), loop[g].pc # "none",
             tokens' = tokens, conn' = conn,
             loop[g].pc \in {"enter", "accept"} <=> l \in {"enter", "accept"}
      PROVE  Types' /\ Generations' /\ Slots'
  <2>1. Taken' = Taken /\ Holding' = Holding
    BY <1>4, <1>5 DEF Taken, Active, Kept, Holding
  <2> QED BY <1>0, <1>4, <1>5, <2>1, SlotsKept DEF Types, control, flows
<1>6. ASSUME NEW l \in LoopPc \ {"enter", "accept"}, LoopGoto(g, l),
             loop[g].pc \in {"enter", "accept"}, releaseConn, conn' = conn
      PROVE  Types' /\ Generations' /\ Slots'
  <2>1. Taken' = Taken /\ Holding' = Holding \ {g} /\ g \in Holding
    BY <1>4, <1>6 DEF Taken, Active, Kept, Holding
  <2>2. tokens' \in Int
    BY <1>3, <1>6 DEF releaseConn
  <2> QED BY <1>0, <1>4, <1>6, <2>1, <2>2, SlotReturnedByLoop DEF Types, control, flows
<1>7. CASE LoopSelects(g)
  BY <1>5, <1>7 DEF LoopSelects, LoopAt, LoopPc
<1>8. CASE acquireConn(g)
  <2>1. loop[g].pc = "acquire" /\ LoopGoto(g, "enter") /\ conn' = conn
    BY <1>8 DEF acquireConn, LoopAt
  <2>2. /\ Limit > 0 => tokens < Limit /\ tokens' = tokens + 1
        /\ Limit = 0 => tokens' = tokens
    BY <1>8 DEF acquireConn
  <2>3. /\ loop' \in [Gen -> [pc : LoopPc, on : 0 .. MaxServe]]
        /\ Generations'
        /\ loop'[g].pc = "enter" /\ \A x \in Gen \ {g} : loop'[x] = loop[x]
    BY <1>4, <2>1 DEF LoopPc
  <2>4. Taken' = Taken /\ Holding' = Holding \cup {g} /\ g \notin Holding
    BY <2>1, <2>3 DEF Taken, Active, Kept, Holding
  <2>5. tokens' \in Int
    BY <1>3, <2>2
  <2> QED BY <1>0, <2>1, <2>2, <2>3, <2>4, <2>5, SlotTaken DEF Types, control, flows
<1>9. CASE LoopEnters(g)
  <2>1. /\ loop[g].pc = "enter" /\ conn' = conn /\ tokens' = tokens
        /\ loop' = [loop EXCEPT ![g] = [pc |-> "accept", on |-> lsn]]
    BY <1>9 DEF LoopEnters, LoopAt
  <2>2. Taken' = Taken /\ Holding' = Holding
    BY <1>3, <2>1 DEF Taken, Active, Kept, Holding
  <2>3. Types'
    BY <1>0, <2>1 DEF Types, control, flows, LoopPc
  <2>4. Generations'
    BY <1>0, <1>3, <2>1 DEF Generations, control
  <2> QED BY <1>0, <2>1, <2>2, <2>3, <2>4, SlotsKept DEF flows
<1>10. CASE \E c \in Conn : LoopAccepts(g, c)
  <2>1. PICK c \in Conn : LoopAccepts(g, c)
    BY <1>10
  <2>2. /\ loop[g].pc = "accept" /\ LoopGoto(g, "select") /\ tokens' = tokens
        /\ conn[c] = "queued" /\ conn' = [conn EXCEPT ![c] = "dial"]
    BY <2>1 DEF LoopAccepts, LoopAt
  <2>3. /\ loop' \in [Gen -> [pc : LoopPc, on : 0 .. MaxServe]]
        /\ Generations'
        /\ loop'[g].pc = "select" /\ \A x \in Gen \ {g} : loop'[x] = loop[x]
    BY <1>4, <2>2 DEF LoopPc
  <2>4. Holding' = Holding \ {g} /\ g \in Holding
    BY <2>2, <2>3 DEF Holding
  <2>5. Taken' = Taken \cup {c} /\ c \notin Taken
    BY <1>3, <2>2 DEF Taken, Active, Kept
  <2>6. conn' \in [Conn -> ConnPc]
    BY <1>3, <2>2 DEF ConnPc
  <2> QED BY <1>0, <2>2, <2>3, <2>4, <2>5, <2>6, SlotHandedOver DEF Types, control, flows
<1>11. CASE LoopFails(g)
  BY <1>6, <1>11 DEF LoopFails, LoopAt, LoopPc
<1>12. CASE LoopTemporary(g)
  BY <1>6, <1>12 DEF LoopTemporary, LoopAt, LoopPc
<1>13. CASE LoopWakes(g)
  BY <1>5, <1>13 DEF LoopWakes, LoopAt, LoopPc
<1> QED BY <1>7, <1>8, <1>9, <1>10, <1>11, <1>12, <1>13 DEF Loop

LEMMA HandleStep ==
  ASSUME TcpInv, NEW c \in Conn, Connects(c) \/ Handle(c)
  PROVE  TcpInv'
<1> USE TcpAssumption DEF TcpInv
<1>0. /\ UNCHANGED <<control, loop, udpHalf>> /\ Holding' = Holding
      /\ conn \in [Conn -> ConnPc] /\ tokens \in Int
  BY DEF Connects, Handle, DialFails, DialSucceeds, HandlerReturns, Holding, Types, flows
<1>1. Generations'
  BY <1>0 DEF Generations, control
<1>2. CASE Connects(c)
  <2>1. Types'
    BY <1>0, <1>2 DEF Connects, Types, control, flows, ConnPc
  <2>2. Taken' = Taken
    BY <1>0, <1>2 DEF Connects, Taken, Active, Kept
  <2> QED BY <1>0, <1>1, <1>2, <2>1, <2>2, SlotsKept
          DEF Connects, Late, Due, Stopped, control, flows
<1>3. ASSUME conn[c] \in {"dial", "copy"}, Finish(c), UNCHANGED <<queue, flows>>
      PROVE  TcpInv'
  <2>1. ASSUME NEW l \in {"done", "kept"}, conn' = [conn EXCEPT ![c] = l], tokens' \in Int
        PROVE  Types' /\ Kept' \cup Active' = (Kept \cup Active) \ (IF l = "done" THEN {c} ELSE {})
    BY <1>0, <1>3, <2>1 DEF Types, control, flows, ConnPc, Active, Kept
  <2>2. ASSUME handle.releases PROVE Types' /\ Slots'
    <3>1. conn' = [conn EXCEPT ![c] = "done"] /\ releaseConn /\ tokens' \in Int
      BY <1>0, <1>3, <2>2 DEF Finish, releaseConn
    <3>2. Types' /\ Taken' = Taken \ {c} /\ c \in Taken
      BY <1>3, <2>1, <3>1 DEF Taken, Active
    <3> QED BY <1>0, <3>1, <3>2, SlotReturned
  <2>3. ASSUME ~handle.releases PROVE Types' /\ Slots'
    <3>1. conn' = [conn EXCEPT ![c] = "kept"] /\ tokens' = tokens /\ tokens' \in Int
      BY <1>0, <1>3, <2>3 DEF Finish
    <3>2. Types' /\ Taken' = Taken
      BY <2>1, <3>1 DEF Taken
    <3> QED BY <1>0, <3>1, <3>2, SlotsKept
  <2>4. Late'
    BY <1>0, <1>3 DEF Late, Due, Stopped, control, flows
  <2> QED BY <1>1, <2>2, <2>3, <2>4
<1>4. CASE DialFails(c)
  BY <1>3, <1>4 DEF DialFails
<1>5. CASE HandlerReturns(c)
  BY <1>3, <1>5 DEF HandlerReturns
<1>6. CASE DialSucceeds(c)
  <2>1. Types'
    BY <1>0, <1>6 DEF DialSucceeds, Types, control, ConnPc, CopyPc
  <2>2. Taken' = Taken
    BY <1>0, <1>6 DEF DialSucceeds, Taken, Active, Kept
  <2>3. Late'
    BY <1>0, <1>6 DEF DialSucceeds, Late, Due, Stopped, control, Types
  <2> QED BY <1>0, <1>1, <1>6, <2>1, <2>2, <2>3, SlotsKept DEF DialSucceeds
<1> QED BY <1>2, <1>4, <1>5, <1>6 DEF Handle

LEMMA CopyStep ==
  ASSUME TcpInv, NEW c \in Conn, NEW d \in Dir, Copy(c, d)
  PROVE  TcpInv'
<1> USE TcpAssumption DEF TcpInv
<1>0. UNCHANGED <<control, loop, tokens, udpHalf, conn, queue>>
  BY DEF Copy, CopySelects, CopyReads, CopyWrites, CopyFails
<1>1. Generations' /\ Slots'
  BY <1>0, SlotsKept DEF Generations, control, Taken, Active, Kept, Holding
<1>2. PICK l \in CopyPc : copy' = [copy EXCEPT ![c][d] = l]
  BY DEF Copy, CopySelects, CopyReads, CopyWrites, CopyFails, CopyGoto, CopyPc
<1>3. copy' \in [Conn -> [Dir -> CopyPc]]
  BY <1>2 DEF Types
<1>4. late' \in [Conn -> [Dir -> Nat]]
  <2>1. late' \in {late, [late EXCEPT ![c][d] = late[c][d] + 1]}
    BY DEF Copy, CopySelects, CopyReads, CopyWrites, CopyFails
  <2>2. late \in [Conn -> [Dir -> Nat]]
    BY DEF Types
  <2> QED BY <2>1, <2>2
<1>5. Types'
  BY <1>0, <1>3, <1>4 DEF Types, control
<1>6. Late'
  <2> USE <1>0, ClosedFinite DEF Types, Late, Due, Stopped, control, CopyAt, CopyGoto
  <2>1. CASE CopySelects(c, d)
    BY <2>1 DEF CopySelects
  <2>2. CASE CopyReads(c, d)
    BY <2>2 DEF CopyReads
  <2>3. CASE CopyWrites(c, d)
    BY <2>3 DEF CopyWrites
  <2>4. CASE CopyFails(c, d)
    BY <2>4 DEF CopyFails
  <2> QED BY <2>1, <2>2, <2>3, <2>4 DEF Copy
<1> QED BY <1>1, <1>5, <1>6

LEMMA UdpStep == TcpInv /\ (UdpTakes \/ UdpReturns) => TcpInv'
<1> SUFFICES ASSUME TcpInv, UdpTakes \/ UdpReturns PROVE TcpInv'
  OBVIOUS
<1> USE TcpAssumption DEF TcpInv
<1>1. UNCHANGED <<control, loop, conn, queue, copy, late>>
  BY DEF UdpTakes, UdpReturns, tcpHalf
<1>2. \/ /\ Limit > 0 /\ tokens < Limit
         /\ tokens' = tokens + 1 /\ udpHalf' = udpHalf + 1
      \/ udpHalf > 0 /\ tokens' = tokens - 1 /\ udpHalf' = udpHalf - 1
  BY DEF UdpTakes, UdpReturns
<1>3. Types' /\ Generations' /\ Late'
  BY <1>1, <1>2 DEF Types, Generations, Late, Due, Stopped, control
<1>4. Taken' = Taken /\ Holding' = Holding
  BY <1>1 DEF Taken, Active, Kept, Holding
<1>5. Slots'
  BY <1>2, <1>4, Finite DEF Slots, SlotsCounted, Types
<1> QED BY <1>3, <1>5

LEMMA TcpStep == TcpInv /\ [Next]_vars => TcpInv'
<1> SUFFICES ASSUME TcpInv, [Next]_vars PROVE TcpInv'
  OBVIOUS
<1>1. CASE UNCHANGED vars
  <2>1. Types' /\ Generations' /\ Late'
    BY <1>1 DEF vars, TcpInv, Types, Generations, Late, Due, Stopped
  <2>2. Slots'
    BY <1>1, SlotsKept DEF vars, TcpInv, Taken, Active, Kept, Holding
  <2> QED BY <2>1, <2>2 DEF TcpInv
<1> QED BY <1>1, ControlStep, UdpStep, LoopStep, HandleStep, CopyStep DEF Next

-----------------------------------------------------------------------------
(* Every variable keeps its type; in particular no handler ever waits to   *)
(* give back a slot nobody holds (relay.go:301-305).                       *)
THEOREM TcpTypes == Spec => []TypeOK
<1>1. TcpInv => TypeOK
  BY Finite, TcpAssumption DEF TcpInv, Types, TypeOK, Slots, SlotsCounted
<1> QED BY <1>1, TcpInit, TcpStep, PTL DEF Spec

(* No error path, no restart and no old loop loses a slot of the limiter   *)
(* or gives one back twice, whatever the UDP half takes and gives back     *)
(* (tcp.go:24-30, tcp.go:51-54).                                           *)
THEOREM NoSlotLost == Spec => []SlotsCounted
<1>1. TcpInv => SlotsCounted
  BY DEF TcpInv, Slots
<1> QED BY <1>1, TcpInit, TcpStep, PTL DEF Spec

(* However many loops accept, no more connections are served than the rule *)
(* allows (relay.go:296-305).                                              *)
THEOREM LimitHolds == Spec => []LimitRespected
<1>1. TcpInv => LimitRespected
  BY Finite, TcpAssumption DEF TcpInv, Types, Slots, SlotsCounted, LimitRespected
<1> QED BY <1>1, TcpInit, TcpStep, PTL DEF Spec

(* Every Close() lets either direction of a connection pass on one chunk   *)
(* at most before the next Serve(), over any number of restarts            *)
(* (relay.go:256-270).                                                     *)
THEOREM OneLateChunk == Spec => []LateBounded
<1>1. TcpInv => LateBounded
  BY DEF TcpInv, Late, LateBounded
<1> QED BY <1>1, TcpInit, TcpStep, PTL DEF Spec

-----------------------------------------------------------------------------
(* The abstract limit of ConnLimit: its three sets are read off conn.      *)

(* The instance brings a Cardinality of its own, with the same definition. *)
LEMMA SameCardinality ==
  ASSUME NEW S
  PROVE  L!Cardinality(S) = Cardinality(S)
  BY DEF Cardinality, L!Cardinality

LEMMA LimitStutters ==
  ASSUME UNCHANGED conn
  PROVE  UNCHANGED <<Active, Kept, Over>>
  BY DEF Active, Kept, Over

(* A loop that is about to accept holds a slot, so that there is room.     *)
LEMMA LoopTakes ==
  ASSUME TcpInv, NEW g \in Gen, NEW c \in Conn, LoopAccepts(g, c)
  PROVE  L!Take(c)
<1> USE DEF TcpInv
<1>1. /\ conn[c] = "queued" /\ conn' = [conn EXCEPT ![c] = "dial"]
      /\ conn \in [Conn -> ConnPc] /\ g \in Holding
  BY DEF LoopAccepts, LoopAt, Holding, Types
<1>2. c \notin Active \cup Kept \cup Over
  BY <1>1 DEF Active, Kept, Over
<1>3. Active' = Active \cup {c} /\ Kept' = Kept /\ Over' = Over
  BY <1>1 DEF Active, Kept, Over
<1>4. Limit > 0 => Cardinality(Active \cup Kept) < Limit
  <2>1. Cardinality(Holding) # 0
    BY <1>1, Finite, FS_EmptySet
  <2> QED BY <2>1, Finite, TcpAssumption DEF Slots, SlotsCounted, Taken, Types
<1>5. L!Room
  BY <1>4, SameCardinality DEF L!Room
<1> QED BY <1>2, <1>3, <1>5 DEF L!Take

LEMMA LimitStep == TcpInv /\ [Next]_vars => [L!Next]_(L!lvars)
<1> SUFFICES ASSUME TcpInv, [Next]_vars PROVE L!Next \/ UNCHANGED <<Active, Kept, Over>>
  BY DEF L!lvars
<1>0. conn \in [Conn -> ConnPc]
  BY DEF TcpInv, Types
<1>1. CASE UNCHANGED vars
  BY <1>1, LimitStutters DEF vars
<1>2. CASE Control
  <2>1. CASE CloseTCPListen
    <3>1. /\ Active' = Active /\ Kept' = Kept
          /\ Over \subseteq Over' /\ Over' \subseteq Conn /\ Over' \cap (Active \cup Kept) = {}
      BY <1>0, <2>1 DEF CloseTCPListen, Active, Kept, Over
    <3> QED BY <3>1 DEF L!Next, L!TurnAway
  <2>2. CASE ServeMakesStopCh \/ RunTCPServer \/ CloseStopCh
    BY <2>2, LimitStutters DEF ServeMakesStopCh, RunTCPServer, CloseStopCh
  <2> QED BY <1>2, <2>1, <2>2 DEF Control
<1>3. ASSUME NEW g \in Gen, Loop(g) PROVE L!Next \/ UNCHANGED <<Active, Kept, Over>>
  <2>1. CASE \E c \in Conn : LoopAccepts(g, c)
    BY <2>1, LoopTakes DEF L!Next
  <2>2. CASE UNCHANGED conn
    BY <2>2, LimitStutters
  <2> QED BY <1>3, <2>1, <2>2 DEF Loop, LoopSelects, acquireConn, LoopEnters, LoopFails,
             LoopTemporary, LoopWakes, others
<1>4. ASSUME NEW c \in Conn, Handle(c) PROVE L!Next \/ UNCHANGED <<Active, Kept, Over>>
  <2>1. CASE DialSucceeds(c)
    <3>1. UNCHANGED <<Active, Kept, Over>>
      BY <1>0, <2>1 DEF DialSucceeds, Active, Kept, Over
    <3> QED BY <3>1
  <2>2. CASE DialFails(c) \/ HandlerReturns(c)
    <3>1. conn[c] \in {"dial", "copy"} /\ Finish(c)
      BY <2>2 DEF DialFails, HandlerReturns
    <3>2. PICK l \in {"done", "kept"} : conn' = [conn EXCEPT ![c] = l]
      BY <3>1 DEF Finish
    <3>3. /\ c \in Active /\ Active' = Active \ {c}
          /\ \/ Over' = Over \cup {c} /\ Kept' = Kept
             \/ Kept' = Kept \cup {c} /\ Over' = Over
      BY <1>0, <3>1, <3>2 DEF Active, Kept, Over
    <3> QED BY <3>3 DEF L!Next, L!Finish
  <2> QED BY <1>4, <2>1, <2>2 DEF Handle
<1>5. ASSUME NEW c \in Conn, Connects(c) PROVE UNCHANGED <<Active, Kept, Over>>
  BY <1>0, <1>5 DEF Connects, Active, Kept, Over
<1>6. ASSUME NEW c \in Conn, NEW d \in Dir, Copy(c, d) PROVE UNCHANGED <<Active, Kept, Over>>
  BY <1>6, LimitStutters DEF Copy, CopySelects, CopyReads, CopyWrites, CopyFails
<1>7. CASE UdpTakes \/ UdpReturns
  BY <1>7, LimitStutters DEF UdpTakes, UdpReturns, tcpHalf
<1> QED BY <1>1, <1>2, <1>3, <1>4, <1>5, <1>6, <1>7 DEF Next

(* Accept loops, limiter, handlers and restarts implement the plain limit  *)
(* of ConnLimit, for any number of connections and loops                   *)
(* (tcp.go:17-40, relay.go:296-305).                                       *)
THEOREM LimitImplemented == Spec => ImplementsLimit
<1>1. Init => L!Init
  BY DEF Init, L!Init, Active, Kept, Over
<1> QED BY <1>1, TcpInit, TcpStep, LimitStep, PTL DEF Spec, ImplementsLimit, L!Spec

=============================================================================

------------------------- MODULE ControlPlaneSerial -------------------------
(***************************************************************************)
(* The registry under a client that sends the next request on a rule after *)
(* the answer to the last (Serial), adds only rules that are not being     *)
(* served (FreshAdds) and waits for start-up's import of the sync file     *)
(* (AfterBoot).  The inductive invariant SerialInv says what the goroutine *)
(* that works on a rule knows about it (ProcInv), that no two goroutines   *)
(* work on one rule (Disjoint), and that every other relay is registered,  *)
(* open and alone in holding its sockets (SvrInv, Owned).  The proof rests *)
(* on Frame: a step of p that changes the rules R only has to establish    *)
(* the invariant for p and for R.                                          *)
(***************************************************************************)
EXTENDS ControlPlaneTypes

(* Two goroutines at work have no rule in common. *)
Disjoint == \A p, q \in Proc : p # q => Touches(p) \cap Touches(q) \cap Rid = {}

(* The relay a goroutine works on is the one registered for its rule. *)
Registered(p) ==
  /\ pc[p] \in Closing \cup Serving => svrs[ctx[p].rid] = ctx[p].svr
  /\ pc[p] \in Clear => svrs[ctx[p].rid] = None
  /\ pc[p] \in {"restart"} \cup Starting => rules[ctx[p].rid] # None
  /\ pc[p] = "svrsSet" => traffic[ctx[p].rid] = ctx[p].tf

(* How far a Close() has come *)
HalfClosed(p) ==
  /\ pc[p] = "closeStopCh" => relay[ctx[p].svr].stop = "open"
  /\ pc[p] \in {"closeUdp", "svrsRemove", "serve", "listenTcp"}
       => <<ctx[p].svr, "tcp">> \notin bound
  /\ pc[p] \in {"svrsRemove", "serve", "listenTcp", "listenUdp"}
       => <<ctx[p].svr, "udp">> \notin bound

(* A rule that a sync still has to start has no relay, or it is still to   *)
(* be visited by the loop that stops relays, or is being stopped.          *)
StopLoop == {"syncStops", "stop", "rulesRemove", "trafficRemove"} \cup Closing
StartLoop == {"syncResolve"} \cup Starting \cup Serving
SyncLoops(p) == ctx[p].op = "sync" =>
  /\ pc[p] \in StopLoop =>
       \A rid \in Rid : /\ ctx[p].new[rid] # None /\ ctx[p].items[rid] = None
                        /\ pc[p] = "syncStops" \/ rid # ctx[p].rid
                        => svrs[rid] = None
  /\ pc[p] \in {"syncStarts"} \cup StartLoop =>
       \A rid \in Rid : ctx[p].new[rid] # None => svrs[rid] = None
  /\ pc[p] \in StartLoop => ctx[p].new[ctx[p].rid] = None

ProcInv(p) == Registered(p) /\ HalfClosed(p) /\ SyncLoops(p)

(* The relay that is registered for a rule is the rule's, adds to its      *)
(* counter, and is open unless a goroutine is about to remove or serve it. *)
HalfOpen == {"closeTcp", "closeUdp", "svrsRemove", "serve"}
SvrInv(rid) == svrs[rid] # None =>
  /\ rules[rid] # None
  /\ relay[svrs[rid]].rid = rid
  /\ relay[svrs[rid]].tf = traffic[rid]
  /\ \/ relay[svrs[rid]].stop = "open"
     \/ \E p \in Proc : pc[p] \in HalfOpen /\ ctx[p].rid = rid

Owned == \A b \in bound : \E rid \in Rid : /\ svrs[rid] = b[1]
                                          /\ relay[b[1]].rid = rid
                                          /\ b[2] \in relay[b[1]].lsn

SerialInv ==
  /\ TypeInv
  /\ NoDoubleClose
  /\ Disjoint
  /\ \A p \in Proc : ProcInv(p)
  /\ \A rid \in Rid : SvrInv(rid)
  /\ Owned

(* The sets of labels are expanded throughout. *)
USE DEF OnRule, Closing, Serving, Clear, Starting, StopLoop, StartLoop, SyncOnly,
    HalfOpen

-----------------------------------------------------------------------------
(* What a step that works on the rules R leaves alone *)

Elsewhere(R) ==
  /\ \A x \in Rid \ R : /\ svrs'[x] = svrs[x]
                        /\ traffic'[x] = traffic[x]
                        /\ rules[x] # None => rules'[x] # None
  /\ \A x \in Rid \ R, o \in Obj : svrs[x] = o =>
       /\ relay'[o].rid = relay[o].rid /\ relay'[o].tf = relay[o].tf
       /\ relay'[o].stop = relay[o].stop /\ relay'[o].lsn = relay[o].lsn
       /\ \A net \in Net : <<o, net>> \in bound' <=> <<o, net>> \in bound
  /\ \A b \in bound' :
       \/ b \in bound /\ \A x \in R : svrs[x] # b[1]
       \/ \E x \in R : /\ svrs'[x] = b[1]
                      /\ relay'[b[1]].rid = x
                      /\ b[2] \in relay'[b[1]].lsn

LEMMA FrameOwned ==
  ASSUME TypeInv, Owned, NEW R \in SUBSET Rid, Elsewhere(R)
  PROVE  Owned'
<1> SUFFICES ASSUME NEW b \in bound'
             PROVE  \E rid \in Rid : /\ svrs'[rid] = b[1]
                                    /\ relay'[b[1]].rid = rid
                                    /\ b[2] \in relay'[b[1]].lsn
  BY DEF Owned
<1>1. CASE b \in bound /\ \A x \in R : svrs[x] # b[1]
  <2>1. PICK rid \in Rid : svrs[rid] = b[1] /\ relay[b[1]].rid = rid /\ b[2] \in relay[b[1]].lsn
    BY <1>1 DEF Owned
  <2>2. rid \notin R /\ b[1] \in Obj
    BY <1>1, <2>1 DEF TypeInv, DataOK
  <2>3. svrs'[rid] = b[1] /\ relay'[b[1]].rid = rid /\ b[2] \in relay'[b[1]].lsn
    BY <2>1, <2>2 DEF Elsewhere
  <2> QED BY <2>3
<1>2. CASE \E x \in R : /\ svrs'[x] = b[1]
                       /\ relay'[b[1]].rid = x
                       /\ b[2] \in relay'[b[1]].lsn
  BY <1>2
<1> QED BY <1>1, <1>2 DEF Elsewhere

LEMMA FrameSvr ==
  ASSUME TypeInv, NEW R \in SUBSET Rid, Elsewhere(R), NEW x \in Rid \ R, SvrInv(x),
         NEW p \in Proc, pc[p] \in HalfOpen => ctx[p].rid \in R,
         \A q \in Proc \ {p} : pc'[q] = pc[q] /\ ctx'[q] = ctx[q]
  PROVE  SvrInv(x)'
<1> SUFFICES ASSUME svrs'[x] # None PROVE SvrInv(x)'
  BY DEF SvrInv
<1>1. svrs'[x] = svrs[x] /\ svrs[x] # None /\ svrs[x] \in Obj
  BY DEF Elsewhere, TypeInv, DataOK
<1>2. /\ rules'[x] # None
      /\ relay'[svrs[x]].rid = x
      /\ relay'[svrs[x]].tf = traffic'[x]
      /\ relay'[svrs[x]].stop = relay[svrs[x]].stop
  BY <1>1 DEF Elsewhere, SvrInv
<1>3. \/ relay[svrs[x]].stop = "open"
      \/ \E q \in Proc : pc'[q] \in HalfOpen /\ ctx'[q].rid = x
  BY <1>1 DEF SvrInv
<1> QED BY <1>1, <1>2, <1>3 DEF SvrInv

(* A goroutine at work on a rule touches that rule; a sync touches all.    *)
LEMMA TouchesType ==
  ASSUME TypeInv, NEW p \in Proc
  PROVE  /\ pc[p] \in OnRule => ctx[p].rid \in Rid /\ ctx[p].rid \in Touches(p)
         /\ ctx[p].op = "sync" /\ pc[p] \in StopLoop \cup StartLoop \cup SyncOnly
              => Touches(p) = Rid
<1>1. pc[p] \in OnRule => ctx[p].rid \in Rid
  BY DEF TypeInv, LocalsOK, HasLocals
<1>2. pc[p] \in OnRule \cup StopLoop \cup StartLoop \cup SyncOnly => Busy(p)
  BY DEF Busy
<1> QED BY <1>1, <1>2 DEF Touches

LEMMA FrameProc ==
  ASSUME TypeInv, NEW R \in SUBSET Rid, Elsewhere(R), NEW q \in Proc, ProcInv(q),
         Touches(q) \cap R = {}, pc'[q] = pc[q], ctx'[q] = ctx[q]
  PROVE  ProcInv(q)'
<1>1. pc[q] \in OnRule => ctx[q].rid \in Rid \ R
  BY TouchesType
<1>2. Registered(q)'
  <2>1. pc[q] \in Closing \cup Serving \cup Clear \cup {"restart"} => pc[q] \in OnRule
    OBVIOUS
  <2>2. Starting \subseteq Clear /\ "svrsSet" \in Starting
    OBVIOUS
  <2>3. ctx[q].rid \in Rid \ R => /\ svrs'[ctx[q].rid] = svrs[ctx[q].rid]
                                  /\ traffic'[ctx[q].rid] = traffic[ctx[q].rid]
                                  /\ rules[ctx[q].rid] # None => rules'[ctx[q].rid] # None
    BY DEF Elsewhere
  <2> QED BY <1>1, <2>1, <2>2, <2>3 DEF ProcInv, Registered
<1>3. HalfClosed(q)'
  <2> SUFFICES ASSUME pc[q] \in Closing \cup Serving PROVE HalfClosed(q)'
    BY DEF HalfClosed
  <2>1. ctx[q].rid \in Rid \ R /\ svrs[ctx[q].rid] = ctx[q].svr /\ ctx[q].svr \in Obj
    BY <1>1 DEF ProcInv, Registered, TypeInv, LocalsOK, HasLocals
  <2>2. /\ relay'[ctx[q].svr].stop = relay[ctx[q].svr].stop
        /\ \A net \in Net : <<ctx[q].svr, net>> \in bound' <=> <<ctx[q].svr, net>> \in bound
    BY <2>1 DEF Elsewhere
  <2> QED BY <2>2 DEF HalfClosed, ProcInv, Net
<1>4. SyncLoops(q)'
  <2>1. ctx[q].op = "sync" /\ pc[q] \in StopLoop \cup StartLoop \cup {"syncStarts"} => R = {}
    BY TouchesType
  <2>2. R = {} => \A x \in Rid : svrs'[x] = svrs[x]
    BY DEF Elsewhere
  <2> QED BY <2>1, <2>2 DEF SyncLoops, ProcInv
<1> QED BY <1>2, <1>3, <1>4 DEF ProcInv

(* A step of p on the rules R keeps the invariant if it does so for p and  *)
(* R and leaves the rest alone.                                            *)
LEMMA Frame ==
  ASSUME SerialInv, TypeInv', NEW p \in Proc, NEW R \in SUBSET Rid, Elsewhere(R),
         \A q \in Proc \ {p} : pc'[q] = pc[q] /\ ctx'[q] = ctx[q],
         \A q \in Proc \ {p} : Touches(q) \cap (R \cup Touches(p)') \cap Rid = {},
         pc'[p] = "panicked" => ctx'[p].op = "data",
         pc[p] \in HalfOpen => ctx[p].rid \in R,
         ProcInv(p)', \A x \in R : SvrInv(x)'
  PROVE  SerialInv'
<1>1. NoDoubleClose'
  BY DEF SerialInv, NoDoubleClose
<1>2. \A q \in Proc \ {p} : Touches(q)' = Touches(q)
  BY DEF Touches, Busy
<1>3. Disjoint'
  BY <1>2 DEF SerialInv, Disjoint
<1>4. ASSUME NEW q \in Proc \ {p} PROVE ProcInv(q)'
  <2>1. Touches(q) \cap R = {}
    OBVIOUS
  <2> QED BY <2>1, FrameProc DEF SerialInv
<1>5. ASSUME NEW x \in Rid \ R PROVE SvrInv(x)'
  BY FrameSvr DEF SerialInv
<1>6. Owned'
  BY FrameOwned DEF SerialInv
<1> QED BY <1>1, <1>3, <1>4, <1>5, <1>6 DEF SerialInv

(* The same of a step on rules that p has touched all along *)
LEMMA OwnFrame ==
  ASSUME SerialInv, TypeInv', NEW p \in Proc, NEW R \in SUBSET Rid, Elsewhere(R),
         R \subseteq Touches(p), Touches(p)' \subseteq Touches(p),
         \A q \in Proc \ {p} : pc'[q] = pc[q] /\ ctx'[q] = ctx[q],
         pc'[p] = "panicked" => ctx'[p].op = "data",
         pc[p] \in HalfOpen => ctx[p].rid \in R,
         ProcInv(p)', \A x \in R : SvrInv(x)'
  PROVE  SerialInv'
<1>1. \A q \in Proc \ {p} : Touches(q) \cap (R \cup Touches(p)') \cap Rid = {}
  BY DEF SerialInv, Disjoint
<1> QED BY <1>1, Frame

(* A step that leaves the registry alone *)
LEMMA Quiet ==
  ASSUME TypeInv, UNCHANGED <<rules, svrs, traffic, relay, bound>>
  PROVE  Elsewhere({})
  BY DEF Elsewhere

-----------------------------------------------------------------------------
(* What a goroutine p knows when it is at work on a rule *)

LEMMA Own ==
  ASSUME SerialInv, NEW p \in Proc, pc[p] \in OnRule
  PROVE  /\ ctx[p].rid \in Rid /\ ctx[p].rid \in Touches(p) /\ Busy(p)
         /\ ctx[p] \in Locals /\ HasLocals(pc[p], ctx[p])
         /\ ProcInv(p) /\ SvrInv(ctx[p].rid)
         /\ \A q \in Proc \ {p} : pc[q] \in OnRule => ctx[q].rid # ctx[p].rid
<1>1. ctx[p].rid \in Rid /\ ctx[p].rid \in Touches(p)
  BY TouchesType DEF SerialInv
<1>2. ASSUME NEW q \in Proc \ {p}, pc[q] \in OnRule PROVE ctx[q].rid # ctx[p].rid
  <2>1. ctx[q].rid \in Touches(q)
    BY <1>2, TouchesType DEF SerialInv
  <2> QED BY <1>1, <2>1 DEF SerialInv, Disjoint
<1>3. Busy(p)
  BY DEF Busy
<1> QED BY <1>1, <1>2, <1>3 DEF SerialInv, TypeInv, LocalsOK

LEMMA TouchesLess ==
  ASSUME NEW p \in Proc, Busy(p), ctx'[p].op = ctx[p].op,
         ctx[p].op = "sync" \/ ctx'[p].rid = ctx[p].rid
  PROVE  Touches(p)' \subseteq Touches(p)
  BY DEF Touches

LEMMA TouchesNothing ==
  ASSUME NEW p \in Proc, pc'[p] = "idle"
  PROVE  Touches(p)' = {}
  BY DEF Touches, Busy

LEMMA IdleInv == ASSUME NEW p \in Proc, pc'[p] = "idle" PROVE ProcInv(p)'
  BY DEF ProcInv, Registered, HalfClosed, SyncLoops

LEMMA StopLoopStays ==
  ASSUME NEW p \in Proc, SyncLoops(p), pc[p] \in StopLoop \ {"syncStops"},
         ctx[p].op = "sync" => pc'[p] \in StopLoop \ {"syncStops"},
         ctx'[p].op = ctx[p].op, ctx'[p].new = ctx[p].new, ctx'[p].items = ctx[p].items,
         ctx'[p].rid = ctx[p].rid, \A x \in Rid : svrs'[x] \in {svrs[x], None}
  PROVE  SyncLoops(p)'
<1>1. StopLoop \cap ({"syncStarts"} \cup StartLoop) = {}
  OBVIOUS
<1> QED BY <1>1 DEF SyncLoops

LEMMA StartLoopStays ==
  ASSUME NEW p \in Proc, SyncLoops(p), pc[p] \in StartLoop, pc'[p] \in StartLoop,
         ctx'[p].op = ctx[p].op, ctx'[p].new = ctx[p].new, ctx'[p].rid = ctx[p].rid,
         \A x \in Rid \ {ctx[p].rid} : svrs'[x] = svrs[x]
  PROVE  SyncLoops(p)'
<1>1. StopLoop \cap StartLoop = {}
  OBVIOUS
<1> QED BY <1>1 DEF SyncLoops

LEMMA StartReturnsInv ==
  ASSUME TypeInv, NEW p \in Proc, StartReturns(p), Busy(p),
         ctx[p].op = "sync" => \A x \in Rid : ctx[p].new[x] # None => svrs'[x] = None
  PROVE  /\ ProcInv(p)' /\ Touches(p)' \subseteq Touches(p)
         /\ pc'[p] # "panicked"
         /\ \A q \in Proc \ {p} : pc'[q] = pc[q] /\ ctx'[q] = ctx[q]
<1>1. CASE ctx[p].op = "sync"
  <2>1. /\ pc'[p] = "syncStarts" /\ \A q \in Proc \ {p} : pc'[q] = pc[q]
        /\ \A q \in Proc \ {p} : ctx'[q] = ctx[q]
    BY <1>1, Moved DEF StartReturns, TypeInv, LocalsOK
  <2>2. ctx'[p].op = "sync" /\ ctx'[p].new = ctx[p].new
    BY <1>1 DEF StartReturns, TypeInv, LocalsOK, Locals
  <2>3. ProcInv(p)'
    BY <1>1, <2>1, <2>2
    DEF ProcInv, Registered, HalfClosed, SyncLoops
  <2>4. Touches(p)' \subseteq Touches(p)
    BY <1>1, <2>2, TouchesLess
  <2> QED BY <2>1, <2>3, <2>4
<1>2. CASE ctx[p].op # "sync"
  <2>1. /\ pc'[p] = "idle" /\ \A q \in Proc \ {p} : pc'[q] = pc[q]
        /\ \A q \in Proc \ {p} : ctx'[q] = ctx[q]
    BY <1>2, Moved DEF StartReturns, TypeInv, LocalsOK
  <2> QED BY <2>1, IdleInv, TouchesNothing
<1> QED BY <1>1, <1>2

-----------------------------------------------------------------------------
(* The steps of stop() *)

LEMMA StopLookupInv ==
  ASSUME SerialInv, TypeInv', NEW p \in Proc, StopLookup(p)
  PROVE  SerialInv'
<1> DEFINE r == ctx[p].rid
<1>1. pc[p] = "stop" /\ pc[p] \in OnRule /\ pc[p] \in StopLoop
  BY DEF StopLookup, At
<1>2. /\ r \in Rid /\ ctx[p] \in Locals /\ HasLocals(pc[p], ctx[p]) /\ Busy(p)
      /\ ProcInv(p) /\ SvrInv(r)
      /\ \A q \in Proc \ {p} : pc[q] \in OnRule => ctx[q].rid # r
  BY <1>1, Own
<1>3. TypeInv /\ UNCHANGED <<rules, svrs, traffic, relay, bound>>
  BY DEF SerialInv, StopLookup, maps, heap
<1>4. Elsewhere({})
  BY <1>3, Quiet
<1>5. /\ \A q \in Proc \ {p} : pc'[q] = pc[q] /\ ctx'[q] = ctx[q]
      /\ ctx'[p].op = ctx[p].op /\ ctx'[p].rid = ctx[p].rid
      /\ ctx'[p].new = ctx[p].new /\ ctx'[p].items = ctx[p].items
  BY <1>2, <1>3, Moved DEF StopLookup, TypeInv, LocalsOK, Locals
<1>6. CASE svrs[r] = None
  <2>1. pc'[p] = AfterStop(ctx[p].op)
    BY <1>3, <1>6, Moved DEF StopLookup
  <2>2. pc'[p] \in {"rulesSet", "rulesRemove"}
    BY <2>1 DEF AfterStop
  <2>3. SyncLoops(p)'
    <3>1. ctx[p].op = "sync" => pc'[p] = "rulesRemove"
      BY <2>1 DEF AfterStop
    <3>2. "rulesRemove" \in StopLoop \ {"syncStops"}
      OBVIOUS
    <3> QED BY <1>1, <1>2, <1>3, <1>5, <3>1, <3>2, StopLoopStays DEF ProcInv
  <2>4. Registered(p)' /\ HalfClosed(p)'
    BY <1>3, <1>5, <1>6, <2>2
    DEF Registered, HalfClosed
  <2> QED BY <1>1, <1>2, <1>3, <1>4, <1>5, <2>2, <2>3, <2>4, TouchesLess, OwnFrame
          DEF ProcInv
<1>7. CASE svrs[r] # None
  <2>1. pc'[p] = "closeStopCh" /\ ctx'[p].svr = svrs[r]
    BY <1>2, <1>3, <1>7, Moved DEF StopLookup, TypeInv, LocalsOK, Locals
  <2>2. relay[svrs[r]].stop = "open"
    <3>1. HalfOpen \subseteq OnRule /\ pc[p] \notin HalfOpen
      BY <1>1
    <3> QED BY <1>2, <1>7, <3>1 DEF SvrInv
  <2>3. Registered(p)' /\ HalfClosed(p)'
    BY <1>3, <1>5, <2>1, <2>2
    DEF Registered, HalfClosed
  <2>4. SyncLoops(p)'
    <3>1. "closeStopCh" \in StopLoop \ {"syncStops"}
      OBVIOUS
    <3> QED BY <1>1, <1>2, <1>3, <1>5, <2>1, <3>1, StopLoopStays DEF ProcInv
  <2> QED BY <1>1, <1>2, <1>3, <1>4, <1>5, <2>1, <2>3, <2>4, TouchesLess, OwnFrame
          DEF ProcInv
<1> QED BY <1>6, <1>7

-----------------------------------------------------------------------------
(* The steps of Close(), of the relay o of the rule r *)

LEMMA Distinct ==
  ASSUME SerialInv, NEW x \in Rid, NEW y \in Rid, svrs[x] = svrs[y], svrs[x] # None
  PROVE  x = y
  BY DEF SerialInv, SvrInv

(* A step that changes nothing but the entries of r and the relay o *)
LEMMA OneRelay ==
  ASSUME SerialInv, NEW r \in Rid, NEW o \in Obj,
         svrs[r] \in {o, None}, \A x \in Rid \ {r} : svrs[x] # o,
         \A x \in Rid \ {r} : /\ svrs'[x] = svrs[x] /\ traffic'[x] = traffic[x]
                              /\ rules[x] # None => rules'[x] # None,
         \A i \in Obj \ {o} : relay'[i] = relay[i],
         \A i \in Obj \ {o}, net \in Net : <<i, net>> \in bound' <=> <<i, net>> \in bound,
         bound' \subseteq Obj \X Net,
         \A net \in Net : <<o, net>> \in bound' =>
           svrs'[r] = o /\ relay'[o].rid = r /\ net \in relay'[o].lsn
  PROVE  Elsewhere({r})
<1>1. ASSUME NEW b \in bound'
      PROVE  \/ b \in bound /\ svrs[r] # b[1]
             \/ svrs'[r] = b[1] /\ relay'[b[1]].rid = r /\ b[2] \in relay'[b[1]].lsn
  <2>1. b = <<b[1], b[2]>> /\ b[1] \in Obj /\ b[2] \in Net
    OBVIOUS
  <2>2. CASE b[1] = o
    BY <2>1, <2>2
  <2>3. CASE b[1] # o
    BY <2>1, <2>3, ConstantsAssumption
  <2> QED BY <2>2, <2>3
<1>2. ASSUME NEW x \in Rid \ {r}, NEW i \in Obj, svrs[x] = i
      PROVE  /\ relay'[i] = relay[i]
             /\ \A net \in Net : <<i, net>> \in bound' <=> <<i, net>> \in bound
  BY <1>2
<1> QED BY <1>1, <1>2 DEF Elsewhere

LEMMA CloseType ==
  ASSUME SerialInv, NEW p \in Proc, pc[p] \in Closing \cup Serving
  PROVE  /\ Svr(p) \in Obj /\ svrs[ctx[p].rid] = Svr(p) /\ ctx[p].svr = Svr(p)
         /\ \A x \in Rid \ {ctx[p].rid} : svrs[x] # Svr(p)
         /\ relay[Svr(p)].rid = ctx[p].rid /\ relay[Svr(p)] \in Relay
         /\ \A net \in Net : <<Svr(p), net>> \in bound => net \in relay[Svr(p)].lsn
         /\ Svr(p) # None
<1>1. pc[p] \in OnRule
  OBVIOUS
<1>2. /\ ctx[p].rid \in Rid /\ HasLocals(pc[p], ctx[p]) /\ ProcInv(p) /\ SvrInv(ctx[p].rid)
  BY <1>1, Own
<1>3. Svr(p) \in Obj /\ svrs[ctx[p].rid] = Svr(p) /\ ctx[p].svr = Svr(p) /\ Svr(p) # None
  BY <1>2, ConstantsAssumption DEF HasLocals, ProcInv, Registered, Svr
<1>4. \A x \in Rid \ {ctx[p].rid} : svrs[x] # Svr(p)
  BY <1>2, <1>3, Distinct
<1>5. relay[Svr(p)].rid = ctx[p].rid /\ relay[Svr(p)] \in Relay
  BY <1>2, <1>3 DEF SvrInv, SerialInv, TypeInv, DataOK
<1>6. ASSUME NEW net \in Net, <<Svr(p), net>> \in bound PROVE net \in relay[Svr(p)].lsn
  BY <1>6 DEF SerialInv, Owned
<1> QED BY <1>3, <1>4, <1>5, <1>6

LEMMA CloseStopChInv ==
  ASSUME SerialInv, TypeInv', NEW p \in Proc, CloseStopCh(p)
  PROVE  SerialInv'
<1> DEFINE r == ctx[p].rid
           o == Svr(p)
<1>1. pc[p] = "closeStopCh" /\ pc[p] \in OnRule /\ pc[p] \in Closing /\ pc[p] \in StopLoop
  BY DEF CloseStopCh, At
<1>2. /\ r \in Rid /\ r \in Touches(p) /\ Busy(p) /\ ProcInv(p) /\ SvrInv(r)
  BY <1>1, Own
<1>3. /\ o \in Obj /\ svrs[r] = o /\ ctx[p].svr = o /\ relay[o].rid = r /\ relay[o] \in Relay
      /\ \A x \in Rid \ {r} : svrs[x] # o
      /\ \A net \in Net : <<o, net>> \in bound => net \in relay[o].lsn
  BY <1>1, CloseType
<1>4. /\ UNCHANGED <<rules, svrs, traffic, ctx>>
      /\ relay' = [relay EXCEPT ![o].stop = "closed"]
      /\ pc'[p] = "closeTcp" /\ \A q \in Proc \ {p} : pc'[q] = pc[q]
  BY Moved DEF CloseStopCh, maps, SerialInv
<1>b. /\ bound' \subseteq bound
      /\ \A i \in Obj \ {o}, net \in Net : <<i, net>> \in bound' <=> <<i, net>> \in bound
  BY DEF CloseStopCh
<1>5. /\ relay'[o].rid = relay[o].rid /\ relay'[o].lsn = relay[o].lsn
      /\ relay'[o].tf = relay[o].tf
      /\ \A i \in Obj \ {o} : relay'[i] = relay[i]
  BY <1>3, <1>4 DEF SerialInv, TypeInv, DataOK, Relay
<1>6. bound' \subseteq Obj \X Net
  BY <1>b DEF SerialInv, TypeInv, DataOK
<1>7. Elsewhere({r})
  BY <1>2, <1>3, <1>4, <1>5, <1>6, <1>b, OneRelay
<1>8. SvrInv(r)'
  BY <1>2, <1>3, <1>4, <1>5 DEF SvrInv
<1>9. Registered(p)' /\ HalfClosed(p)'
  BY <1>2, <1>3, <1>4
  DEF Registered, HalfClosed
<1>10. SyncLoops(p)'
  <2>1. "closeTcp" \in StopLoop \ {"syncStops"}
    OBVIOUS
  <2> QED BY <1>1, <1>2, <1>4, <2>1, StopLoopStays DEF ProcInv
<1> QED BY <1>1, <1>2, <1>4, <1>7, <1>8, <1>9, <1>10, TouchesLess, OwnFrame DEF
    ProcInv

(* Close() never panics: the channel of a relay that is about to be closed *)
(* is open.                                                                *)
LEMMA NoClosePanic ==
  ASSUME SerialInv, NEW p \in Proc
  PROVE  ~ClosePanics(p)
  BY DEF SerialInv, ProcInv, HalfClosed, ClosePanics, At, Svr

LEMMA ClosedType ==
  ASSUME SerialInv, NEW p \in Proc, pc[p] \in Closing, NEW net \in Net,
         bound' = Closed(Svr(p), net)
  PROVE  /\ <<Svr(p), net>> \notin bound'
         /\ bound' \subseteq bound
         /\ \A i \in Obj, n \in Net : <<i, n>> # <<Svr(p), net>>
              => (<<i, n>> \in bound' <=> <<i, n>> \in bound)
<1>1. <<Svr(p), net>> \in bound => net \in relay[Svr(p)].lsn
  BY CloseType
<1> QED BY <1>1 DEF Closed

LEMMA CloseTCPListenInv ==
  ASSUME SerialInv, TypeInv', NEW p \in Proc, CloseTCPListen(p)
  PROVE  SerialInv'
<1> DEFINE r == ctx[p].rid
           o == Svr(p)
<1>1. pc[p] = "closeTcp" /\ pc[p] \in OnRule /\ pc[p] \in Closing /\ pc[p] \in StopLoop
  BY DEF CloseTCPListen, At
<1>2. /\ r \in Rid /\ r \in Touches(p) /\ Busy(p) /\ ProcInv(p) /\ SvrInv(r)
  BY <1>1, Own
<1>3. /\ o \in Obj /\ svrs[r] = o /\ ctx[p].svr = o /\ relay[o].rid = r /\ relay[o] \in Relay
      /\ \A x \in Rid \ {r} : svrs[x] # o
      /\ \A net \in Net : <<o, net>> \in bound => net \in relay[o].lsn
  BY <1>1, CloseType
<1>4. /\ UNCHANGED <<rules, svrs, traffic, relay, ctx>>
      /\ bound' = Closed(o, "tcp")
      /\ pc'[p] = "closeUdp"
      /\ \A q \in Proc \ {p} : pc'[q] = pc[q]
  BY Moved DEF CloseTCPListen, maps, SerialInv
<1>5. /\ <<o, "tcp">> \notin bound' /\ bound' \subseteq bound
      /\ \A i \in Obj, n \in Net : <<i, n>> # <<o, "tcp">>
           => (<<i, n>> \in bound' <=> <<i, n>> \in bound)
  BY <1>1, <1>4, ClosedType DEF Net
<1>6. bound' \subseteq Obj \X Net
  BY <1>5 DEF SerialInv, TypeInv, DataOK
<1>7. Elsewhere({r})
  BY <1>2, <1>3, <1>4, <1>5, <1>6, OneRelay
<1>8. SvrInv(r)'
  BY <1>1, <1>2, <1>3, <1>4 DEF SvrInv
<1>9. Registered(p)' /\ HalfClosed(p)'
  BY <1>1, <1>2, <1>3, <1>4, <1>5
  DEF ProcInv, Registered, HalfClosed
<1>10. SyncLoops(p)'
  <2>1. "closeUdp" \in StopLoop \ {"syncStops"}
    OBVIOUS
  <2> QED BY <1>1, <1>2, <1>4, <2>1, StopLoopStays DEF ProcInv
<1> QED BY <1>1, <1>2, <1>4, <1>7, <1>8, <1>9, <1>10, TouchesLess, OwnFrame DEF
    ProcInv

LEMMA CloseUDPConnInv ==
  ASSUME SerialInv, TypeInv', NEW p \in Proc, CloseUDPConn(p)
  PROVE  SerialInv'
<1> DEFINE r == ctx[p].rid
           o == Svr(p)
<1>1. pc[p] = "closeUdp" /\ pc[p] \in OnRule /\ pc[p] \in Closing /\ pc[p] \in StopLoop
  BY DEF CloseUDPConn, At
<1>2. /\ r \in Rid /\ r \in Touches(p) /\ Busy(p) /\ ProcInv(p) /\ SvrInv(r)
  BY <1>1, Own
<1>3. /\ o \in Obj /\ svrs[r] = o /\ ctx[p].svr = o /\ relay[o].rid = r /\ relay[o] \in Relay
      /\ \A x \in Rid \ {r} : svrs[x] # o
      /\ \A net \in Net : <<o, net>> \in bound => net \in relay[o].lsn
  BY <1>1, CloseType
<1>4. /\ UNCHANGED <<rules, svrs, traffic, relay, ctx>>
      /\ bound' = Closed(o, "udp")
      /\ pc'[p] = IF ctx[p].op = "restart" THEN "serve" ELSE "svrsRemove"
      /\ \A q \in Proc \ {p} : pc'[q] = pc[q]
  BY Moved DEF CloseUDPConn, maps, SerialInv
<1>5. /\ <<o, "udp">> \notin bound' /\ bound' \subseteq bound
      /\ \A i \in Obj, n \in Net : <<i, n>> # <<o, "udp">>
           => (<<i, n>> \in bound' <=> <<i, n>> \in bound)
  BY <1>1, <1>4, ClosedType DEF Net
<1>6. bound' \subseteq Obj \X Net
  BY <1>5 DEF SerialInv, TypeInv, DataOK
<1>7. Elsewhere({r})
  BY <1>2, <1>3, <1>4, <1>5, <1>6, OneRelay
<1>8. SvrInv(r)'
  BY <1>1, <1>2, <1>3, <1>4 DEF SvrInv
<1>9. Registered(p)' /\ HalfClosed(p)'
  BY <1>1, <1>2, <1>3, <1>4, <1>5
  DEF ProcInv, Registered, HalfClosed
<1>10. SyncLoops(p)'
  <2>1. "svrsRemove" \in StopLoop \ {"syncStops"} /\ pc[p] # "syncStops"
    BY <1>1
  <2> QED BY <1>1, <1>2, <1>4, <2>1, StopLoopStays DEF ProcInv
<1> QED BY <1>1, <1>2, <1>4, <1>7, <1>8, <1>9, <1>10, TouchesLess, OwnFrame DEF
    ProcInv

LEMMA SvrsRemoveInv ==
  ASSUME SerialInv, TypeInv', NEW p \in Proc, SvrsRemove(p)
  PROVE  SerialInv'
<1> DEFINE r == ctx[p].rid
           o == Svr(p)
<1>1. pc[p] = "svrsRemove" /\ pc[p] \in OnRule /\ pc[p] \in Closing /\ pc[p] \in StopLoop
  BY DEF SvrsRemove, At
<1>2. /\ r \in Rid /\ r \in Touches(p) /\ Busy(p) /\ ProcInv(p)
      /\ ctx[p] \in Locals /\ HasLocals(pc[p], ctx[p])
  BY <1>1, Own
<1>3. /\ o \in Obj /\ svrs[r] = o /\ ctx[p].svr = o
      /\ \A x \in Rid \ {r} : svrs[x] # o
  BY <1>1, CloseType
<1>4. /\ UNCHANGED <<rules, traffic, relay, bound>>
      /\ svrs' = [svrs EXCEPT ![r] = None]
      /\ pc'[p] = AfterStop(ctx[p].op)
      /\ \A q \in Proc \ {p} : pc'[q] = pc[q]
  BY Moved DEF SvrsRemove, heap, SerialInv
<1>5. /\ svrs'[r] = None /\ \A x \in Rid \ {r} : svrs'[x] = svrs[x]
      /\ ctx'[p].op = ctx[p].op /\ ctx'[p].rid = r
      /\ ctx'[p].new = ctx[p].new /\ ctx'[p].items = ctx[p].items
      /\ \A q \in Proc \ {p} : ctx'[q] = ctx[q]
  BY <1>2, <1>4 DEF SvrsRemove, SerialInv, TypeInv, DataOK, LocalsOK, Locals
<1>6. bound' \subseteq Obj \X Net /\ \A net \in Net : <<o, net>> \notin bound'
  BY <1>1, <1>2, <1>3, <1>4 DEF SerialInv, TypeInv, DataOK, ProcInv, HalfClosed, Net
<1>7. Elsewhere({r})
  BY <1>2, <1>3, <1>4, <1>5, <1>6, OneRelay
<1>8. SvrInv(r)'
  BY <1>5 DEF SvrInv
<1>9. pc'[p] \in {"rulesSet", "rulesRemove"} /\ (ctx[p].op = "sync" => pc'[p] = "rulesRemove")
  BY <1>4 DEF AfterStop
<1>10. Registered(p)' /\ HalfClosed(p)'
  BY <1>5, <1>9
  DEF Registered, HalfClosed
<1>11. SyncLoops(p)'
  <2>1. "rulesRemove" \in StopLoop \ {"syncStops"}
    OBVIOUS
  <2> QED BY <1>1, <1>2, <1>5, <1>9, <2>1, StopLoopStays DEF ProcInv
<1> QED BY <1>1, <1>2, <1>5, <1>4, <1>7, <1>8, <1>9, <1>10, <1>11, TouchesLess, OwnFrame
        DEF ProcInv

-----------------------------------------------------------------------------
(* The steps on a rule without a relay *)

LEMMA NoRelay ==
  ASSUME SerialInv, NEW r \in Rid, svrs[r] = None,
         UNCHANGED <<svrs, relay, bound>>,
         \A x \in Rid \ {r} : traffic'[x] = traffic[x] /\ (rules[x] # None => rules'[x] # None)
  PROVE  Elsewhere({r}) /\ \A x \in {r} : SvrInv(x)'
<1>1. \A b \in bound : svrs[r] # b[1]
  BY ConstantsAssumption DEF SerialInv, TypeInv, DataOK
<1>2. SvrInv(r)'
  BY DEF SvrInv
<1> QED BY <1>1, <1>2 DEF Elsewhere

LEMMA EditRulesSetInv ==
  ASSUME SerialInv, TypeInv', NEW p \in Proc, EditRulesSet(p)
  PROVE  SerialInv'
<1> DEFINE r == ctx[p].rid
<1>1. pc[p] = "rulesSet" /\ pc[p] \in OnRule /\ pc[p] \in Clear /\ pc[p] \notin HalfOpen
  BY DEF EditRulesSet, At
<1>2. /\ r \in Rid /\ r \in Touches(p) /\ Busy(p) /\ ProcInv(p)
      /\ ctx[p] \in Locals /\ HasLocals(pc[p], ctx[p])
  BY <1>1, Own
<1>3. svrs[r] = None
  BY <1>1, <1>2 DEF ProcInv, Registered
<1>4. /\ rules' = [rules EXCEPT ![r] = ctx[p].rule] /\ UNCHANGED <<svrs, traffic, relay, bound, ctx>>
      /\ pc'[p] = "getTF" /\ \A q \in Proc \ {p} : pc'[q] = pc[q]
  BY Moved DEF EditRulesSet, heap, SerialInv
<1>5. rules'[r] # None /\ \A x \in Rid \ {r} : rules'[x] = rules[x]
  BY <1>1, <1>2, <1>4, ConstantsAssumption
  DEF HasLocals, SerialInv, TypeInv, DataOK, RuleMap
<1>6. Elsewhere({r}) /\ \A x \in {r} : SvrInv(x)'
  BY <1>2, <1>3, <1>4, <1>5, NoRelay
<1>7. ProcInv(p)'
  BY <1>1, <1>2, <1>3, <1>4, <1>5
  DEF HasLocals, ProcInv, Registered, HalfClosed, SyncLoops
<1> QED BY <1>1, <1>2, <1>4, <1>6, <1>7, TouchesLess, OwnFrame

LEMMA RulesRemoveInv ==
  ASSUME SerialInv, TypeInv', NEW p \in Proc, RulesRemove(p)
  PROVE  SerialInv'
<1> DEFINE r == ctx[p].rid
<1>1. pc[p] = "rulesRemove" /\ pc[p] \in OnRule /\ pc[p] \in Clear /\ pc[p] \notin HalfOpen
  BY DEF RulesRemove, At
<1>2. /\ r \in Rid /\ r \in Touches(p) /\ Busy(p) /\ ProcInv(p)
      /\ ctx[p] \in Locals /\ HasLocals(pc[p], ctx[p])
  BY <1>1, Own
<1>3. svrs[r] = None
  BY <1>1, <1>2 DEF ProcInv, Registered
<1>4. /\ rules' = [rules EXCEPT ![r] = None] /\ UNCHANGED <<svrs, traffic, relay, bound, ctx>>
      /\ pc'[p] = "trafficRemove" /\ \A q \in Proc \ {p} : pc'[q] = pc[q]
  BY Moved DEF RulesRemove, heap, SerialInv
<1>5. \A x \in Rid \ {r} : rules'[x] = rules[x]
  BY <1>4 DEF SerialInv, TypeInv, DataOK, RuleMap
<1>6. Elsewhere({r}) /\ \A x \in {r} : SvrInv(x)'
  BY <1>2, <1>3, <1>4, <1>5, NoRelay
<1>7. Registered(p)' /\ HalfClosed(p)'
  BY <1>3, <1>4
  DEF Registered, HalfClosed
<1>8. SyncLoops(p)'
  <2>1. {"rulesRemove", "trafficRemove"} \subseteq StopLoop \ {"syncStops"}
    OBVIOUS
  <2> QED BY <1>1, <1>2, <1>4, <2>1, StopLoopStays DEF ProcInv
<1> QED BY <1>1, <1>2, <1>4, <1>6, <1>7, <1>8, TouchesLess, OwnFrame DEF ProcInv

LEMMA TrafficRemoveInv ==
  ASSUME SerialInv, TypeInv', NEW p \in Proc, TrafficRemove(p)
  PROVE  SerialInv'
<1> DEFINE r == ctx[p].rid
<1>1. pc[p] = "trafficRemove" /\ pc[p] \in OnRule /\ pc[p] \in Clear /\ pc[p] \notin HalfOpen
  BY DEF TrafficRemove, At
<1>2. /\ r \in Rid /\ r \in Touches(p) /\ Busy(p) /\ ProcInv(p)
      /\ ctx[p] \in Locals /\ HasLocals(pc[p], ctx[p])
  BY <1>1, Own
<1>3. svrs[r] = None
  BY <1>1, <1>2 DEF ProcInv, Registered
<1>4. /\ UNCHANGED <<rules, svrs, relay, bound>>
      /\ \A x \in Rid \ {r} : traffic'[x] = traffic[x]
  BY DEF TrafficRemove, heap, SerialInv, TypeInv, DataOK
<1>5. Elsewhere({r}) /\ \A x \in {r} : SvrInv(x)'
  <2>1. \A x \in Rid \ {r} : traffic'[x] = traffic[x] /\ (rules[x] # None => rules'[x] # None)
    BY <1>4
  <2> QED BY <1>2, <1>3, <1>4, <2>1, NoRelay
<1>6. CASE ctx[p].op # "sync"
  <2>1. /\ pc'[p] = "idle"
        /\ \A q \in Proc \ {p} : pc'[q] = pc[q] /\ ctx'[q] = ctx[q]
    BY <1>6, Moved DEF TrafficRemove, SerialInv, TypeInv, LocalsOK
  <2>2. ProcInv(p)' /\ Touches(p)' \subseteq Touches(p)
    BY <2>1, IdleInv, TouchesNothing
  <2> QED BY <1>1, <1>2, <1>5, <2>1, <2>2, OwnFrame
<1>7. CASE ctx[p].op = "sync"
  <2>1. /\ pc'[p] = "syncStops"
        /\ \A q \in Proc \ {p} : pc'[q] = pc[q] /\ ctx'[q] = ctx[q]
    BY <1>7, Moved DEF TrafficRemove, SerialInv, TypeInv, LocalsOK
  <2>2. ctx'[p].op = "sync" /\ ctx'[p].new = ctx[p].new /\ ctx'[p].items = ctx[p].items
    BY <1>2, <1>7 DEF TrafficRemove, SerialInv, TypeInv, LocalsOK, Locals
  <2>3. \A x \in Rid : ctx[p].new[x] # None /\ ctx[p].items[x] = None => svrs[x] = None
    BY <1>1, <1>2, <1>3, <1>7 DEF ProcInv, SyncLoops
  <2>4. ProcInv(p)'
    BY <1>4, <2>1, <2>2, <2>3
    DEF ProcInv, Registered, HalfClosed, SyncLoops
  <2>5. Touches(p)' \subseteq Touches(p)
    BY <1>2, <1>7, <2>2, TouchesLess
  <2> QED BY <1>1, <1>2, <1>5, <2>1, <2>4, <2>5, OwnFrame
<1> QED BY <1>6, <1>7

-----------------------------------------------------------------------------
(* The steps of restart() and start() *)

LEMMA RestartLookupInv ==
  ASSUME SerialInv, TypeInv', NEW p \in Proc, RestartLookup(p)
  PROVE  SerialInv'
<1> DEFINE r == ctx[p].rid
<1>1. pc[p] = "restart" /\ pc[p] \in OnRule /\ pc[p] \notin HalfOpen
  BY DEF RestartLookup, At
<1>2. /\ r \in Rid /\ ctx[p] \in Locals /\ Busy(p) /\ ctx[p].op = "restart"
      /\ ProcInv(p) /\ SvrInv(r)
      /\ \A q \in Proc \ {p} : pc[q] \in OnRule => ctx[q].rid # r
  BY <1>1, Own DEF HasLocals
<1>3. TypeInv /\ UNCHANGED <<rules, svrs, traffic, relay, bound>>
  BY DEF SerialInv, RestartLookup, maps, heap
<1>4. Elsewhere({})
  BY <1>3, Quiet
<1>5. /\ \A q \in Proc \ {p} : pc'[q] = pc[q] /\ ctx'[q] = ctx[q]
      /\ ctx'[p].op = ctx[p].op /\ ctx'[p].rid = ctx[p].rid
  BY <1>2, <1>3, Moved DEF RestartLookup, TypeInv, LocalsOK, Locals
<1>6. rules[r] # None
  BY <1>1, <1>2 DEF ProcInv, Registered
<1>7. ProcInv(p)' /\ pc'[p] # "panicked"
  <2>1. CASE svrs[r] = None
    <3>1. pc'[p] = "getTF"
      BY <1>3, <2>1, Moved DEF RestartLookup
    <3> QED BY <1>2, <1>3, <1>5, <1>6, <2>1, <3>1
            DEF ProcInv, Registered, HalfClosed, SyncLoops
  <2>2. CASE svrs[r] # None
    <3>1. pc'[p] = "closeStopCh" /\ ctx'[p].svr = svrs[r]
      BY <1>2, <1>3, <2>2, Moved DEF RestartLookup, TypeInv, LocalsOK, Locals
    <3>2. relay[svrs[r]].stop = "open"
      <4>1. HalfOpen \subseteq OnRule
        OBVIOUS
      <4> QED BY <1>1, <1>2, <2>2, <4>1 DEF SvrInv
    <3> QED BY <1>2, <1>3, <1>5, <3>1, <3>2
            DEF ProcInv, Registered, HalfClosed, SyncLoops
  <2> QED BY <2>1, <2>2
<1> QED BY <1>1, <1>2, <1>3, <1>4, <1>5, <1>7, TouchesLess, OwnFrame

LEMMA GetTFInv ==
  ASSUME SerialInv, TypeInv', NEW p \in Proc, GetTF(p)
  PROVE  SerialInv'
<1> DEFINE r == ctx[p].rid
<1>1. pc[p] = "getTF" /\ pc[p] \in OnRule /\ pc[p] \in Clear /\ pc[p] \notin HalfOpen
  BY DEF GetTF, At
<1>2. /\ r \in Rid /\ r \in Touches(p) /\ Busy(p) /\ ProcInv(p)
      /\ ctx[p] \in Locals /\ HasLocals(pc[p], ctx[p])
  BY <1>1, Own
<1>3. svrs[r] = None
  BY <1>1, <1>2 DEF ProcInv, Registered
<1>4. TypeInv /\ UNCHANGED <<rules, svrs, traffic, relay, bound>>
  BY DEF SerialInv, GetTF, maps, heap
<1>5. Elsewhere({})
  BY <1>4, Quiet
<1>6. /\ \A q \in Proc \ {p} : pc'[q] = pc[q] /\ ctx'[q] = ctx[q]
      /\ ctx'[p].op = ctx[p].op /\ ctx'[p].rid = ctx[p].rid /\ ctx'[p].new = ctx[p].new
      /\ \/ pc'[p] = "setTF"
         \/ pc'[p] = "svrsSet" /\ ctx'[p].tf = traffic[r]
  BY <1>2, <1>4, Moved DEF GetTF, TypeInv, LocalsOK, Locals
<1>7. Registered(p)' /\ HalfClosed(p)'
  BY <1>1, <1>2, <1>3, <1>4, <1>6
  DEF ProcInv, Registered, HalfClosed
<1>8. SyncLoops(p)'
  <2>1. {"getTF", "setTF", "svrsSet"} \subseteq StartLoop
    OBVIOUS
  <2> QED BY <1>1, <1>2, <1>4, <1>6, <2>1, StartLoopStays DEF ProcInv
<1> QED BY <1>1, <1>2, <1>5, <1>6, <1>7, <1>8, TouchesLess, OwnFrame DEF ProcInv

LEMMA SetTFInv ==
  ASSUME SerialInv, TypeInv', NEW p \in Proc, SetTF(p)
  PROVE  SerialInv'
<1> DEFINE r == ctx[p].rid
<1>1. pc[p] = "setTF" /\ pc[p] \in OnRule /\ pc[p] \in Clear /\ pc[p] \notin HalfOpen
  BY DEF SetTF, At
<1>2. /\ r \in Rid /\ r \in Touches(p) /\ Busy(p) /\ ProcInv(p)
      /\ ctx[p] \in Locals /\ HasLocals(pc[p], ctx[p])
  BY <1>1, Own
<1>3. svrs[r] = None
  BY <1>1, <1>2 DEF ProcInv, Registered
<1>4. PICK tf \in Tf : /\ traffic' = [traffic EXCEPT ![r] = tf]
                       /\ ctx' = [ctx EXCEPT ![p].tf = tf]
  BY DEF SetTF
<1>5. TypeInv /\ UNCHANGED <<rules, svrs, relay, bound>>
  BY DEF SerialInv, SetTF, heap
<1>6. traffic'[r] = tf /\ \A x \in Rid \ {r} : traffic'[x] = traffic[x]
  BY <1>2, <1>4, <1>5 DEF TypeInv, DataOK
<1>7. /\ \A q \in Proc \ {p} : pc'[q] = pc[q] /\ ctx'[q] = ctx[q]
      /\ ctx'[p].op = ctx[p].op /\ ctx'[p].rid = ctx[p].rid /\ ctx'[p].new = ctx[p].new
      /\ ctx'[p].tf = tf /\ pc'[p] = "svrsSet"
  BY <1>2, <1>4, <1>5, Moved DEF SetTF, TypeInv, LocalsOK, Locals
<1>8. Elsewhere({r}) /\ \A x \in {r} : SvrInv(x)'
  <2>1. \A x \in Rid \ {r} : traffic'[x] = traffic[x] /\ (rules[x] # None => rules'[x] # None)
    BY <1>5, <1>6
  <2> QED BY <1>2, <1>3, <1>5, <2>1, NoRelay
<1>9. Registered(p)' /\ HalfClosed(p)'
  BY <1>1, <1>2, <1>3, <1>5, <1>6, <1>7
  DEF ProcInv, Registered, HalfClosed
<1>10. SyncLoops(p)'
  <2>1. {"setTF", "svrsSet"} \subseteq StartLoop
    OBVIOUS
  <2> QED BY <1>1, <1>2, <1>5, <1>7, <2>1, StartLoopStays DEF ProcInv
<1> QED BY <1>1, <1>2, <1>7, <1>8, <1>9, <1>10, TouchesLess, OwnFrame DEF ProcInv

LEMMA SvrsSetInv ==
  ASSUME SerialInv, TypeInv', NEW p \in Proc, SvrsSet(p)
  PROVE  SerialInv'
<1> DEFINE r == ctx[p].rid
<1>1. pc[p] = "svrsSet" /\ pc[p] \in OnRule /\ pc[p] \in Clear /\ pc[p] \notin HalfOpen
  BY DEF SvrsSet, At
<1>2. /\ r \in Rid /\ r \in Touches(p) /\ Busy(p) /\ ProcInv(p)
      /\ ctx[p] \in Locals /\ HasLocals(pc[p], ctx[p])
  BY <1>1, Own
<1>3. svrs[r] = None
  BY <1>1, <1>2 DEF ProcInv, Registered
<1>4. PICK o \in Obj : /\ FreshObj(o)
                      /\ relay' = [relay EXCEPT ![o] = NewRelay(p)]
                      /\ svrs' = [svrs EXCEPT ![r] = o]
                      /\ ctx' = [ctx EXCEPT ![p].svr = o]
  BY DEF SvrsSet
<1>5. TypeInv /\ UNCHANGED <<rules, traffic, bound>> /\ Goto(p, "serve")
  BY DEF SerialInv, SvrsSet
<1>6. /\ svrs'[r] = o /\ \A x \in Rid \ {r} : svrs'[x] = svrs[x]
      /\ relay'[o] = NewRelay(p) /\ \A i \in Obj \ {o} : relay'[i] = relay[i]
  BY <1>2, <1>4, <1>5 DEF TypeInv, DataOK
<1>7. /\ \A q \in Proc \ {p} : pc'[q] = pc[q] /\ ctx'[q] = ctx[q]
      /\ ctx'[p].op = ctx[p].op /\ ctx'[p].rid = ctx[p].rid /\ ctx'[p].new = ctx[p].new
      /\ ctx'[p].svr = o /\ pc'[p] = "serve"
  BY <1>2, <1>4, <1>5, Moved DEF TypeInv, LocalsOK, Locals
<1>8. /\ \A x \in Rid : svrs[x] # o
      /\ \A net \in Net : <<o, net>> \notin bound
      /\ bound' \subseteq Obj \X Net
  BY <1>4, <1>5 DEF FreshObj, TypeInv, DataOK
<1>9. Elsewhere({r})
  BY <1>2, <1>3, <1>5, <1>6, <1>8, OneRelay
<1>10. SvrInv(r)'
  <2>1. rules[r] # None /\ traffic[r] = ctx[p].tf
    BY <1>1, <1>2 DEF ProcInv, Registered
  <2>2. relay'[o].rid = r /\ relay'[o].tf = ctx[p].tf
    BY <1>6 DEF NewRelay
  <2> QED BY <1>5, <1>6, <1>7, <2>1, <2>2 DEF SvrInv
<1>11. Registered(p)' /\ HalfClosed(p)'
  BY <1>2, <1>5, <1>6, <1>7, <1>8
  DEF Registered, HalfClosed, Net
<1>12. SyncLoops(p)'
  <2>1. {"svrsSet", "serve"} \subseteq StartLoop
    OBVIOUS
  <2> QED BY <1>1, <1>2, <1>6, <1>7, <2>1, StartLoopStays DEF ProcInv
<1> QED BY <1>1, <1>2, <1>7, <1>9, <1>10, <1>11, <1>12, TouchesLess, OwnFrame DEF
    ProcInv

LEMMA StartFailsInv ==
  ASSUME SerialInv, TypeInv', NEW p \in Proc, StartFails(p)
  PROVE  SerialInv'
<1> DEFINE r == ctx[p].rid
<1>1. pc[p] = "svrsSet" /\ pc[p] \in OnRule /\ pc[p] \in Clear /\ pc[p] \notin HalfOpen
  BY DEF StartFails, At
<1>2. /\ r \in Rid /\ r \in Touches(p) /\ Busy(p) /\ ProcInv(p)
      /\ ctx[p] \in Locals /\ HasLocals(pc[p], ctx[p])
  BY <1>1, Own
<1>3. svrs[r] = None
  BY <1>1, <1>2 DEF ProcInv, Registered
<1>4. TypeInv /\ UNCHANGED <<rules, svrs, traffic, relay, bound>> /\ StartReturns(p)
  BY DEF SerialInv, StartFails, maps, heap
<1>5. ctx[p].op = "sync" => \A x \in Rid : ctx[p].new[x] # None => svrs'[x] = None
  BY <1>1, <1>2, <1>4 DEF ProcInv, SyncLoops
<1>6. /\ ProcInv(p)' /\ Touches(p)' \subseteq Touches(p) /\ pc'[p] # "panicked"
      /\ \A q \in Proc \ {p} : pc'[q] = pc[q] /\ ctx'[q] = ctx[q]
  BY <1>2, <1>4, <1>5, StartReturnsInv
<1>7. Elsewhere({})
  BY <1>4, Quiet
<1> QED BY <1>1, <1>6, <1>7, OwnFrame

LEMMA ListenStep ==
  ASSUME TypeInv, NEW o \in Obj, NEW net \in Net, Listens(o, net) \/ ListenFails(o, net),
         <<o, net>> \notin bound, \A n \in Net : <<o, n>> \in bound => n \in relay[o].lsn
  PROVE  /\ relay'[o].rid = relay[o].rid /\ relay'[o].tf = relay[o].tf
         /\ relay'[o].stop = relay[o].stop
         /\ \A i \in Obj \ {o} : relay'[i] = relay[i]
         /\ \A n \in Net : <<o, n>> \in bound' => n \in relay'[o].lsn
         /\ \A i \in Obj, n \in Net : <<i, n>> # <<o, net>>
              => (<<i, n>> \in bound' <=> <<i, n>> \in bound)
         /\ bound' \subseteq Obj \X Net
<1>1. relay \in [Obj -> Relay] /\ bound \subseteq Obj \X Net /\ relay[o] \in Relay
  BY DEF TypeInv, DataOK
<1>2. CASE Listens(o, net)
  <2>1. bound' = bound \cup {<<o, net>>} /\ relay' = [relay EXCEPT ![o].lsn = @ \cup {net}]
    BY <1>2 DEF Listens
  <2>2. /\ relay'[o].rid = relay[o].rid /\ relay'[o].tf = relay[o].tf
        /\ relay'[o].stop = relay[o].stop /\ relay'[o].lsn = relay[o].lsn \cup {net}
        /\ \A i \in Obj \ {o} : relay'[i] = relay[i]
    BY <1>1, <2>1 DEF Relay
  <2> QED BY <1>1, <2>1, <2>2
<1>3. CASE ListenFails(o, net)
  <2>1. bound' = bound /\ relay' = [relay EXCEPT ![o].lsn = @ \ {net}]
    BY <1>3 DEF ListenFails
  <2>2. /\ relay'[o].rid = relay[o].rid /\ relay'[o].tf = relay[o].tf
        /\ relay'[o].stop = relay[o].stop /\ relay'[o].lsn = relay[o].lsn \ {net}
        /\ \A i \in Obj \ {o} : relay'[i] = relay[i]
    BY <1>1, <2>1 DEF Relay
  <2> QED BY <1>1, <2>1, <2>2
<1> QED BY <1>2, <1>3

LEMMA ServeInv ==
  ASSUME SerialInv, TypeInv', NEW p \in Proc, Serve(p)
  PROVE  SerialInv'
<1> DEFINE r == ctx[p].rid
           o == Svr(p)
<1>1. pc[p] = "serve" /\ pc[p] \in OnRule /\ pc[p] \in Serving /\ pc[p] \in StartLoop
  BY DEF Serve, At
<1>2. /\ r \in Rid /\ r \in Touches(p) /\ Busy(p) /\ ProcInv(p) /\ SvrInv(r)
      /\ \A q \in Proc \ {p} : pc[q] \in OnRule => ctx[q].rid # r
  BY <1>1, Own
<1>3. /\ o \in Obj /\ svrs[r] = o /\ ctx[p].svr = o /\ relay[o].rid = r /\ relay[o] \in Relay
      /\ \A x \in Rid \ {r} : svrs[x] # o
      /\ \A net \in Net : <<o, net>> \in bound => net \in relay[o].lsn
      /\ o # None
  BY <1>1, CloseType
<1>4. /\ UNCHANGED <<rules, svrs, traffic, bound>> /\ TypeInv
      /\ relay' = [relay EXCEPT ![o].stop = "open"] /\ Dispatch(p)
  BY DEF Serve, maps, SerialInv
<1>5. /\ relay'[o].rid = r /\ relay'[o].tf = relay[o].tf /\ relay'[o].lsn = relay[o].lsn
      /\ relay'[o].stop = "open"
      /\ \A i \in Obj \ {o} : relay'[i] = relay[i]
      /\ bound \subseteq Obj \X Net
  BY <1>3, <1>4 DEF TypeInv, DataOK, Relay
<1>6. Elsewhere({r})
  BY <1>2, <1>3, <1>4, <1>5, OneRelay
<1>7. \A x \in {r} : SvrInv(x)'
  BY <1>2, <1>3, <1>4, <1>5 DEF SvrInv
<1>8. CASE StartReturns(p)
  <2>1. ctx[p].op = "sync" => \A x \in Rid : ctx[p].new[x] # None => svrs'[x] = None
    BY <1>1, <1>2, <1>4 DEF ProcInv, SyncLoops
  <2>2. /\ ProcInv(p)' /\ Touches(p)' \subseteq Touches(p) /\ pc'[p] # "panicked"
        /\ \A q \in Proc \ {p} : pc'[q] = pc[q] /\ ctx'[q] = ctx[q]
    BY <1>2, <1>4, <1>8, <2>1, StartReturnsInv
  <2> QED BY <1>2, <1>6, <1>7, <2>2, OwnFrame
<1>9. ASSUME NEW l \in {"listenTcp", "listenUdp"}, Goto(p, l), UNCHANGED ctx PROVE SerialInv'
  <2>1. pc'[p] = l /\ \A q \in Proc \ {p} : pc'[q] = pc[q]
    BY <1>4, <1>9, Moved
  <2>2. Registered(p)' /\ HalfClosed(p)'
    BY <1>1, <1>2, <1>3, <1>4, <1>9, <2>1
    DEF ProcInv, Registered, HalfClosed
  <2>3. SyncLoops(p)'
    <3>1. l \in StartLoop
      OBVIOUS
    <3> QED BY <1>1, <1>2, <1>4, <1>9, <2>1, <3>1, StartLoopStays DEF ProcInv
  <2>4. Touches(p)' \subseteq Touches(p)
    BY <1>2, <1>9, TouchesLess
  <2> QED BY <1>2, <1>6, <1>7, <1>9, <2>1, <2>2, <2>3, <2>4, OwnFrame DEF ProcInv
<1> QED BY <1>4, <1>8, <1>9 DEF Dispatch

LEMMA ListenTCPInv ==
  ASSUME SerialInv, TypeInv', NEW p \in Proc, ListenTCP(p)
  PROVE  SerialInv'
<1> DEFINE r == ctx[p].rid
           o == Svr(p)
<1>1. pc[p] = "listenTcp" /\ pc[p] \in OnRule /\ pc[p] \in Serving /\ pc[p] \in StartLoop
  BY DEF ListenTCP, At
<1>2. /\ r \in Rid /\ r \in Touches(p) /\ Busy(p) /\ ProcInv(p) /\ SvrInv(r)
      /\ \A q \in Proc \ {p} : pc[q] \in OnRule => ctx[q].rid # r
  BY <1>1, Own
<1>3. /\ o \in Obj /\ svrs[r] = o /\ ctx[p].svr = o /\ relay[o].rid = r /\ relay[o] \in Relay
      /\ \A x \in Rid \ {r} : svrs[x] # o
      /\ \A net \in Net : <<o, net>> \in bound => net \in relay[o].lsn
      /\ o # None
  BY <1>1, CloseType
<1>4. /\ UNCHANGED <<rules, svrs, traffic>> /\ TypeInv
      /\ Listens(o, "tcp") \/ ListenFails(o, "tcp")
  BY DEF ListenTCP, maps, SerialInv
<1>5. <<o, "tcp">> \notin bound
  BY <1>1, <1>2, <1>3 DEF ProcInv, HalfClosed
<1>6. /\ relay'[o].rid = r /\ relay'[o].tf = relay[o].tf /\ relay'[o].stop = relay[o].stop
      /\ \A i \in Obj \ {o} : relay'[i] = relay[i]
      /\ \A net \in Net : <<o, net>> \in bound' => net \in relay'[o].lsn
      /\ \A i \in Obj, net \in Net : <<i, net>> # <<o, "tcp">>
           => (<<i, net>> \in bound' <=> <<i, net>> \in bound)
      /\ bound' \subseteq Obj \X Net
  BY <1>3, <1>4, <1>5, ListenStep DEF Net
<1>7. Elsewhere({r})
  BY <1>2, <1>3, <1>4, <1>6, OneRelay
<1>8. relay[o].stop = "open"
  <2>1. HalfOpen \subseteq OnRule /\ pc[p] \notin HalfOpen
    BY <1>1
  <2> QED BY <1>2, <1>3, <2>1 DEF SvrInv
<1>9. \A x \in {r} : SvrInv(x)'
  BY <1>2, <1>3, <1>4, <1>6, <1>8 DEF SvrInv
<1>10. ASSUME StartReturns(p) PROVE SerialInv'
  <2>1. ctx[p].op = "sync" => \A x \in Rid : ctx[p].new[x] # None => svrs'[x] = None
    BY <1>1, <1>2, <1>4 DEF ProcInv, SyncLoops
  <2>2. /\ ProcInv(p)' /\ Touches(p)' \subseteq Touches(p) /\ pc'[p] # "panicked"
        /\ \A q \in Proc \ {p} : pc'[q] = pc[q] /\ ctx'[q] = ctx[q]
    BY <1>2, <1>4, <1>10, <2>1, StartReturnsInv
  <2>3. pc[p] \notin HalfOpen
    BY <1>1
  <2> QED BY <1>2, <1>7, <1>9, <2>2, <2>3, OwnFrame
<1>11. ASSUME Goto(p, "listenUdp"), UNCHANGED ctx PROVE SerialInv'
  <2>1. pc'[p] = "listenUdp" /\ \A q \in Proc \ {p} : pc'[q] = pc[q]
    BY <1>4, <1>11, Moved
  <2>2. <<o, "udp">> \notin bound'
    BY <1>1, <1>2, <1>3, <1>6 DEF ProcInv, HalfClosed, Net
  <2>3. Registered(p)' /\ HalfClosed(p)'
    BY <1>2, <1>3, <1>4, <1>11, <2>1, <2>2
    DEF Registered, HalfClosed
  <2>4. SyncLoops(p)'
    <3>1. "listenUdp" \in StartLoop
      OBVIOUS
    <3> QED BY <1>1, <1>2, <1>4, <1>11, <2>1, <3>1, StartLoopStays DEF ProcInv
  <2>5. Touches(p)' \subseteq Touches(p)
    BY <1>2, <1>11, TouchesLess
  <2>6. pc[p] \notin HalfOpen
    BY <1>1
  <2> QED BY <1>2, <1>7, <1>9, <1>11, <2>1, <2>3, <2>4, <2>5, <2>6, OwnFrame DEF
      ProcInv
<1> QED BY <1>10, <1>11 DEF ListenTCP

LEMMA ListenUDPInv ==
  ASSUME SerialInv, TypeInv', NEW p \in Proc, ListenUDP(p)
  PROVE  SerialInv'
<1> DEFINE r == ctx[p].rid
           o == Svr(p)
<1>1. pc[p] = "listenUdp" /\ pc[p] \in OnRule /\ pc[p] \in Serving /\ pc[p] \in StartLoop
  BY DEF ListenUDP, At
<1>2. /\ r \in Rid /\ r \in Touches(p) /\ Busy(p) /\ ProcInv(p) /\ SvrInv(r)
      /\ \A q \in Proc \ {p} : pc[q] \in OnRule => ctx[q].rid # r
  BY <1>1, Own
<1>3. /\ o \in Obj /\ svrs[r] = o /\ ctx[p].svr = o /\ relay[o].rid = r /\ relay[o] \in Relay
      /\ \A x \in Rid \ {r} : svrs[x] # o
      /\ \A net \in Net : <<o, net>> \in bound => net \in relay[o].lsn
      /\ o # None
  BY <1>1, CloseType
<1>4. /\ UNCHANGED <<rules, svrs, traffic>> /\ TypeInv
      /\ Listens(o, "udp") \/ ListenFails(o, "udp")
  BY DEF ListenUDP, maps, SerialInv
<1>5. <<o, "udp">> \notin bound
  BY <1>1, <1>2, <1>3 DEF ProcInv, HalfClosed
<1>6. /\ relay'[o].rid = r /\ relay'[o].tf = relay[o].tf /\ relay'[o].stop = relay[o].stop
      /\ \A i \in Obj \ {o} : relay'[i] = relay[i]
      /\ \A net \in Net : <<o, net>> \in bound' => net \in relay'[o].lsn
      /\ \A i \in Obj, net \in Net : <<i, net>> # <<o, "udp">>
           => (<<i, net>> \in bound' <=> <<i, net>> \in bound)
      /\ bound' \subseteq Obj \X Net
  BY <1>3, <1>4, <1>5, ListenStep DEF Net
<1>7. Elsewhere({r})
  BY <1>2, <1>3, <1>4, <1>6, OneRelay
<1>8. relay[o].stop = "open"
  <2>1. HalfOpen \subseteq OnRule /\ pc[p] \notin HalfOpen
    BY <1>1
  <2> QED BY <1>2, <1>3, <2>1 DEF SvrInv
<1>9. \A x \in {r} : SvrInv(x)'
  BY <1>2, <1>3, <1>4, <1>6, <1>8 DEF SvrInv
<1>10. ASSUME StartReturns(p) PROVE SerialInv'
  <2>1. ctx[p].op = "sync" => \A x \in Rid : ctx[p].new[x] # None => svrs'[x] = None
    BY <1>1, <1>2, <1>4 DEF ProcInv, SyncLoops
  <2>2. /\ ProcInv(p)' /\ Touches(p)' \subseteq Touches(p) /\ pc'[p] # "panicked"
        /\ \A q \in Proc \ {p} : pc'[q] = pc[q] /\ ctx'[q] = ctx[q]
    BY <1>2, <1>4, <1>10, <2>1, StartReturnsInv
  <2>3. pc[p] \notin HalfOpen
    BY <1>1
  <2> QED BY <1>2, <1>7, <1>9, <2>2, <2>3, OwnFrame
<1> QED BY <1>10 DEF ListenUDP

LEMMA StepInv ==
  ASSUME SerialInv, NEW p \in Proc, Step(p)
  PROVE  SerialInv'
<1>1. TypeInv'
  BY StepType DEF SerialInv
<1> QED BY <1>1, StopLookupInv, RestartLookupInv, CloseStopChInv, NoClosePanic,
           CloseTCPListenInv, CloseUDPConnInv, SvrsRemoveInv, EditRulesSetInv,
           RulesRemoveInv, TrafficRemoveInv, GetTFInv, SetTFInv, SvrsSetInv,
           StartFailsInv, ServeInv, ListenTCPInv, ListenUDPInv DEF Step

-----------------------------------------------------------------------------
(* Requests, from a client that keeps to Serial and FreshAdds *)

(* A request on the rules S that only reads the registry *)
LEMMA QuietRequest ==
  ASSUME SerialInv, TypeInv', NEW h \in Handler, NEW S \in SUBSET Rid,
         NEW l \in {"stop", "restart", "sync", "data"},
         NEW c, Begin(h, l, c), UNCHANGED <<rules, svrs, traffic, relay, bound>>,
         \A q \in Proc \ {h} : Touches(q) \cap S = {},
         (IF c.op = "sync" THEN Rid ELSE {c.rid}) \cap Rid \subseteq S,
         l = "restart" => rules[c.rid] # None,
         l = "stop" => c.op # "sync"
  PROVE  SerialInv'
<1>1. /\ h \in Proc /\ pc'[h] = l /\ ctx'[h] = c /\ pc[h] \notin HalfOpen
      /\ \A q \in Proc \ {h} : pc'[q] = pc[q] /\ ctx'[q] = ctx[q]
  BY BeginStep DEF SerialInv
<1>2. Elsewhere({})
  BY Quiet DEF SerialInv
<1>3. Touches(h)' \cap Rid \subseteq S
  BY <1>1 DEF Touches
<1>4. \A q \in Proc \ {h} : Touches(q) \cap ({} \cup Touches(h)') \cap Rid = {}
  BY <1>3
<1>5. ProcInv(h)'
  BY <1>1
  DEF ProcInv, Registered, HalfClosed, SyncLoops
<1> QED BY <1>1, <1>2, <1>4, <1>5, Frame

LEMMA Admitted ==
  ASSUME Serial, AfterBoot, NEW h \in Handler, NEW op, NEW S, Admit(h, op, S)
  PROVE  \A q \in Proc \ {h} : Touches(q) \cap S = {}
  BY DEF Admit, Proc

LEMMA AcceptInv ==
  ASSUME Serial, FreshAdds, AfterBoot, SerialInv, NEW h \in Handler, Accept(h)
  PROVE  SerialInv'
<1>0. TypeInv /\ TypeInv' /\ h \in Proc
  BY AcceptType DEF SerialInv, Proc
<1>1. CASE PostAdd(h)
  <2>1. PICK rid \in Rid, r \in Parsed :
         /\ Admit(h, "add", {rid})
         /\ Begin(h, "getTF", Request("add", rid, r, NoRules))
         /\ rules' = [rules EXCEPT ![rid] = r]
         /\ UNCHANGED <<svrs, traffic, relay, bound>>
    BY <1>1 DEF PostAdd, heap
  <2>2. svrs[rid] = None /\ \A q \in Proc \ {h} : Touches(q) \cap {rid} = {}
    BY <2>1, Admitted DEF Admit
  <2>3. rules'[rid] # None /\ \A x \in Rid \ {rid} : rules'[x] = rules[x]
    BY <1>0, <2>1, ParsedType, ConstantsAssumption DEF TypeInv, DataOK, RuleMap
  <2>4. Elsewhere({rid}) /\ \A x \in {rid} : SvrInv(x)'
    BY <2>1, <2>2, <2>3, NoRelay
  <2> DEFINE c == Request("add", rid, r, NoRules)
  <2>5. c.op = "add" /\ c.rid = rid
    BY DEF Request
  <2>6. /\ pc'[h] = "getTF" /\ ctx'[h] = c /\ pc[h] \notin HalfOpen
        /\ \A q \in Proc \ {h} : pc'[q] = pc[q] /\ ctx'[q] = ctx[q]
    BY <1>0, <2>1, BeginStep
  <2> HIDE DEF c
  <2>7. \A q \in Proc \ {h} : Touches(q) \cap ({rid} \cup Touches(h)') \cap Rid = {}
    BY <2>2, <2>5, <2>6 DEF Touches
  <2>8. ProcInv(h)'
    BY <2>1, <2>2, <2>3, <2>5, <2>6
    DEF ProcInv, Registered, HalfClosed, SyncLoops
  <2> QED BY <1>0, <2>4, <2>6, <2>7, <2>8, Frame
<1>2. CASE PostEdit(h)
  <2>1. PICK rid \in Rid, r \in Parsed :
         /\ Admit(h, "edit", {rid})
         /\ Begin(h, "stop", Request("edit", rid, r, NoRules))
         /\ UNCHANGED <<rules, svrs, traffic, relay, bound>>
    BY <1>2 DEF PostEdit, maps, heap
  <2>2. Request("edit", rid, r, NoRules).op = "edit" /\ Request("edit", rid, r, NoRules).rid = rid
    BY DEF Request
  <2>3. \A q \in Proc \ {h} : Touches(q) \cap {rid} = {}
    BY <2>1, Admitted
  <2> QED BY <1>0, <2>1, <2>2, <2>3, QuietRequest
<1>3. CASE PostDel(h)
  <2>1. PICK rid \in Rid :
         /\ Admit(h, "del", {rid})
         /\ Begin(h, "stop", Request("del", rid, rules[rid], NoRules))
         /\ UNCHANGED <<rules, svrs, traffic, relay, bound>>
    BY <1>3 DEF PostDel, maps, heap
  <2> DEFINE c == Request("del", rid, rules[rid], NoRules)
  <2>2. c.op = "del" /\ c.rid = rid
    BY DEF Request
  <2>3. \A q \in Proc \ {h} : Touches(q) \cap {rid} = {}
    BY <2>1, Admitted
  <2> QED BY <1>0, <2>1, <2>2, <2>3, QuietRequest
<1>4. CASE PostRestart(h)
  <2>1. PICK rid \in Rid :
         /\ rules[rid] # None
         /\ Admit(h, "restart", {rid})
         /\ Begin(h, "restart", Request("restart", rid, rules[rid], NoRules))
         /\ UNCHANGED <<rules, svrs, traffic, relay, bound>>
    BY <1>4 DEF PostRestart, maps, heap
  <2> DEFINE c == Request("restart", rid, rules[rid], NoRules)
  <2>2. c.op = "restart" /\ c.rid = rid
    BY DEF Request
  <2>3. \A q \in Proc \ {h} : Touches(q) \cap {rid} = {}
    BY <2>1, Admitted
  <2> QED BY <1>0, <2>1, <2>2, <2>3, QuietRequest
<1>5. CASE PostSync(h)
  <2>1. PICK new \in SyncInput :
         /\ Admit(h, "sync", Rid)
         /\ Begin(h, "sync", Request("sync", None, None, new))
         /\ UNCHANGED <<rules, svrs, traffic, relay, bound>>
    BY <1>5 DEF PostSync, maps, heap
  <2> DEFINE c == Request("sync", None, None, new)
  <2>2. c.op = "sync"
    BY DEF Request
  <2>3. \A q \in Proc \ {h} : Touches(q) \cap Rid = {}
    BY <2>1, Admitted
  <2> QED BY <1>0, <2>1, <2>2, <2>3, QuietRequest
<1>6. CASE GetData(h)
  <2> DEFINE c == [Request("data", None, None, NoRules) EXCEPT !.items = rules]
  <2>1. /\ Begin(h, "data", c)
        /\ UNCHANGED <<rules, svrs, traffic, relay, bound>>
    BY <1>6 DEF GetData, maps, heap
  <2>2. c.op = "data" /\ c.rid = None
    BY DEF Request
  <2>3. None \notin Rid
    BY ConstantsAssumption
  <2> HIDE DEF c
  <2>4. (IF c.op = "sync" THEN Rid ELSE {c.rid}) \cap Rid \subseteq {}
    BY <2>2, <2>3
  <2> QED BY <1>0, <2>1, <2>4, QuietRequest
<1> QED BY <1>1, <1>2, <1>3, <1>4, <1>5, <1>6 DEF Accept

-----------------------------------------------------------------------------
(* sync() and GET /data *)

(* A step of a sync that leaves the registry alone *)
LEMMA QuietSync ==
  ASSUME SerialInv, TypeInv', NEW p \in Proc, ctx[p].op = "sync", Busy(p),
         pc[p] \notin HalfOpen, UNCHANGED <<rules, svrs, traffic, relay, bound>>,
         ctx'[p].op = "sync", pc'[p] # "panicked", ProcInv(p)',
         \A q \in Proc \ {p} : pc'[q] = pc[q] /\ ctx'[q] = ctx[q]
  PROVE  SerialInv'
<1>1. Elsewhere({})
  BY Quiet DEF SerialInv
<1>2. Touches(p)' \subseteq Touches(p)
  BY TouchesLess
<1> QED BY <1>1, <1>2, OwnFrame

(* The goroutine answers; the registry stays as it is. *)
LEMMA QuietEnd ==
  ASSUME SerialInv, TypeInv', NEW p \in Proc, pc[p] \notin HalfOpen,
         UNCHANGED <<rules, svrs, traffic, relay, bound>>, Goto(p, "idle"),
         ctx' = [ctx EXCEPT ![p] = NoRequest]
  PROVE  SerialInv'
<1>1. Elsewhere({})
  BY Quiet DEF SerialInv
<1>2. /\ pc'[p] = "idle"
      /\ \A q \in Proc \ {p} : pc'[q] = pc[q] /\ ctx'[q] = ctx[q]
  BY Moved DEF SerialInv, TypeInv, LocalsOK
<1>3. ProcInv(p)' /\ Touches(p)' = {}
  BY <1>2, IdleInv, TouchesNothing
<1> QED BY <1>1, <1>2, <1>3, OwnFrame

LEMMA SyncStepInv ==
  ASSUME SerialInv, NEW p \in Proc, SyncStep(p)
  PROVE  SerialInv'
<1>0. TypeInv' /\ TypeInv
  BY SyncStepType DEF SerialInv
<1>1. /\ ctx[p] \in Locals /\ HasLocals(pc[p], ctx[p]) /\ ProcInv(p)
      /\ pc \in [Proc -> Labels] /\ ctx \in [Proc -> Locals]
  BY DEF SerialInv, TypeInv, LocalsOK
<1>2. pc[p] \in SyncOnly
  BY DEF SyncStep, SyncEnter, SyncClaim, SyncItems, SyncStops, SyncPicks,
      SyncResolves, SyncSkips, SyncCancelled, SyncFinishes, SyncMarshals,
      SyncTruncates, SyncWrites, WriteFails, At
<1>3. ctx[p].op = "sync" /\ Busy(p) /\ pc[p] \notin HalfOpen
  BY <1>1, <1>2 DEF HasLocals, Busy
<1>4. CASE SyncEnter(p)
  <2>1. UNCHANGED <<rules, svrs, traffic, relay, bound>>
    BY <1>4 DEF SyncEnter, maps, heap
  <2>2. /\ pc'[p] = "syncClaim" /\ ctx'[p].op = "sync"
        /\ \A q \in Proc \ {p} : pc'[q] = pc[q] /\ ctx'[q] = ctx[q]
    BY <1>0, <1>1, <1>3, <1>4, Moved DEF SyncEnter, Locals
  <2>3. ProcInv(p)'
    BY <2>2
    DEF ProcInv, Registered, HalfClosed, SyncLoops
  <2> QED BY <1>0, <1>3, <2>1, <2>2, <2>3, QuietSync
<1>5. CASE SyncClaim(p)
  <2>1. UNCHANGED <<rules, svrs, traffic, relay, bound>>
    BY <1>5 DEF SyncClaim, maps, heap
  <2>2. /\ pc'[p] = "syncItems" /\ ctx'[p].op = "sync"
        /\ \A q \in Proc \ {p} : pc'[q] = pc[q] /\ ctx'[q] = ctx[q]
    BY <1>0, <1>1, <1>3, <1>5, Moved DEF SyncClaim, Locals
  <2>3. ProcInv(p)'
    BY <2>2
    DEF ProcInv, Registered, HalfClosed, SyncLoops
  <2> QED BY <1>0, <1>3, <2>1, <2>2, <2>3, QuietSync
<1>6. CASE SyncItems(p)
  <2>1. UNCHANGED <<rules, svrs, traffic, relay, bound>>
    BY <1>6 DEF SyncItems, maps, heap
  <2>2. /\ pc'[p] = "syncStops" /\ ctx'[p].op = "sync" /\ ctx'[p].items = rules
        /\ \A q \in Proc \ {p} : pc'[q] = pc[q] /\ ctx'[q] = ctx[q]
    BY <1>0, <1>1, <1>3, <1>6, Moved DEF SyncItems, Locals
  <2>3. \A x \in Rid : rules[x] = None => svrs'[x] = None
    BY <2>1 DEF SerialInv, SvrInv
  <2>4. ProcInv(p)'
    BY <2>2, <2>3
    DEF ProcInv, Registered, HalfClosed, SyncLoops
  <2> QED BY <1>0, <1>3, <2>1, <2>2, <2>4, QuietSync
<1>7. CASE SyncStops(p)
  <2>1. UNCHANGED <<rules, svrs, traffic, relay, bound>>
    BY <1>7 DEF SyncStops, maps, heap
  <2>2. pc[p] = "syncStops" /\ ctx[p].new \in RuleMap /\ ctx[p].items \in RuleMap
    BY <1>1, <1>7 DEF SyncStops, At, Locals
  <2>3. \A x \in Rid : ctx[p].new[x] # None /\ ctx[p].items[x] = None => svrs[x] = None
    BY <1>1, <1>3, <2>2 DEF ProcInv, SyncLoops
  <2>4. ASSUME NEW rid \in Rid, SyncKeeps(p, rid) PROVE SerialInv'
    <3>1. /\ pc' = pc /\ ctx'[p].op = "sync"
          /\ ctx'[p].new = [ctx[p].new EXCEPT ![rid] = None]
          /\ ctx'[p].items = [ctx[p].items EXCEPT ![rid] = None]
          /\ \A q \in Proc \ {p} : ctx'[q] = ctx[q]
      BY <1>1, <1>3, <2>4 DEF SyncKeeps, Locals
    <3>2. \A x \in Rid : ctx'[p].new[x] # None /\ ctx'[p].items[x] = None => svrs'[x] = None
      BY <2>1, <2>2, <2>3, <3>1 DEF RuleMap
    <3>3. ProcInv(p)'
      BY <2>2, <3>1, <3>2
      DEF ProcInv, Registered, HalfClosed, SyncLoops
    <3> QED BY <1>0, <1>3, <2>1, <2>2, <3>1, <3>3, QuietSync
  <2>5. ASSUME NEW rid \in Rid, SyncDrops(p, rid) PROVE SerialInv'
    <3>1. /\ pc'[p] = "stop" /\ ctx'[p].op = "sync" /\ ctx'[p].new = ctx[p].new
          /\ ctx'[p].items = [ctx[p].items EXCEPT ![rid] = None] /\ ctx'[p].rid = rid
          /\ \A q \in Proc \ {p} : pc'[q] = pc[q] /\ ctx'[q] = ctx[q]
      BY <1>0, <1>1, <1>3, <2>5, Moved DEF SyncDrops, Locals
    <3>2. \A x \in Rid \ {rid} :
            ctx'[p].new[x] # None /\ ctx'[p].items[x] = None => svrs'[x] = None
      BY <2>1, <2>2, <2>3, <3>1 DEF RuleMap
    <3>3. ProcInv(p)'
      BY <3>1, <3>2
      DEF ProcInv, Registered, HalfClosed, SyncLoops
    <3> QED BY <1>0, <1>3, <2>1, <3>1, <3>3, QuietSync
  <2>6. ASSUME ctx[p].items = NoRules, Goto(p, "syncStarts"), UNCHANGED ctx PROVE SerialInv'
    <3>1. pc'[p] = "syncStarts" /\ \A q \in Proc \ {p} : pc'[q] = pc[q] /\ ctx'[q] = ctx[q]
      BY <1>0, <2>6, Moved
    <3>2. \A x \in Rid : ctx'[p].new[x] # None => svrs'[x] = None
      BY <2>1, <2>3, <2>6, NoRulesType
    <3>3. ProcInv(p)'
      BY <3>1, <3>2
      DEF ProcInv, Registered, HalfClosed, SyncLoops
    <3> QED BY <1>0, <1>3, <2>1, <2>6, <3>1, <3>3, QuietSync
  <2> QED BY <1>7, <2>4, <2>5, <2>6 DEF SyncStops
<1>8. CASE SyncPicks(p)
  <2>1. UNCHANGED <<rules, svrs, traffic, relay, bound>>
    BY <1>8 DEF SyncPicks, maps, heap
  <2>2. pc[p] = "syncStarts" /\ ctx[p].new \in RuleMap
    BY <1>1, <1>8 DEF SyncPicks, At, Locals
  <2>3. \A x \in Rid : ctx[p].new[x] # None => svrs[x] = None
    BY <1>1, <1>3, <2>2 DEF ProcInv, SyncLoops
  <2>4. PICK rid \in Rid :
         /\ ctx[p].new[rid] # None
         /\ ctx' = [ctx EXCEPT ![p].new[rid] = None, ![p].rid = rid,
                               ![p].rule = ctx[p].new[rid]]
    BY <1>8 DEF SyncPicks
  <2>5. /\ ctx'[p].op = "sync" /\ ctx'[p].rid = rid
        /\ ctx'[p].new = [ctx[p].new EXCEPT ![rid] = None]
        /\ \A q \in Proc \ {p} : ctx'[q] = ctx[q]
    BY <1>1, <1>3, <2>4 DEF Locals
  <2>6. pc'[p] = "syncResolve" /\ \A q \in Proc \ {p} : pc'[q] = pc[q]
    BY <1>0, <1>8, Moved DEF SyncPicks
  <2>7. /\ \A x \in Rid : ctx'[p].new[x] # None => svrs'[x] = None
        /\ ctx'[p].new[rid] = None /\ svrs'[rid] = None
    BY <2>1, <2>2, <2>3, <2>4, <2>5 DEF RuleMap
  <2>8. ProcInv(p)'
    BY <2>5, <2>6, <2>7
    DEF ProcInv, Registered, HalfClosed, SyncLoops
  <2> QED BY <1>0, <1>3, <2>1, <2>5, <2>6, <2>8, QuietSync
<1>9. CASE SyncResolves(p)
  <2> DEFINE r == ctx[p].rid
  <2>1. pc[p] = "syncResolve" /\ pc[p] \in OnRule /\ pc[p] \in Clear /\ pc[p] \in StartLoop
    BY <1>9 DEF SyncResolves, At
  <2>2. r \in Rid /\ r \in Touches(p) /\ ctx[p].rule \in Rule
    BY <1>1, <2>1, Own DEF HasLocals
  <2>3. svrs[r] = None
    BY <1>1, <2>1 DEF ProcInv, Registered
  <2>4. PICK rule :
         /\ rules' = [rules EXCEPT ![r] = rule]
         /\ ctx' = [ctx EXCEPT ![p].rule = rule]
    BY <1>9 DEF SyncResolves
  <2>5. /\ UNCHANGED <<svrs, traffic, relay, bound>>
        /\ pc'[p] = "getTF" /\ \A q \in Proc \ {p} : pc'[q] = pc[q]
    BY <1>0, <1>9, Moved DEF SyncResolves, heap
  <2>6. /\ ctx'[p].op = "sync" /\ ctx'[p].rid = r /\ ctx'[p].new = ctx[p].new
        /\ ctx'[p].rule = rule /\ \A q \in Proc \ {p} : ctx'[q] = ctx[q]
    BY <1>1, <1>3, <2>4 DEF Locals
  <2>7. rules'[r] = rule /\ \A x \in Rid \ {r} : rules'[x] = rules[x]
    BY <1>0, <2>2, <2>4 DEF TypeInv, DataOK, RuleMap
  <2>8. rule # None
    <3>1. ctx'[p].rule \in Rule
      BY <1>0, <2>5 DEF TypeInv, LocalsOK, HasLocals
    <3> QED BY <2>6, <3>1, ConstantsAssumption
  <2>9. Elsewhere({r}) /\ \A x \in {r} : SvrInv(x)'
    BY <2>2, <2>3, <2>5, <2>7, NoRelay
  <2>10. Registered(p)' /\ HalfClosed(p)'
    BY <2>3, <2>5, <2>6, <2>7, <2>8
    DEF Registered, HalfClosed
  <2>11. SyncLoops(p)'
    <3>1. "getTF" \in StartLoop
      OBVIOUS
    <3> QED BY <1>1, <1>3, <2>1, <2>5, <2>6, <3>1, StartLoopStays DEF ProcInv
  <2>12. Touches(p)' \subseteq Touches(p)
    BY <1>3, <2>6, TouchesLess
  <2> QED BY <1>0, <1>3, <2>2, <2>5, <2>6, <2>9, <2>10, <2>11, <2>12, OwnFrame DEF
      ProcInv
<1>10. CASE SyncSkips(p)
  <2>1. UNCHANGED <<rules, svrs, traffic, relay, bound>>
    BY <1>10 DEF SyncSkips, maps, heap
  <2>2. \A x \in Rid : ctx[p].new[x] # None => svrs'[x] = None
    BY <1>1, <1>3, <1>10, <2>1 DEF SyncSkips, At, ProcInv, SyncLoops
  <2>3. /\ pc'[p] = "syncStarts" /\ ctx'[p].op = "sync" /\ ctx'[p].new = ctx[p].new
        /\ \A q \in Proc \ {p} : pc'[q] = pc[q] /\ ctx'[q] = ctx[q]
    BY <1>0, <1>1, <1>3, <1>10, Moved DEF SyncSkips, Locals
  <2>4. ProcInv(p)'
    BY <2>2, <2>3 DEF ProcInv, Registered, HalfClosed, SyncLoops
  <2> QED BY <1>0, <1>3, <2>1, <2>3, <2>4, QuietSync
<1>11. CASE SyncCancelled(p)
  BY <1>0, <1>3, <1>11, QuietEnd DEF SyncCancelled, SyncReturns, maps, heap
<1>12. CASE SyncFinishes(p)
  <2>1. UNCHANGED <<rules, svrs, traffic, relay, bound>>
    BY <1>12 DEF SyncFinishes, maps, heap
  <2>2. /\ pc'[p] = "syncMarshal" /\ ctx'[p].op = "sync"
        /\ \A q \in Proc \ {p} : pc'[q] = pc[q] /\ ctx'[q] = ctx[q]
    BY <1>0, <1>1, <1>3, <1>12, Moved DEF SyncFinishes, Locals
  <2>3. ProcInv(p)'
    BY <2>2
    DEF ProcInv, Registered, HalfClosed, SyncLoops
  <2> QED BY <1>0, <1>3, <2>1, <2>2, <2>3, QuietSync
<1>13. CASE SyncMarshals(p)
  <2>1. UNCHANGED <<rules, svrs, traffic, relay, bound>>
    BY <1>13 DEF SyncMarshals, maps, heap
  <2>2. /\ pc'[p] = "syncTruncate" /\ ctx'[p].op = "sync"
        /\ \A q \in Proc \ {p} : pc'[q] = pc[q] /\ ctx'[q] = ctx[q]
    BY <1>0, <1>1, <1>3, <1>13, Moved DEF SyncMarshals, Locals
  <2>3. ProcInv(p)'
    BY <2>2
    DEF ProcInv, Registered, HalfClosed, SyncLoops
  <2> QED BY <1>0, <1>3, <2>1, <2>2, <2>3, QuietSync
<1>14. CASE SyncTruncates(p)
  <2>1. UNCHANGED <<rules, svrs, traffic, relay, bound>>
    BY <1>14 DEF SyncTruncates, maps, heap
  <2>2. /\ pc'[p] = "syncWrite" /\ ctx'[p].op = "sync"
        /\ \A q \in Proc \ {p} : pc'[q] = pc[q] /\ ctx'[q] = ctx[q]
    BY <1>0, <1>1, <1>3, <1>14, Moved DEF SyncTruncates, Locals
  <2>3. ProcInv(p)'
    BY <2>2
    DEF ProcInv, Registered, HalfClosed, SyncLoops
  <2> QED BY <1>0, <1>3, <2>1, <2>2, <2>3, QuietSync
<1>15. CASE SyncWrites(p)
  BY <1>0, <1>3, <1>15, QuietEnd DEF SyncWrites, SyncReturns, maps, heap
<1>16. CASE WriteFails(p)
  BY <1>0, <1>3, <1>16, QuietEnd DEF WriteFails, SyncReturns, maps, heap
<1> QED BY <1>4, <1>5, <1>6, <1>7, <1>8, <1>9, <1>10, <1>11, <1>12, <1>13, <1>14, <1>15,
           <1>16
        DEF SyncStep

LEMMA DataStepInv ==
  ASSUME SerialInv, NEW p \in Proc, DataStep(p)
  PROVE  SerialInv'
<1>1. TypeInv /\ TypeInv'
  BY DataStepType DEF SerialInv
<1>2. /\ pc[p] = "data" /\ ctx[p].op = "data" /\ pc[p] \notin HalfOpen /\ Busy(p)
  BY <1>1
  DEF DataStep, DataAnswers, DataPanics, At, TypeInv, LocalsOK, HasLocals, Busy
<1>3. CASE DataAnswers(p)
  BY <1>1, <1>2, <1>3, QuietEnd DEF DataAnswers, maps, heap
<1>4. CASE DataPanics(p)
  <2>1. UNCHANGED <<rules, svrs, traffic, relay, bound, ctx>>
    BY <1>4 DEF DataPanics, maps, heap
  <2>2. pc'[p] = "panicked" /\ \A q \in Proc \ {p} : pc'[q] = pc[q]
    BY <1>1, <1>4, Moved DEF DataPanics
  <2>3. Elsewhere({})
    BY <1>1, <2>1, Quiet
  <2>4. ProcInv(p)'
    BY <2>2
    DEF ProcInv, Registered, HalfClosed, SyncLoops
  <2>5. Touches(p)' \subseteq Touches(p)
    BY <1>2, <2>1, TouchesLess
  <2> QED BY <1>1, <1>2, <2>1, <2>2, <2>3, <2>4, <2>5, OwnFrame
<1> QED BY <1>3, <1>4 DEF DataStep

-----------------------------------------------------------------------------
(* ddns(), the end of the process and its start *)

LEMMA QuietWrite ==
  ASSUME UNCHANGED <<svrs, traffic, bound>>,
         \A x \in Rid : rules[x] # None => rules'[x] # None,
         \A o \in Obj : /\ relay'[o].rid = relay[o].rid /\ relay'[o].tf = relay[o].tf
                        /\ relay'[o].stop = relay[o].stop /\ relay'[o].lsn = relay[o].lsn
  PROVE  Elsewhere({})
<1>1. \A b \in bound' : b \in bound /\ \A x \in {} : svrs[x] # b[1]
  OBVIOUS
<1>2. \A o \in Obj, net \in Net : <<o, net>> \in bound' <=> <<o, net>> \in bound
  OBVIOUS
<1>3. \A x \in Rid \ {} : /\ svrs'[x] = svrs[x]
                         /\ traffic'[x] = traffic[x]
                         /\ rules[x] # None => rules'[x] # None
  OBVIOUS
<1> QED BY <1>1, <1>2, <1>3 DEF Elsewhere

(* ddns() only writes addresses, and rules that are there afterwards. *)
LEMMA DdnsElsewhere ==
  ASSUME TypeInv, DdnsStep
  PROVE  /\ Elsewhere({}) /\ UNCHANGED <<pc, ctx>>
<1>1. UNCHANGED <<pc, ctx>>
  BY DEF DdnsStep, DdnsWakes, DdnsLookup, DdnsSetsRaddr, DdnsPanics, DdnsSetsRule,
      DdnsSleeps
<1>2. CASE DdnsWakes \/ DdnsLookup \/ DdnsPanics \/ DdnsSleeps
  BY <1>1, <1>2, Quiet DEF DdnsWakes, DdnsLookup, DdnsPanics, DdnsSleeps, maps, heap
<1>3. CASE DdnsSetsRaddr
  <2>1. /\ UNCHANGED <<rules, svrs, traffic, bound>>
        /\ relay' = [relay EXCEPT ![svrs[ddns.rid]].raddr = ddns.rule.rip]
    BY <1>3 DEF DdnsSetsRaddr, maps
  <2>2. \A o \in Obj : /\ relay'[o].rid = relay[o].rid /\ relay'[o].tf = relay[o].tf
                       /\ relay'[o].stop = relay[o].stop /\ relay'[o].lsn = relay[o].lsn
    BY <2>1 DEF TypeInv, DataOK, Relay
  <2>3. UNCHANGED <<svrs, traffic, bound>> /\ \A x \in Rid : rules[x] # None => rules'[x] # None
    BY <2>1
  <2> QED BY <1>1, <2>2, <2>3, QuietWrite
<1>4. CASE DdnsSetsRule
  <2>1. /\ UNCHANGED <<svrs, traffic, relay, bound>>
        /\ rules' = [rules EXCEPT ![ddns.rid] = ddns.rule] /\ ddns.rule # None
    BY <1>4, ConstantsAssumption DEF DdnsSetsRule, heap, TypeInv, DdnsOK
  <2>2. \A x \in Rid : rules[x] # None => rules'[x] # None
    BY <2>1 DEF TypeInv, DataOK, RuleMap
  <2>3. \A o \in Obj : /\ relay'[o].rid = relay[o].rid /\ relay'[o].tf = relay[o].tf
                       /\ relay'[o].stop = relay[o].stop /\ relay'[o].lsn = relay[o].lsn
    BY <2>1
  <2>4. UNCHANGED <<svrs, traffic, bound>>
    BY <2>1
  <2> QED BY <1>1, <2>2, <2>3, <2>4, QuietWrite
<1> QED BY <1>1, <1>2, <1>3, <1>4 DEF DdnsStep

LEMMA DdnsStepInv ==
  ASSUME SerialInv, DdnsStep
  PROVE  SerialInv'
<1>1. TypeInv /\ TypeInv' /\ Elsewhere({}) /\ UNCHANGED <<pc, ctx>>
  BY DdnsStepType, DdnsElsewhere DEF SerialInv
<1>4. NoDoubleClose' /\ Disjoint'
  BY <1>1 DEF SerialInv, NoDoubleClose, Disjoint, Touches, Busy
<1>5. ASSUME NEW q \in Proc PROVE ProcInv(q)'
  BY <1>1, FrameProc DEF SerialInv
<1>6. Owned'
  BY <1>1, FrameOwned DEF SerialInv
<1>7. ASSUME NEW x \in Rid PROVE SvrInv(x)'
  <2>1. \A o \in Obj : svrs[x] = o => /\ relay'[o].rid = relay[o].rid
                                     /\ relay'[o].tf = relay[o].tf
                                     /\ relay'[o].stop = relay[o].stop
    BY <1>1 DEF Elsewhere
  <2>2. svrs'[x] = svrs[x] /\ traffic'[x] = traffic[x] /\ (rules[x] # None => rules'[x] # None)
    BY <1>1 DEF Elsewhere
  <2>3. svrs[x] \in Obj \cup {None}
    BY <1>1 DEF TypeInv, DataOK
  <2> QED BY <1>1, <2>1, <2>2, <2>3 DEF SerialInv, SvrInv
<1> QED BY <1>1, <1>4, <1>5, <1>6, <1>7 DEF SerialInv

(* A process that starts *)
LEMMA StartInv ==
  ASSUME NEW f \in Files, NEW q \in Proc
  PROVE  /\ BootPc(f)[q] \in {"idle", "sync"}
         /\ BootPc(f)[q] # "idle" => q = Boot
  BY DEF BootPc

LEMMA InitInv == Init => SerialInv
<1> SUFFICES ASSUME Init PROVE SerialInv
  OBVIOUS
<1>1. TypeInv /\ file \in Files
  BY InitType DEF TypeInv, DataOK
<1>2. \A q \in Proc : pc[q] \in {"idle", "sync"} /\ (pc[q] # "idle" => q = Boot)
  BY <1>1, StartInv DEF Init
<1>3. NoDoubleClose /\ Disjoint
  BY <1>2 DEF NoDoubleClose, Disjoint, Touches, Busy
<1>4. \A q \in Proc : ProcInv(q)
  BY <1>2
  DEF ProcInv, Registered, HalfClosed, SyncLoops
<1>5. (\A x \in Rid : SvrInv(x)) /\ Owned
  BY DEF Init, SvrInv, Owned
<1> QED BY <1>1, <1>3, <1>4, <1>5 DEF SerialInv

LEMMA RebootInv ==
  ASSUME SerialInv, Reboot
  PROVE  SerialInv'
<1>1. TypeInv' /\ file \in Files
  BY RebootType DEF SerialInv, TypeInv, DataOK
<1>2. \A q \in Proc : pc'[q] \in {"idle", "sync"} /\ (pc'[q] # "idle" => q = Boot)
  BY <1>1, StartInv DEF Reboot
<1>3. NoDoubleClose' /\ Disjoint'
  BY <1>2 DEF NoDoubleClose, Disjoint, Touches, Busy
<1>4. \A q \in Proc : ProcInv(q)'
  BY <1>2
  DEF ProcInv, Registered, HalfClosed, SyncLoops
<1>5. (\A x \in Rid : SvrInv(x)') /\ Owned'
  BY DEF Reboot, SvrInv, Owned
<1> QED BY <1>1, <1>3, <1>4, <1>5 DEF SerialInv

LEMMA StutterInv ==
  ASSUME SerialInv, UNCHANGED vars \/ Kill
  PROVE  SerialInv'
<1>1. TypeInv'
  BY TypeStep DEF SerialInv, Next
<1>2. UNCHANGED <<rules, svrs, traffic, relay, bound, pc, ctx>>
  BY DEF vars, Kill, maps, heap
<1> QED BY <1>1, <1>2 DEF SerialInv, NoDoubleClose, Disjoint, Touches, Busy,
    ProcInv, Registered, HalfClosed, SyncLoops, SvrInv, Owned

LEMMA SerialStep ==
  ASSUME Serial, FreshAdds, AfterBoot
  PROVE  SerialInv /\ [Next]_vars => SerialInv'
<1> SUFFICES ASSUME SerialInv, [Next]_vars PROVE SerialInv'
  OBVIOUS
<1>1. ASSUME NEW h \in Handler, Accept(h) PROVE SerialInv'
  BY <1>1, AcceptInv
<1>2. ASSUME NEW p \in Proc, Step(p) \/ SyncStep(p) \/ DataStep(p) PROVE SerialInv'
  BY <1>2, StepInv, SyncStepInv, DataStepInv
<1>3. CASE DdnsStep
  BY <1>3, DdnsStepInv
<1>4. CASE Kill \/ UNCHANGED vars
  BY <1>4, StutterInv
<1>5. CASE Reboot
  BY <1>5, RebootInv
<1> QED BY <1>1, <1>2, <1>3, <1>4, <1>5 DEF Next

(* With a client that serialises its requests per rule, adds no rule that  *)
(* is being served and waits for start-up's import, no request, sync, ddns *)
(* round, kill or restart leaves a listener that no registered relay holds *)
(* (lib.go:37-55).                                                         *)
THEOREM NoOrphans ==
  ASSUME Serial, FreshAdds, AfterBoot
  PROVE  Spec => []NoOrphanListener
<1>1. SerialInv => NoOrphanListener
  BY DEF SerialInv, Owned, NoOrphanListener
<1>2. SerialInv /\ [Next]_vars => SerialInv'
  BY SerialStep
<1> QED BY <1>1, <1>2, InitInv, PTL DEF Spec

(* With the same client, no Close() closes a StopCh that is nil or closed  *)
(* already, which would panic (relay.go:108, relay.go:196).                *)
THEOREM NoDoubleCloses ==
  ASSUME Serial, FreshAdds, AfterBoot
  PROVE  Spec => []NoDoubleClose
<1>1. SerialInv => NoDoubleClose
  BY DEF SerialInv
<1>2. SerialInv /\ [Next]_vars => SerialInv'
  BY SerialStep
<1> QED BY <1>1, <1>2, InitInv, PTL DEF Spec

(* With the same client, a relay in Svrs has its rule in Rules and its     *)
(* counter in Traffic: no order of stop(), start(), sync() and ddns()      *)
(* tears the three maps apart (lib.go:25-55, action.go:147).               *)
THEOREM MapsAgree ==
  ASSUME Serial, FreshAdds, AfterBoot
  PROVE  Spec => []MapsInStep
<1>1. SerialInv => MapsInStep
  BY DEF SerialInv, SvrInv, MapsInStep, SvrHasRule, TrafficAttached
<1>2. SerialInv /\ [Next]_vars => SerialInv'
  BY SerialStep
<1> QED BY <1>1, <1>2, InitInv, PTL DEF Spec

=============================================================================

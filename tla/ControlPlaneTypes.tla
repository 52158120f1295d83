------------------------- MODULE ControlPlaneTypes --------------------------
(***************************************************************************)
(* Type correctness of the rule registry, for any number of rules,         *)
(* handlers, relays, addresses and requests, any API client, and with      *)
(* kills and restarts at any point.  TypeOK is not inductive: a step reads *)
(* locals that earlier steps have set, so TypeInv says at which label      *)
(* which locals are set (HasLocals).  The last section proves, for any     *)
(* client too, that the flag `syncing' always has a holder.                *)
(***************************************************************************)
EXTENDS ControlPlane, TLAPS

(* What the goroutines are doing with the rule ctx[p].rid: its relay is    *)
(* being closed, or served; or no relay of the rule is registered.         *)
Closing == {"closeStopCh", "closeTcp", "closeUdp", "svrsRemove"}
Serving == {"serve", "listenTcp", "listenUdp"}
Starting == {"getTF", "setTF", "svrsSet"}
Clear == {"rulesSet", "rulesRemove", "trafficRemove", "syncResolve"} \cup Starting
SyncOnly == {"sync", "syncClaim", "syncItems", "syncStops", "syncStarts",
             "syncResolve", "syncMarshal", "syncTruncate", "syncWrite"}
OnRule == {"stop", "restart"} \cup Closing \cup Serving \cup Clear

(* What a goroutine at label l has in its locals c, and which request it   *)
(* can be carrying out there                                               *)
HasLocals(l, c) ==
  /\ c.op \in {"add", "edit", "del", "restart"} => c.rid \in Rid /\ c.rule \in Rule
  /\ l \in OnRule => c.rid \in Rid /\ c.op \notin {"none", "data"}
  /\ l \in {"rulesSet", "syncResolve"} \cup Starting => c.rule \in Rule
  /\ l \in Closing \cup Serving => c.svr \in Obj
  /\ l \in {"stop", "svrsRemove"} => c.op \in {"edit", "del", "sync"}
  /\ l \in Closing => c.op \in {"edit", "del", "sync", "restart"}
  /\ l = "restart" => c.op = "restart"
  /\ l = "rulesSet" => c.op = "edit"
  /\ l \in {"rulesRemove", "trafficRemove"} => c.op \in {"del", "sync"}
  /\ l \in SyncOnly => c.op = "sync"
  /\ l = "data" => c.op = "data"

LocalsOK == /\ pc \in [Proc -> Labels]
            /\ ctx \in [Proc -> Locals]
            /\ \A p \in Proc : HasLocals(pc[p], ctx[p])

DdnsOK == /\ ddns \in Ddns
          /\ ddns.pc \in {"svr", "set"} => ddns.rid \in Rid /\ ddns.rule \in Rule

DataOK ==
  /\ rules \in RuleMap
  /\ svrs \in [Rid -> Obj \cup {None}]
  /\ traffic \in [Rid -> Tf \cup {None}]
  /\ relay \in [Obj -> Relay]
  /\ bound \subseteq Obj \X Net
  /\ syncing \in BOOLEAN /\ up \in BOOLEAN
  /\ file \in Files
  /\ nreq \in Nat /\ nboot \in Nat

TypeInv == DataOK /\ LocalsOK /\ DdnsOK

(* The sets of labels are expanded throughout. *)
USE DEF OnRule, Closing, Serving, Clear, Starting, SyncOnly

-----------------------------------------------------------------------------
(* Types *)

LEMMA NoRulesType == NoRules \in RuleMap /\ \A rid \in Rid : NoRules[rid] = None
  BY DEF NoRules, RuleMap

LEMMA RequestType ==
  ASSUME NEW op \in Op, NEW rid \in Rid \cup {None}, NEW rule \in Rule \cup {None},
         NEW new \in RuleMap
  PROVE  Request(op, rid, rule, new) \in Locals
  BY NoRulesType DEF Request, Locals

LEMMA NoRequestType == NoRequest \in Locals
  BY RequestType, NoRulesType DEF NoRequest, Op

LEMMA ContentsType == ASSUME NEW f \in Files PROVE Contents(f) \in RuleMap
  BY NoRulesType, ConstantsAssumption DEF Contents, Files

LEMMA BootType ==
  ASSUME NEW f \in Files
  PROVE  /\ BootPc(f) \in [Proc -> Labels]
         /\ BootCtx(f) \in [Proc -> Locals]
         /\ BootDdns(f) \in Ddns
<1>1. BootPc(f) \in [Proc -> Labels]
  BY DEF BootPc, Labels
<1>2. Request("sync", None, None, Contents(f)) \in Locals
  BY ContentsType, RequestType DEF Op
<1>3. BootCtx(f) \in [Proc -> Locals]
  BY <1>2, NoRequestType DEF BootCtx
<1>4. BootDdns(f) \in Ddns
  BY NoRulesType DEF BootDdns, DdnsAt, Ddns
<1> QED BY <1>1, <1>3, <1>4

LEMMA ParsedType == Parsed \subseteq Rule
<1> SUFFICES ASSUME NEW r \in RuleInput, NEW ip \in IP
             PROVE  [r EXCEPT !.rip = ip] \in Rule
  BY DEF Parsed
<1>1. r \in Rule
  BY ConstantsAssumption
<1> QED BY <1>1 DEF Rule

LEMMA UnusedRelayType == UnusedRelay \in Relay
  BY DEF UnusedRelay, Relay, Type, Net

(* A record keeps its type when a field is given a value of its type. *)
LEMMA LocalsUpdate ==
  ASSUME NEW c \in Locals
  PROVE  /\ \A o \in Obj \cup {None} : [c EXCEPT !.svr = o] \in Locals
         /\ \A t \in Tf \cup {None} : [c EXCEPT !.tf = t] \in Locals
         /\ \A r \in Rid \cup {None} : [c EXCEPT !.rid = r] \in Locals
         /\ \A r \in Rule \cup {None} : [c EXCEPT !.rule = r] \in Locals
         /\ \A m \in RuleMap : [c EXCEPT !.items = m] \in Locals
         /\ \A m \in RuleMap : [c EXCEPT !.new = m] \in Locals
  BY DEF Locals

(* A step that moves one goroutine *)
LEMMA Moves ==
  ASSUME LocalsOK, NEW p \in Proc, NEW l \in Labels, NEW c \in Locals,
         HasLocals(l, c), pc' = [pc EXCEPT ![p] = l], ctx' = [ctx EXCEPT ![p] = c]
  PROVE  LocalsOK'
<1>1. pc' \in [Proc -> Labels] /\ ctx' \in [Proc -> Locals]
  BY DEF LocalsOK
<1>2. ASSUME NEW q \in Proc PROVE HasLocals(pc[q], ctx[q])'
  <2>1. CASE q = p
    <3>1. pc'[q] = l /\ ctx'[q] = c
      BY <2>1 DEF LocalsOK
    <3> QED BY <3>1 DEF HasLocals
  <2>2. CASE q # p
    <3>1. pc'[q] = pc[q] /\ ctx'[q] = ctx[q]
      BY <2>2 DEF LocalsOK
    <3> QED BY <3>1 DEF LocalsOK, HasLocals
  <2> QED BY <2>1, <2>2
<1> QED BY <1>1, <1>2 DEF LocalsOK

(* ... and leaves its locals alone *)
LEMMA Goes ==
  ASSUME LocalsOK, NEW p \in Proc, NEW l \in Labels,
         HasLocals(l, ctx[p]), pc' = [pc EXCEPT ![p] = l], UNCHANGED ctx
  PROVE  LocalsOK'
<1>1. ctx' = [ctx EXCEPT ![p] = ctx[p]] /\ ctx[p] \in Locals
  BY DEF LocalsOK
<1> QED BY <1>1, Moves

(* The goroutine has nothing left to do. *)
LEMMA Ends ==
  ASSUME LocalsOK, NEW p \in Proc, pc' = [pc EXCEPT ![p] = "idle"],
         ctx' = [ctx EXCEPT ![p] = NoRequest]
  PROVE  LocalsOK'
<1>1. HasLocals("idle", NoRequest)
  BY DEF HasLocals, NoRequest, Request
<1>2. "idle" \in Labels
  BY DEF Labels
<1> QED BY <1>1, <1>2, NoRequestType, Moves

LEMMA StartReturnsType ==
  ASSUME LocalsOK, NEW p \in Proc, StartReturns(p)
  PROVE  LocalsOK'
<1>1. CASE ctx[p].op # "sync"
  BY <1>1, Ends DEF StartReturns, Goto
<1>2. CASE ctx[p].op = "sync"
  <2> DEFINE c == [ctx[p] EXCEPT !.rid = None, !.rule = None, !.svr = None, !.tf = None]
  <2>1. c \in Locals /\ c.op = "sync"
    BY <1>2 DEF LocalsOK, Locals
  <2>2. HasLocals("syncStarts", c) /\ "syncStarts" \in Labels
    BY <2>1 DEF HasLocals, Labels
  <2>3. pc' = [pc EXCEPT ![p] = "syncStarts"] /\ ctx' = [ctx EXCEPT ![p] = c]
    BY <1>2 DEF StartReturns, Goto
  <2> QED BY <2>1, <2>2, <2>3, Moves
<1> QED BY <1>1, <1>2

-----------------------------------------------------------------------------
(* Types: the requests *)

LEMMA BeginType ==
  ASSUME LocalsOK, nreq \in Nat, NEW h \in Handler, NEW l \in Labels,
         NEW c \in Locals, HasLocals(l, c), Begin(h, l, c)
  PROVE  LocalsOK' /\ nreq' \in Nat
<1>1. h \in Proc
  BY DEF Proc
<1>2. pc' = [pc EXCEPT ![h] = l] /\ ctx' = [ctx EXCEPT ![h] = c] /\ nreq' = nreq + 1
  BY DEF Begin, Goto
<1>3. LocalsOK'
  BY <1>1, <1>2, Moves
<1> QED BY <1>2, <1>3

LEMMA AcceptType ==
  ASSUME TypeInv, NEW h \in Handler, Accept(h)
  PROVE  TypeInv'
<1> USE DEF TypeInv
<1>1. CASE PostAdd(h)
  <2> PICK rid \in Rid, r \in Parsed :
         /\ Begin(h, "getTF", Request("add", rid, r, NoRules))
         /\ rules' = [rules EXCEPT ![rid] = r]
         /\ UNCHANGED <<svrs, traffic, heap, syncing, file, other>>
    BY <1>1 DEF PostAdd
  <2> DEFINE c == Request("add", rid, r, NoRules)
  <2>1. r \in Rule
    BY ParsedType
  <2>2. c \in Locals
    BY <2>1, RequestType, NoRulesType DEF Op
  <2>3. HasLocals("getTF", c) /\ "getTF" \in Labels
    BY <2>1
    DEF Request, HasLocals, Labels, Op
  <2>4. LocalsOK' /\ nreq' \in Nat
    BY <2>2, <2>3, BeginType DEF DataOK
  <2>5. rules' \in RuleMap
    BY <2>1 DEF DataOK, RuleMap
  <2> QED BY <2>4, <2>5 DEF DataOK, DdnsOK, heap, other
<1>2. CASE PostEdit(h)
  <2> PICK rid \in Rid, r \in Parsed :
         /\ Begin(h, "stop", Request("edit", rid, r, NoRules))
         /\ UNCHANGED <<maps, heap, syncing, file, other>>
    BY <1>2 DEF PostEdit
  <2> DEFINE c == Request("edit", rid, r, NoRules)
  <2>1. r \in Rule
    BY ParsedType
  <2>2. c \in Locals
    BY <2>1, RequestType, NoRulesType DEF Op
  <2>3. HasLocals("stop", c) /\ "stop" \in Labels
    BY <2>1
    DEF Request, HasLocals, Labels, Op
  <2>4. LocalsOK' /\ nreq' \in Nat
    BY <2>2, <2>3, BeginType DEF DataOK
  <2> QED BY <2>4 DEF DataOK, DdnsOK, maps, heap, other
<1>3. CASE PostDel(h)
  <2> PICK rid \in Rid :
         /\ rules[rid] # None
         /\ Begin(h, "stop", Request("del", rid, rules[rid], NoRules))
         /\ UNCHANGED <<maps, heap, syncing, file, other>>
    BY <1>3 DEF PostDel
  <2> DEFINE c == Request("del", rid, rules[rid], NoRules)
  <2>1. rules[rid] \in Rule
    BY DEF DataOK, RuleMap
  <2>2. c \in Locals
    BY <2>1, RequestType, NoRulesType DEF Op
  <2>3. HasLocals("stop", c) /\ "stop" \in Labels
    BY <2>1
    DEF Request, HasLocals, Labels, Op
  <2>4. LocalsOK' /\ nreq' \in Nat
    BY <2>2, <2>3, BeginType DEF DataOK
  <2> QED BY <2>4 DEF DataOK, DdnsOK, maps, heap, other
<1>4. CASE PostRestart(h)
  <2> PICK rid \in Rid :
         /\ rules[rid] # None
         /\ Begin(h, "restart", Request("restart", rid, rules[rid], NoRules))
         /\ UNCHANGED <<maps, heap, syncing, file, other>>
    BY <1>4 DEF PostRestart
  <2> DEFINE c == Request("restart", rid, rules[rid], NoRules)
  <2>1. rules[rid] \in Rule
    BY DEF DataOK, RuleMap
  <2>2. c \in Locals
    BY <2>1, RequestType, NoRulesType DEF Op
  <2>3. HasLocals("restart", c) /\ "restart" \in Labels
    BY <2>1
    DEF Request, HasLocals, Labels, Op
  <2>4. LocalsOK' /\ nreq' \in Nat
    BY <2>2, <2>3, BeginType DEF DataOK
  <2> QED BY <2>4 DEF DataOK, DdnsOK, maps, heap, other
<1>5. CASE PostSync(h)
  <2> PICK new \in SyncInput :
         /\ Begin(h, "sync", Request("sync", None, None, new))
         /\ UNCHANGED <<maps, heap, syncing, file, other>>
    BY <1>5 DEF PostSync
  <2> DEFINE c == Request("sync", None, None, new)
  <2>1. c \in Locals
    BY ConstantsAssumption, RequestType DEF Op
  <2>2. HasLocals("sync", c) /\ "sync" \in Labels
    BY DEF Request, HasLocals, Labels, Op
  <2>3. LocalsOK' /\ nreq' \in Nat
    BY <2>1, <2>2, BeginType DEF DataOK
  <2> QED BY <2>3 DEF DataOK, DdnsOK, maps, heap, other
<1>6. CASE GetData(h)
  <2> DEFINE c == [Request("data", None, None, NoRules) EXCEPT !.items = rules]
  <2>1. c \in Locals
    BY RequestType, NoRulesType, LocalsUpdate DEF Op, DataOK
  <2>2. HasLocals("data", c) /\ "data" \in Labels
    BY DEF Request, HasLocals, Labels, Op
  <2>3. LocalsOK' /\ nreq' \in Nat
    BY <1>6, <2>1, <2>2, BeginType DEF GetData, DataOK
  <2> QED BY <1>6, <2>3 DEF GetData, DataOK, DdnsOK, maps, heap, other
<1> QED BY <1>1, <1>2, <1>3, <1>4, <1>5, <1>6 DEF Accept

-----------------------------------------------------------------------------
(* Types: stop() and start() *)

LEMMA RuleMapUpdate ==
  ASSUME NEW m \in RuleMap, NEW rid \in Rid, NEW r \in Rule \cup {None}
  PROVE  [m EXCEPT ![rid] = r] \in RuleMap
  BY DEF RuleMap

LEMMA RelayUpdate ==
  ASSUME NEW r \in Relay
  PROVE  /\ \A x \in {"nil", "open", "closed"} : [r EXCEPT !.stop = x] \in Relay
         /\ \A S \in SUBSET Net : [r EXCEPT !.lsn = S] \in Relay
         /\ \A ip \in IP \cup {None} : [r EXCEPT !.raddr = ip] \in Relay
  BY DEF Relay

LEMMA NewRelayType ==
  ASSUME TypeInv, NEW p \in Proc, pc[p] = "svrsSet"
  PROVE  NewRelay(p) \in Relay
<1>1. ctx[p] \in Locals /\ ctx[p].rid \in Rid /\ ctx[p].rule \in Rule
  BY DEF TypeInv, LocalsOK, HasLocals, Labels, Op
<1> QED BY <1>1 DEF NewRelay, Relay, Rule, Locals, Net

LEMMA DispatchType ==
  ASSUME LocalsOK, NEW p \in Proc, pc[p] = "serve", Dispatch(p)
  PROVE  LocalsOK'
<1>1. HasLocals("listenTcp", ctx[p]) /\ HasLocals("listenUdp", ctx[p])
  BY DEF LocalsOK, HasLocals, Labels, Op
<1>2. {"listenTcp", "listenUdp"} \subseteq Labels
  BY DEF Labels
<1>3. CASE StartReturns(p)
  BY <1>3, StartReturnsType
<1>4. CASE Goto(p, "listenTcp") /\ UNCHANGED ctx
  BY <1>1, <1>2, <1>4, Goes DEF Goto
<1>5. CASE Goto(p, "listenUdp") /\ UNCHANGED ctx
  BY <1>1, <1>2, <1>5, Goes DEF Goto
<1> QED BY <1>3, <1>4, <1>5 DEF Dispatch

LEMMA ListensType ==
  ASSUME DataOK, NEW o \in Obj, NEW net \in Net, Listens(o, net) \/ ListenFails(o, net)
  PROVE  relay' \in [Obj -> Relay] /\ bound' \subseteq Obj \X Net
<1>1. relay[o] \in Relay /\ relay[o].lsn \subseteq Net
  BY DEF DataOK, Relay
<1>2. CASE Listens(o, net)
  <2>1. [relay[o] EXCEPT !.lsn = @ \cup {net}] \in Relay
    BY <1>1, RelayUpdate
  <2> QED BY <1>2, <2>1 DEF Listens, DataOK
<1>3. CASE ListenFails(o, net)
  <2>1. [relay[o] EXCEPT !.lsn = @ \ {net}] \in Relay
    BY <1>1, RelayUpdate
  <2> QED BY <1>3, <2>1 DEF ListenFails, DataOK
<1> QED BY <1>2, <1>3

LEMMA StepType ==
  ASSUME TypeInv, NEW p \in Proc, Step(p)
  PROVE  TypeInv'
<1> USE DEF TypeInv
<1>0. LocalsOK /\ ctx[p] \in Locals /\ HasLocals(pc[p], ctx[p])
  BY DEF LocalsOK
<1>1. CASE StopLookup(p)
  <2> DEFINE o == svrs[ctx[p].rid]
             c == [ctx[p] EXCEPT !.svr = o]
  <2>1. o \in Obj \cup {None}
    BY <1>0, <1>1 DEF StopLookup, At, DataOK, HasLocals
  <2>2. LocalsOK'
    <3>1. CASE o = None
      <4>1. HasLocals(AfterStop(ctx[p].op), ctx[p]) /\ AfterStop(ctx[p].op) \in Labels
        BY <1>0, <1>1
        DEF StopLookup, At, AfterStop, HasLocals, Labels, Op
      <4> QED BY <1>0, <1>1, <3>1, <4>1, Goes DEF StopLookup, Goto
    <3>2. CASE o # None
      <4>1. c \in Locals
        BY <1>0, <2>1, LocalsUpdate
      <4>2. HasLocals("closeStopCh", c) /\ "closeStopCh" \in Labels
        BY <1>0, <1>1, <2>1, <3>2, <4>1
        DEF StopLookup, At, Locals, HasLocals, Labels, Op
      <4> QED BY <1>0, <1>1, <3>2, <4>1, <4>2, Moves DEF StopLookup, Goto
    <3> QED BY <3>1, <3>2
  <2> QED BY <1>1, <2>2 DEF StopLookup, DataOK, DdnsOK, maps, heap, other
<1>2. CASE RestartLookup(p)
  <2> DEFINE o == svrs[ctx[p].rid]
             c == [ctx[p] EXCEPT !.svr = o]
  <2>1. o \in Obj \cup {None}
    BY <1>0, <1>2 DEF RestartLookup, At, DataOK, HasLocals
  <2>2. LocalsOK'
    <3>1. CASE o = None
      <4>1. HasLocals("getTF", ctx[p]) /\ "getTF" \in Labels
        BY <1>0, <1>2
        DEF RestartLookup, At, HasLocals, Labels, Op
      <4> QED BY <1>0, <1>2, <3>1, <4>1, Goes DEF RestartLookup, Goto
    <3>2. CASE o # None
      <4>1. c \in Locals
        BY <1>0, <2>1, LocalsUpdate
      <4>2. HasLocals("closeStopCh", c) /\ "closeStopCh" \in Labels
        BY <1>0, <1>2, <2>1, <3>2, <4>1
        DEF RestartLookup, At, Locals, HasLocals, Labels, Op
      <4> QED BY <1>0, <1>2, <3>2, <4>1, <4>2, Moves DEF RestartLookup, Goto
    <3> QED BY <3>1, <3>2
  <2> QED BY <1>2, <2>2 DEF RestartLookup, DataOK, DdnsOK, maps, heap, other
<1>3. CASE CloseStopCh(p)
  <2>0. Svr(p) \in Obj
    BY <1>0, <1>3 DEF CloseStopCh, At, Svr, HasLocals
  <2>r. [relay[Svr(p)] EXCEPT !.stop = "closed"] \in Relay
    BY <2>0, RelayUpdate DEF DataOK
  <2>1. HasLocals("closeTcp", ctx[p])
    BY <1>0, <1>3
    DEF CloseStopCh, At, HasLocals, Labels, Op
  <2>2. {"closeTcp"} \subseteq Labels
    BY DEF Labels
  <2>3. LocalsOK'
    BY <1>0, <1>3, <2>1, <2>2, Goes DEF CloseStopCh, Goto, other
  <2>4. relay' \in [Obj -> Relay]
    BY <1>0, <1>3, <2>0, <2>r DEF CloseStopCh, DataOK
  <2> QED BY <1>3, <2>3, <2>4 DEF CloseStopCh, DataOK, DdnsOK, maps, heap, other
<1>4. CASE ClosePanics(p)
  <2>1. HasLocals("panicked", ctx[p])
    BY <1>0, <1>4
    DEF ClosePanics, At, HasLocals, Labels, Op
  <2>2. {"panicked"} \subseteq Labels
    BY DEF Labels
  <2>3. LocalsOK'
    BY <1>0, <1>4, <2>1, <2>2, Goes DEF ClosePanics, Goto, other
  <2>4. up' \in BOOLEAN
    BY <1>0, <1>4 DEF ClosePanics, DataOK
  <2> QED BY <1>4, <2>3, <2>4 DEF ClosePanics, DataOK, DdnsOK, maps, heap, other
<1>5. CASE CloseTCPListen(p)
  <2>1. HasLocals("closeUdp", ctx[p])
    BY <1>0, <1>5
    DEF CloseTCPListen, At, HasLocals, Labels, Op
  <2>2. {"closeUdp"} \subseteq Labels
    BY DEF Labels
  <2>3. LocalsOK'
    BY <1>0, <1>5, <2>1, <2>2, Goes DEF CloseTCPListen, Goto, other
  <2>4. bound' \subseteq Obj \X Net
    BY <1>0, <1>5 DEF CloseTCPListen, DataOK, Closed
  <2> QED BY <1>5, <2>3, <2>4 DEF CloseTCPListen, DataOK, DdnsOK, maps, heap, other
<1>6. CASE CloseUDPConn(p)
  <2> DEFINE l == IF ctx[p].op = "restart" THEN "serve" ELSE "svrsRemove"
  <2>1. HasLocals(l, ctx[p]) /\ l \in Labels
    BY <1>0, <1>6
    DEF CloseUDPConn, At, HasLocals, Labels, Op
  <2>2. LocalsOK'
    BY <1>0, <1>6, <2>1, Goes DEF CloseUDPConn, Goto
  <2>3. bound' \subseteq Obj \X Net
    BY <1>6 DEF CloseUDPConn, Closed, DataOK
  <2> QED BY <1>6, <2>2, <2>3 DEF CloseUDPConn, DataOK, DdnsOK, maps, heap, other
<1>7. CASE SvrsRemove(p)
  <2> DEFINE c == [ctx[p] EXCEPT !.svr = None]
             l == AfterStop(ctx[p].op)
  <2>1. c \in Locals
    BY <1>0, LocalsUpdate
  <2>2. HasLocals(l, c) /\ l \in Labels
    BY <1>0, <1>7
    DEF SvrsRemove, At, Locals, AfterStop, HasLocals, Labels, Op
  <2>3. LocalsOK'
    BY <1>0, <1>7, <2>1, <2>2, Moves DEF SvrsRemove, Goto
  <2>4. svrs' \in [Rid -> Obj \cup {None}]
    BY <1>7 DEF SvrsRemove, DataOK
  <2> QED BY <1>7, <2>3, <2>4 DEF SvrsRemove, DataOK, DdnsOK, heap, other
<1>8. CASE EditRulesSet(p)
  <2>1. HasLocals("getTF", ctx[p])
    BY <1>0, <1>8
    DEF EditRulesSet, At, HasLocals, Labels, Op
  <2>2. {"getTF"} \subseteq Labels
    BY DEF Labels
  <2>3. LocalsOK'
    BY <1>0, <1>8, <2>1, <2>2, Goes DEF EditRulesSet, Goto, other
  <2>4. rules' \in RuleMap
    BY <1>0, <1>8, RuleMapUpdate DEF EditRulesSet, DataOK, At, HasLocals
  <2> QED BY <1>8, <2>3, <2>4 DEF EditRulesSet, DataOK, DdnsOK, maps, heap, other
<1>9. CASE RulesRemove(p)
  <2>1. HasLocals("trafficRemove", ctx[p])
    BY <1>0, <1>9
    DEF RulesRemove, At, HasLocals, Labels, Op
  <2>2. {"trafficRemove"} \subseteq Labels
    BY DEF Labels
  <2>3. LocalsOK'
    BY <1>0, <1>9, <2>1, <2>2, Goes DEF RulesRemove, Goto, other
  <2>4. rules' \in RuleMap
    BY <1>0, <1>9, RuleMapUpdate DEF RulesRemove, DataOK, At, HasLocals
  <2> QED BY <1>9, <2>3, <2>4 DEF RulesRemove, DataOK, DdnsOK, maps, heap, other
<1>10. CASE TrafficRemove(p)
  <2> DEFINE c == [ctx[p] EXCEPT !.rid = None]
  <2>1. c \in Locals
    BY <1>0, LocalsUpdate
  <2>2. LocalsOK'
    <3>1. CASE ctx[p].op = "sync"
      <4>1. HasLocals("syncStops", c) /\ "syncStops" \in Labels
        BY <1>0, <3>1
        DEF Locals, HasLocals, Labels, Op
      <4> QED BY <1>0, <1>10, <2>1, <3>1, <4>1, Moves DEF TrafficRemove, Goto
    <3>2. CASE ctx[p].op # "sync"
      BY <1>0, <1>10, <3>2, Ends DEF TrafficRemove, Goto
    <3> QED BY <3>1, <3>2
  <2>3. traffic' \in [Rid -> Tf \cup {None}]
    BY <1>10 DEF TrafficRemove, DataOK
  <2> QED BY <1>10, <2>2, <2>3 DEF TrafficRemove, DataOK, DdnsOK, heap, other
<1>11. CASE GetTF(p)
  <2> DEFINE tf == traffic[ctx[p].rid]
             c == [ctx[p] EXCEPT !.tf = tf]
  <2>1. tf \in Tf \cup {None}
    BY <1>0, <1>11 DEF GetTF, At, DataOK, HasLocals
  <2>2. LocalsOK'
    <3>1. CASE tf = None
      <4>1. HasLocals("setTF", ctx[p]) /\ "setTF" \in Labels
        BY <1>0, <1>11
        DEF GetTF, At, HasLocals, Labels, Op
      <4> QED BY <1>0, <1>11, <3>1, <4>1, Goes DEF GetTF, Goto
    <3>2. CASE tf # None
      <4>1. c \in Locals
        BY <1>0, <2>1, LocalsUpdate
      <4>2. HasLocals("svrsSet", c) /\ "svrsSet" \in Labels
        BY <1>0, <1>11, <4>1
        DEF GetTF, At, Locals, HasLocals, Labels, Op
      <4> QED BY <1>0, <1>11, <3>2, <4>1, <4>2, Moves DEF GetTF, Goto
    <3> QED BY <3>1, <3>2
  <2> QED BY <1>11, <2>2 DEF GetTF, DataOK, DdnsOK, maps, heap, other
<1>12. CASE SetTF(p)
  <2> PICK tf \in Tf : /\ traffic' = [traffic EXCEPT ![ctx[p].rid] = tf]
                       /\ ctx' = [ctx EXCEPT ![p].tf = tf]
    BY <1>12 DEF SetTF
  <2> DEFINE c == [ctx[p] EXCEPT !.tf = tf]
  <2>1. c \in Locals
    BY <1>0, LocalsUpdate
  <2>2. HasLocals("svrsSet", c) /\ "svrsSet" \in Labels
    BY <1>0, <1>12, <2>1
    DEF SetTF, At, Locals, HasLocals, Labels, Op
  <2>3. LocalsOK'
    BY <1>0, <1>12, <2>1, <2>2, Moves DEF SetTF, Goto
  <2>4. traffic' \in [Rid -> Tf \cup {None}]
    BY DEF DataOK
  <2> QED BY <1>12, <2>3, <2>4 DEF SetTF, DataOK, DdnsOK, heap, other
<1>13. CASE SvrsSet(p)
  <2> PICK o \in Obj : /\ relay' = [relay EXCEPT ![o] = NewRelay(p)]
                       /\ svrs' = [svrs EXCEPT ![ctx[p].rid] = o]
                       /\ ctx' = [ctx EXCEPT ![p].svr = o]
    BY <1>13 DEF SvrsSet
  <2> DEFINE c == [ctx[p] EXCEPT !.svr = o]
  <2>1. c \in Locals
    BY <1>0, LocalsUpdate
  <2>2. HasLocals("serve", c) /\ "serve" \in Labels
    BY <1>0, <1>13, <2>1
    DEF SvrsSet, At, Locals, HasLocals, Labels, Op
  <2>3. LocalsOK'
    BY <1>0, <1>13, <2>1, <2>2, Moves DEF SvrsSet, Goto
  <2>4. NewRelay(p) \in Relay
    BY <1>13, NewRelayType DEF SvrsSet, At
  <2>5. relay' \in [Obj -> Relay] /\ svrs' \in [Rid -> Obj \cup {None}]
    BY <2>4 DEF DataOK
  <2> QED BY <1>13, <2>3, <2>5 DEF SvrsSet, DataOK, DdnsOK, heap, other
<1>14. CASE StartFails(p)
  <2>1. LocalsOK'
    BY <1>0, <1>14, StartReturnsType DEF StartFails
  <2> QED BY <1>14, <2>1 DEF StartFails, DataOK, DdnsOK, maps, heap, other
<1>15. CASE Serve(p)
  <2>1. LocalsOK'
    BY <1>0, <1>15, DispatchType DEF Serve, At
  <2>2. Svr(p) \in Obj
    BY <1>0, <1>15 DEF Serve, At, Svr, HasLocals
  <2>3. [relay[Svr(p)] EXCEPT !.stop = "open"] \in Relay
    BY <2>2, RelayUpdate DEF DataOK
  <2>4. relay' \in [Obj -> Relay]
    BY <1>15, <2>2, <2>3 DEF Serve, DataOK
  <2> QED BY <1>15, <2>1, <2>4 DEF Serve, DataOK, DdnsOK, maps, heap, other
<1>16. CASE ListenTCP(p)
  <2>1. HasLocals("listenUdp", ctx[p]) /\ "listenUdp" \in Labels
    BY <1>0, <1>16
    DEF ListenTCP, At, HasLocals, Labels, Op
  <2>2. LocalsOK'
    <3>1. CASE Goto(p, "listenUdp") /\ UNCHANGED ctx
      BY <1>0, <2>1, <3>1, Goes DEF Goto
    <3>2. CASE StartReturns(p)
      BY <1>0, <3>2, StartReturnsType
    <3> QED BY <1>16, <3>1, <3>2 DEF ListenTCP
  <2>3. Svr(p) \in Obj /\ "tcp" \in Net
    BY <1>0, <1>16 DEF ListenTCP, At, Svr, HasLocals, Net
  <2>4. relay' \in [Obj -> Relay] /\ bound' \subseteq Obj \X Net
    BY <1>16, <2>3, ListensType DEF ListenTCP
  <2> QED BY <1>16, <2>2, <2>4 DEF ListenTCP, DataOK, DdnsOK, maps, other
<1>17. CASE ListenUDP(p)
  <2>1. LocalsOK'
    BY <1>0, <1>17, StartReturnsType DEF ListenUDP
  <2>2. Svr(p) \in Obj /\ "udp" \in Net
    BY <1>0, <1>17 DEF ListenUDP, At, Svr, HasLocals, Net
  <2>3. relay' \in [Obj -> Relay] /\ bound' \subseteq Obj \X Net
    BY <1>17, <2>2, ListensType DEF ListenUDP
  <2> QED BY <1>17, <2>1, <2>3 DEF ListenUDP, DataOK, DdnsOK, maps, other
<1> QED BY <1>1, <1>2, <1>3, <1>4, <1>5, <1>6, <1>7, <1>8, <1>9, <1>10, <1>11, <1>12,
           <1>13, <1>14, <1>15, <1>16, <1>17
        DEF Step

-----------------------------------------------------------------------------
(* Types: sync() and GET /data *)

LEMMA SyncReturnsType ==
  ASSUME LocalsOK, DdnsOK, NEW p \in Proc, SyncReturns(p)
  PROVE  LocalsOK' /\ DdnsOK'
<1>1. LocalsOK'
  BY Ends DEF SyncReturns, Goto
<1>2. DdnsAt("sleep") \in Ddns /\ DdnsAt("sleep").pc = "sleep"
  BY NoRulesType DEF DdnsAt, Ddns
<1>3. DdnsOK'
  BY <1>2 DEF SyncReturns, DdnsOK
<1> QED BY <1>1, <1>3

LEMMA SyncStepType ==
  ASSUME TypeInv, NEW p \in Proc, SyncStep(p)
  PROVE  TypeInv'
<1> USE DEF TypeInv
<1>0. LocalsOK /\ ctx[p] \in Locals /\ HasLocals(pc[p], ctx[p]) /\ ctx[p].new \in RuleMap
      /\ ctx[p].items \in RuleMap
  BY DEF LocalsOK, Locals
<1>1. CASE SyncEnter(p)
  <2>1. HasLocals("syncClaim", ctx[p]) /\ "syncClaim" \in Labels
    BY <1>0, <1>1
    DEF SyncEnter, At, HasLocals, Labels, Op
  <2>2. LocalsOK'
    BY <1>0, <1>1, <2>1, Goes DEF SyncEnter, Goto
  <2> QED BY <1>1, <2>2 DEF SyncEnter, DataOK, DdnsOK, maps, heap, other
<1>2. CASE SyncClaim(p)
  <2>1. HasLocals("syncItems", ctx[p]) /\ "syncItems" \in Labels
    BY <1>0, <1>2
    DEF SyncClaim, At, HasLocals, Labels, Op
  <2>2. LocalsOK'
    BY <1>0, <1>2, <2>1, Goes DEF SyncClaim, Goto
  <2> QED BY <1>2, <2>2 DEF SyncClaim, DataOK, DdnsOK, maps, heap, other
<1>3. CASE SyncItems(p)
  <2> DEFINE c == [ctx[p] EXCEPT !.items = rules]
  <2>1. c \in Locals
    BY <1>0, LocalsUpdate DEF DataOK
  <2>2. HasLocals("syncStops", c) /\ "syncStops" \in Labels
    BY <1>0, <1>3
    DEF SyncItems, At, Locals, HasLocals, Labels, Op
  <2>3. LocalsOK'
    BY <1>0, <1>3, <2>1, <2>2, Moves DEF SyncItems, Goto
  <2> QED BY <1>3, <2>3 DEF SyncItems, DataOK, DdnsOK, maps, heap, other
<1>4. CASE SyncStops(p)
  <2>1. LocalsOK'
    <3>1. ASSUME NEW rid \in Rid, SyncKeeps(p, rid) PROVE LocalsOK'
      <4> DEFINE c == [ctx[p] EXCEPT !.items[rid] = None, !.new[rid] = None]
      <4>1. /\ [ctx[p].items EXCEPT ![rid] = None] \in RuleMap
            /\ [ctx[p].new EXCEPT ![rid] = None] \in RuleMap
        BY <1>0, RuleMapUpdate
      <4>2. c \in Locals /\ c.op = "sync"
        BY <1>0, <1>4, <4>1 DEF SyncStops, At, Locals, HasLocals
      <4>3. HasLocals("syncStops", c) /\ "syncStops" \in Labels
        BY <4>2
        DEF HasLocals, Labels, Op
      <4>4. pc' = [pc EXCEPT ![p] = "syncStops"]
        BY <1>4, <3>1 DEF SyncStops, SyncKeeps, At, LocalsOK
      <4>5. ctx' = [ctx EXCEPT ![p] = c]
        BY <3>1 DEF SyncKeeps
      <4> HIDE DEF c
      <4> QED BY <1>0, <4>2, <4>3, <4>4, <4>5, Moves
    <3>2. ASSUME NEW rid \in Rid, SyncDrops(p, rid) PROVE LocalsOK'
      <4> DEFINE c == [ctx[p] EXCEPT !.items[rid] = None, !.rid = rid]
      <4>1. [ctx[p].items EXCEPT ![rid] = None] \in RuleMap
        BY <1>0, RuleMapUpdate
      <4>2. c \in Locals /\ c.op = "sync" /\ c.rid = rid
        BY <1>0, <1>4, <4>1 DEF SyncStops, At, Locals, HasLocals
      <4>3. HasLocals("stop", c) /\ "stop" \in Labels
        BY <4>2
        DEF HasLocals, Labels, Op
      <4>4. pc' = [pc EXCEPT ![p] = "stop"] /\ ctx' = [ctx EXCEPT ![p] = c]
        BY <3>2 DEF SyncDrops, Goto
      <4> HIDE DEF c
      <4> QED BY <1>0, <4>2, <4>3, <4>4, Moves
    <3>3. CASE Goto(p, "syncStarts") /\ UNCHANGED ctx
      <4>1. HasLocals("syncStarts", ctx[p]) /\ "syncStarts" \in Labels
        BY <1>0, <1>4
        DEF SyncStops, At, HasLocals, Labels, Op
      <4> QED BY <1>0, <3>3, <4>1, Goes DEF Goto
    <3> QED BY <1>4, <3>1, <3>2, <3>3 DEF SyncStops
  <2> QED BY <1>4, <2>1 DEF SyncStops, DataOK, DdnsOK, maps, heap, other
<1>5. CASE SyncPicks(p)
  <2> PICK rid \in Rid :
         /\ ctx[p].new[rid] # None
         /\ ctx' = [ctx EXCEPT ![p].new[rid] = None, ![p].rid = rid,
                               ![p].rule = ctx[p].new[rid]]
    BY <1>5 DEF SyncPicks
  <2> DEFINE c == [ctx[p] EXCEPT !.new[rid] = None, !.rid = rid, !.rule = ctx[p].new[rid]]
  <2>1. [ctx[p].new EXCEPT ![rid] = None] \in RuleMap /\ ctx[p].new[rid] \in Rule
    BY <1>0, RuleMapUpdate DEF RuleMap
  <2>2. c \in Locals /\ c.op = "sync" /\ c.rid = rid /\ c.rule \in Rule
    BY <1>0, <1>5, <2>1 DEF SyncPicks, At, Locals, HasLocals
  <2>3. HasLocals("syncResolve", c) /\ "syncResolve" \in Labels
    BY <2>2 DEF HasLocals, Labels, Op
  <2>4. pc' = [pc EXCEPT ![p] = "syncResolve"] /\ ctx' = [ctx EXCEPT ![p] = c]
    BY <1>5 DEF SyncPicks, Goto
  <2>5. LocalsOK'
    <3> HIDE DEF c
    <3> QED BY <1>0, <2>2, <2>3, <2>4, Moves
  <2> QED BY <1>5, <2>5 DEF SyncPicks, DataOK, DdnsOK, maps, heap, other
<1>6. CASE SyncResolves(p)
  <2>1. ctx[p].op = "sync" /\ ctx[p].rid \in Rid /\ ctx[p].rule \in Rule
    BY <1>0, <1>6 DEF SyncResolves, At, HasLocals
  <2> PICK ip \in IF ctx[p].rule.rip = None THEN IP ELSE {ctx[p].rule.rip} :
         /\ rules' = [rules EXCEPT ![ctx[p].rid] = [ctx[p].rule EXCEPT !.rip = ip]]
         /\ ctx' = [ctx EXCEPT ![p].rule = [ctx[p].rule EXCEPT !.rip = ip]]
    BY <1>6 DEF SyncResolves
  <2> DEFINE r == [ctx[p].rule EXCEPT !.rip = ip]
             c == [ctx[p] EXCEPT !.rule = r]
  <2>2. r \in Rule
    BY <2>1 DEF Rule
  <2>3. c \in Locals /\ c.op = "sync" /\ c.rid \in Rid /\ c.rule = r
    BY <1>0, <2>1, <2>2 DEF Locals
  <2>4. HasLocals("getTF", c) /\ "getTF" \in Labels
    BY <2>2, <2>3
    DEF HasLocals, Labels, Op
  <2>5. pc' = [pc EXCEPT ![p] = "getTF"] /\ ctx' = [ctx EXCEPT ![p] = c]
    BY <1>6 DEF SyncResolves, Goto
  <2>6. LocalsOK'
    <3> HIDE DEF c
    <3> QED BY <1>0, <2>3, <2>4, <2>5, Moves
  <2>7. rules' \in RuleMap
    BY <2>1, <2>2, RuleMapUpdate DEF DataOK
  <2> QED BY <1>6, <2>6, <2>7 DEF SyncResolves, DataOK, DdnsOK, maps, heap, other
<1>7. CASE SyncSkips(p)
  <2> DEFINE rid == ctx[p].rid
             c == [ctx[p] EXCEPT !.rid = None, !.rule = None, !.req[rid] = None]
  <2>0. ctx[p].op = "sync" /\ rid \in Rid /\ ctx[p].req \in RuleMap
    BY <1>0, <1>7 DEF SyncSkips, At, HasLocals, Locals
  <2>r. [ctx[p].req EXCEPT ![rid] = None] \in RuleMap
    BY <2>0, RuleMapUpdate
  <2>c. c \in Locals /\ c.op = "sync"
    BY <1>0, <2>0, <2>r DEF Locals
  <2>l. HasLocals("syncStarts", c) /\ "syncStarts" \in Labels
    BY <2>c DEF HasLocals, Labels
  <2>p. pc' = [pc EXCEPT ![p] = "syncStarts"] /\ ctx' = [ctx EXCEPT ![p] = c]
    BY <1>7 DEF SyncSkips, Goto
  <2>1. LocalsOK'
    <3> HIDE DEF c
    <3> QED BY <1>0, <2>c, <2>l, <2>p, Moves
  <2> QED BY <1>7, <2>1 DEF SyncSkips, DataOK, DdnsOK, maps, heap, other
<1>8. CASE SyncCancelled(p)
  <2>1. LocalsOK' /\ DdnsOK'
    BY <1>0, <1>8, SyncReturnsType DEF SyncCancelled
  <2> QED BY <1>8, <2>1 DEF SyncCancelled, DataOK, maps, heap
<1>9. CASE SyncFinishes(p)
  <2>1. HasLocals("syncMarshal", ctx[p]) /\ "syncMarshal" \in Labels
    BY <1>0, <1>9
    DEF SyncFinishes, At, HasLocals, Labels, Op
  <2>2. LocalsOK'
    BY <1>0, <1>9, <2>1, Goes DEF SyncFinishes, Goto
  <2> QED BY <1>9, <2>2 DEF SyncFinishes, DataOK, DdnsOK, maps, heap, other
<1>10. CASE SyncMarshals(p)
  <2> DEFINE c == [ctx[p] EXCEPT !.items = rules]
  <2>1. c \in Locals
    BY <1>0, LocalsUpdate DEF DataOK
  <2>2. HasLocals("syncTruncate", c) /\ "syncTruncate" \in Labels
    BY <1>0, <1>10
    DEF SyncMarshals, At, Locals, HasLocals, Labels, Op
  <2>3. LocalsOK'
    BY <1>0, <1>10, <2>1, <2>2, Moves DEF SyncMarshals, Goto
  <2> QED BY <1>10, <2>3 DEF SyncMarshals, DataOK, DdnsOK, maps, heap, other
<1>11. CASE SyncTruncates(p)
  <2>1. HasLocals("syncWrite", ctx[p]) /\ "syncWrite" \in Labels
    BY <1>0, <1>11
    DEF SyncTruncates, At, HasLocals, Labels, Op
  <2>2. LocalsOK'
    BY <1>0, <1>11, <2>1, Goes DEF SyncTruncates, Goto
  <2> QED BY <1>11, <2>2 DEF SyncTruncates, DataOK, DdnsOK, maps, heap, other, Files
<1>12. CASE SyncWrites(p)
  <2>1. LocalsOK' /\ DdnsOK'
    BY <1>0, <1>12, SyncReturnsType DEF SyncWrites
  <2>2. file' \in Files
    BY <1>0, <1>12 DEF SyncWrites, Files
  <2> QED BY <1>12, <2>1, <2>2 DEF SyncWrites, DataOK, maps, heap
<1>13. CASE WriteFails(p)
  <2>1. LocalsOK' /\ DdnsOK'
    BY <1>0, <1>13, SyncReturnsType DEF WriteFails
  <2> QED BY <1>13, <2>1 DEF WriteFails, DataOK, maps, heap
<1> QED BY <1>1, <1>2, <1>3, <1>4, <1>5, <1>6, <1>7, <1>8, <1>9, <1>10, <1>11, <1>12,
           <1>13
        DEF SyncStep

LEMMA DataStepType ==
  ASSUME TypeInv, NEW p \in Proc, DataStep(p)
  PROVE  TypeInv'
<1> USE DEF TypeInv
<1>1. CASE DataAnswers(p)
  <2>1. LocalsOK'
    BY <1>1, Ends DEF DataAnswers, Goto
  <2> QED BY <1>1, <2>1 DEF DataAnswers, DataOK, DdnsOK, maps, heap, other
<1>2. CASE DataPanics(p)
  <2>1. HasLocals("panicked", ctx[p]) /\ "panicked" \in Labels
    BY DEF LocalsOK, HasLocals, Labels, Op
  <2>2. LocalsOK'
    BY <1>2, <2>1, Goes DEF DataPanics, Goto
  <2> QED BY <1>2, <2>2 DEF DataPanics, DataOK, DdnsOK, maps, heap, other
<1> QED BY <1>1, <1>2 DEF DataStep

-----------------------------------------------------------------------------
(* Types: ddns(), the end of the process and its start *)

LEMMA DdnsStepType ==
  ASSUME TypeInv, DdnsStep
  PROVE  TypeInv'
<1> USE DEF TypeInv
<1>0. ddns \in Ddns /\ ddns.items \in RuleMap
  BY DEF DdnsOK, Ddns
<1>1. LocalsOK'
  BY DEF DdnsStep, DdnsWakes, DdnsLookup, DdnsSetsRaddr, DdnsPanics, DdnsSetsRule,
      DdnsSleeps, LocalsOK, HasLocals
<1>2. CASE DdnsWakes
  BY <1>0, <1>1, <1>2 DEF DdnsWakes, DataOK, DdnsOK, Ddns, maps, heap
<1>3. CASE DdnsLookup
  <2> PICK rid \in Rid :
         /\ ddns.items[rid] # None
         /\ \/ ddns' = [ddns EXCEPT !.items[rid] = None]
            \/ \E ip \in IP \ {ddns.items[rid].rip} :
                 ddns' = [pc |-> "svr", items |-> [ddns.items EXCEPT ![rid] = None],
                          rid |-> rid, rule |-> [ddns.items[rid] EXCEPT !.rip = ip]]
    BY <1>3 DEF DdnsLookup
  <2>1. [ddns.items EXCEPT ![rid] = None] \in RuleMap /\ ddns.items[rid] \in Rule
    BY <1>0, RuleMapUpdate DEF RuleMap
  <2>2. CASE ddns' = [ddns EXCEPT !.items[rid] = None]
    BY <1>0, <1>1, <1>3, <2>1, <2>2 DEF DdnsLookup, DataOK, DdnsOK, Ddns, maps, heap
  <2>3. ASSUME NEW ip \in IP,
               ddns' = [pc |-> "svr", items |-> [ddns.items EXCEPT ![rid] = None],
                        rid |-> rid, rule |-> [ddns.items[rid] EXCEPT !.rip = ip]]
        PROVE  TypeInv'
    <3>1. [ddns.items[rid] EXCEPT !.rip = ip] \in Rule
      BY <2>1 DEF Rule
    <3>2. ddns' \in Ddns /\ ddns'.rid \in Rid /\ ddns'.rule \in Rule
      BY <2>1, <2>3, <3>1 DEF Ddns
    <3> QED BY <1>1, <1>3, <3>2 DEF DdnsLookup, DataOK, DdnsOK, maps, heap
  <2> QED BY <2>2, <2>3
<1>4. CASE DdnsSetsRaddr
  <2>1. ddns.rid \in Rid /\ ddns.rule \in Rule /\ svrs[ddns.rid] \in Obj
    BY <1>4 DEF DdnsSetsRaddr, DdnsOK, DataOK
  <2>2. [relay[svrs[ddns.rid]] EXCEPT !.raddr = ddns.rule.rip] \in Relay
    BY <2>1, RelayUpdate DEF DataOK, Rule
  <2>3. relay' \in [Obj -> Relay]
    BY <1>4, <2>2 DEF DdnsSetsRaddr, DataOK
  <2>4. ddns' \in Ddns /\ ddns'.rid \in Rid /\ ddns'.rule \in Rule
    BY <1>0, <1>4, <2>1 DEF DdnsSetsRaddr, Ddns
  <2> QED BY <1>1, <1>4, <2>3, <2>4 DEF DdnsSetsRaddr, DataOK, DdnsOK, maps
<1>5. CASE DdnsPanics
  BY <1>1, <1>5 DEF DdnsPanics, DataOK, DdnsOK, maps, heap
<1>6. CASE DdnsSetsRule
  <2>1. rules' \in RuleMap
    BY <1>6, RuleMapUpdate DEF DdnsSetsRule, DdnsOK, DataOK
  <2>2. ddns' \in Ddns /\ ddns'.pc = "walk"
    BY <1>0, <1>6 DEF DdnsSetsRule, Ddns
  <2> QED BY <1>1, <1>6, <2>1, <2>2 DEF DdnsSetsRule, DataOK, DdnsOK, heap
<1>7. CASE DdnsSleeps
  BY <1>0, <1>1, <1>7 DEF DdnsSleeps, DataOK, DdnsOK, Ddns, maps, heap
<1> QED BY <1>2, <1>3, <1>4, <1>5, <1>6, <1>7 DEF DdnsStep

(* A process that starts, from whatever file it finds *)
LEMMA StartType ==
  ASSUME NEW f \in Files
  PROVE  /\ \A p \in Proc : HasLocals(BootPc(f)[p], BootCtx(f)[p])
         /\ BootDdns(f).pc \notin {"svr", "set"}
<1>1. HasLocals("idle", NoRequest)
  BY DEF NoRequest, Request, HasLocals, Labels, Op
<1>2. HasLocals("sync", Request("sync", None, None, Contents(f)))
  BY DEF Request, HasLocals, Labels, Op
<1>3. ASSUME NEW p \in Proc PROVE HasLocals(BootPc(f)[p], BootCtx(f)[p])
  <2>1. CASE p = Boot /\ f # Absent
    BY <1>2, <2>1 DEF BootPc, BootCtx
  <2>2. CASE ~(p = Boot /\ f # Absent)
    BY <1>1, <2>2 DEF BootPc, BootCtx
  <2> QED BY <2>1, <2>2
<1>4. BootDdns(f).pc \notin {"svr", "set"}
  BY DEF BootDdns, DdnsAt
<1> QED BY <1>3, <1>4

LEMMA InitType == Init => TypeInv
<1> SUFFICES ASSUME Init PROVE TypeInv
  OBVIOUS
<1>1. file \in Files
  BY ConstantsAssumption DEF Init
<1>2. DataOK
  BY <1>1, NoRulesType, UnusedRelayType DEF Init, DataOK
<1>3. LocalsOK /\ DdnsOK
  BY <1>1, BootType, StartType DEF Init, LocalsOK, DdnsOK
<1> QED BY <1>2, <1>3 DEF TypeInv

LEMMA RebootType ==
  ASSUME TypeInv, Reboot
  PROVE  TypeInv'
<1>1. file \in Files
  BY DEF TypeInv, DataOK
<1>2. DataOK'
  <2>1. rules' \in RuleMap
    BY NoRulesType DEF Reboot
  <2>2. relay' \in [Obj -> Relay]
    BY UnusedRelayType DEF Reboot
  <2>3. nreq' \in Nat /\ nboot' \in Nat /\ file' \in Files
    BY <1>1 DEF Reboot, TypeInv, DataOK
  <2> QED BY <2>1, <2>2, <2>3 DEF Reboot, DataOK
<1>3. pc' = BootPc(file) /\ ctx' = BootCtx(file) /\ ddns' = BootDdns(file)
  BY DEF Reboot
<1>4. LocalsOK'
  BY <1>1, <1>3, BootType, StartType DEF LocalsOK, HasLocals
<1>5. DdnsOK'
  BY <1>1, <1>3, BootType, StartType DEF DdnsOK
<1> QED BY <1>2, <1>4, <1>5 DEF TypeInv

LEMMA TypeStep == TypeInv /\ [Next]_vars => TypeInv'
<1> SUFFICES ASSUME TypeInv, [Next]_vars PROVE TypeInv'
  OBVIOUS
<1>1. ASSUME NEW h \in Handler, Accept(h) PROVE TypeInv'
  BY <1>1, AcceptType
<1>2. ASSUME NEW p \in Proc, Step(p) \/ SyncStep(p) \/ DataStep(p) PROVE TypeInv'
  BY <1>2, StepType, SyncStepType, DataStepType
<1>3. CASE DdnsStep
  BY <1>3, DdnsStepType
<1>4. CASE Kill
  BY <1>4 DEF Kill, TypeInv, DataOK, LocalsOK, HasLocals, DdnsOK, maps, heap
<1>5. CASE Reboot
  BY <1>5, RebootType
<1>6. CASE UNCHANGED vars
  BY <1>6 DEF vars, TypeInv, DataOK, LocalsOK, HasLocals, DdnsOK, maps, heap
<1> QED BY <1>1, <1>2, <1>3, <1>4, <1>5, <1>6 DEF Next

(* Whatever the client does, however requests, syncs and panics overlap,   *)
(* and whenever the process ends and starts again, every goroutine has the *)
(* locals its next step reads, and the registry holds rules, relays and    *)
(* counters of their types (lib.go, action.go).                            *)
THEOREM TypeCorrect == Spec => []TypeOK
<1>1. TypeInv => TypeOK
  BY DEF TypeInv, DataOK, LocalsOK, DdnsOK, TypeOK
<1> QED BY <1>1, InitType, TypeStep, PTL DEF Spec

-----------------------------------------------------------------------------
(* A step moves one goroutine. *)

LEMMA Moved ==
  ASSUME TypeInv, NEW p \in Proc, NEW l, Goto(p, l)
  PROVE  pc'[p] = l /\ \A q \in Proc \ {p} : pc'[q] = pc[q]
  BY DEF Goto, TypeInv, LocalsOK

LEMMA BeginStep ==
  ASSUME TypeInv, NEW h \in Handler, NEW l, NEW c, Begin(h, l, c)
  PROVE  /\ h \in Proc /\ pc[h] = "idle" /\ pc'[h] = l /\ ctx'[h] = c
         /\ \A q \in Proc \ {h} : pc'[q] = pc[q] /\ ctx'[q] = ctx[q]
<1>1. h \in Proc /\ pc[h] = "idle"
  BY DEF Proc, Begin, At
<1>2. pc'[h] = l /\ \A q \in Proc \ {h} : pc'[q] = pc[q]
  BY <1>1, Moved DEF Begin
<1>3. ctx'[h] = c /\ \A q \in Proc \ {h} : ctx'[q] = ctx[q]
  BY <1>1 DEF Begin, TypeInv, LocalsOK
<1> QED BY <1>1, <1>2, <1>3

LEMMA OthersStay ==
  ASSUME TypeInv, NEW p \in Proc, Step(p) \/ SyncStep(p) \/ DataStep(p)
  PROVE  \A q \in Proc \ {p} : pc'[q] = pc[q] /\ ctx'[q] = ctx[q]
<1> USE DEF Goto, TypeInv, LocalsOK
<1>1. CASE Step(p)
  <2>1. ASSUME StartReturns(p) PROVE \A q \in Proc \ {p} : pc'[q] = pc[q] /\ ctx'[q] = ctx[q]
    BY <2>1 DEF StartReturns
  <2>2. ASSUME Dispatch(p) PROVE \A q \in Proc \ {p} : pc'[q] = pc[q] /\ ctx'[q] = ctx[q]
    BY <2>1, <2>2 DEF Dispatch
  <2> QED BY <1>1, <2>1, <2>2
      DEF Step, StopLookup, RestartLookup, CloseStopCh, ClosePanics,
          CloseTCPListen, CloseUDPConn, SvrsRemove, EditRulesSet, RulesRemove,
          TrafficRemove, GetTF, SetTF, SvrsSet, StartFails, Serve, ListenTCP,
          ListenUDP
<1>2. CASE SyncStep(p)
  <2>1. CASE SyncStops(p)
    BY <2>1 DEF SyncStops, SyncKeeps, SyncDrops
  <2>2. CASE SyncResolves(p)
    BY <2>2 DEF SyncResolves
  <2> QED BY <1>2, <2>1, <2>2
      DEF SyncStep, SyncEnter, SyncClaim, SyncItems, SyncPicks, SyncSkips,
          SyncCancelled, SyncFinishes, SyncMarshals, SyncTruncates, SyncWrites,
          WriteFails, SyncReturns
<1>3. CASE DataStep(p)
  BY <1>3 DEF DataStep, DataAnswers, DataPanics
<1> QED BY <1>1, <1>2, <1>3

-----------------------------------------------------------------------------
(* The flag `syncing' has a sync behind it: a goroutine holds the flag     *)
(* from raising it until it lowers it, or finds it lowered.                *)

HoldsFlag(p) ==
  /\ ctx[p].op = "sync"
  /\ pc[p] \notin {"idle", "sync", "syncClaim", "syncMarshal", "syncTruncate", "syncWrite"}

FlagInv == syncing => \E p \in Proc : HoldsFlag(p)

LEMMA StepHolds ==
  ASSUME TypeInv, NEW p \in Proc, Step(p), HoldsFlag(p)
  PROVE  HoldsFlag(p)'
<1>0. /\ ctx[p] \in Locals /\ ctx[p].op = "sync" /\ pc \in [Proc -> Labels]
      /\ ctx \in [Proc -> Locals] /\ HasLocals(pc[p], ctx[p])
  BY DEF TypeInv, LocalsOK, HoldsFlag
<1>1. CASE StopLookup(p) \/ SvrsRemove(p)
  BY <1>0, <1>1 DEF StopLookup, SvrsRemove, AfterStop, Goto, HoldsFlag, Locals
<1>2. CASE CloseStopCh(p) \/ ClosePanics(p) \/ CloseTCPListen(p) \/ CloseUDPConn(p)
  BY <1>0, <1>2 DEF CloseStopCh, ClosePanics, CloseTCPListen, CloseUDPConn, Goto,
      HoldsFlag
<1>3. CASE RestartLookup(p) \/ EditRulesSet(p)
  BY <1>0, <1>3 DEF RestartLookup, EditRulesSet, At, HasLocals
<1>4. CASE RulesRemove(p)
  BY <1>0, <1>4 DEF RulesRemove, Goto, HoldsFlag
<1>5. CASE TrafficRemove(p)
  BY <1>0, <1>5 DEF TrafficRemove, Goto, HoldsFlag, Locals
<1>6. CASE GetTF(p)
  BY <1>0, <1>6 DEF GetTF, Goto, HoldsFlag, Locals
<1>7. CASE SetTF(p)
  BY <1>0, <1>7 DEF SetTF, Goto, HoldsFlag, Locals
<1>8. CASE SvrsSet(p)
  BY <1>0, <1>8 DEF SvrsSet, Goto, HoldsFlag, Locals
<1>9. ASSUME StartReturns(p) PROVE HoldsFlag(p)'
  BY <1>0, <1>9 DEF StartReturns, Goto, HoldsFlag, Locals
<1>10. ASSUME NEW l \in Serving, Goto(p, l), UNCHANGED ctx PROVE HoldsFlag(p)'
  BY <1>0, <1>10 DEF Goto, HoldsFlag
<1>11. CASE StartFails(p) \/ Serve(p) \/ ListenTCP(p) \/ ListenUDP(p)
  BY <1>9, <1>10, <1>11 DEF StartFails, Serve, Dispatch, ListenTCP, ListenUDP
<1> QED BY <1>1, <1>2, <1>3, <1>4, <1>5, <1>6, <1>7, <1>8, <1>11 DEF Step

LEMMA SyncStepHolds ==
  ASSUME TypeInv, NEW p \in Proc, SyncStep(p), HoldsFlag(p), syncing'
  PROVE  HoldsFlag(p)'
<1>0. /\ ctx[p] \in Locals /\ ctx[p].op = "sync" /\ pc \in [Proc -> Labels]
      /\ ctx \in [Proc -> Locals]
  BY DEF TypeInv, LocalsOK, HoldsFlag
<1>1. /\ ~SyncEnter(p) /\ ~SyncClaim(p) /\ ~SyncMarshals(p)
      /\ ~SyncTruncates(p) /\ ~SyncWrites(p) /\ ~WriteFails(p)
  BY DEF SyncEnter, SyncClaim, SyncMarshals, SyncTruncates, SyncWrites, WriteFails,
      At, HoldsFlag
<1>2. ~SyncFinishes(p) /\ ~SyncCancelled(p)
  BY DEF SyncFinishes, SyncCancelled
<1>3. CASE SyncItems(p)
  BY <1>0, <1>3 DEF SyncItems, Goto, HoldsFlag, Locals
<1>4. CASE SyncStops(p)
  <2>1. ASSUME NEW rid \in Rid, SyncKeeps(p, rid) PROVE HoldsFlag(p)'
    BY <1>0, <2>1 DEF SyncKeeps, HoldsFlag, Locals
  <2>2. ASSUME NEW rid \in Rid, SyncDrops(p, rid) PROVE HoldsFlag(p)'
    BY <1>0, <2>2 DEF SyncDrops, Goto, HoldsFlag, Locals
  <2>3. ASSUME Goto(p, "syncStarts"), UNCHANGED ctx PROVE HoldsFlag(p)'
    BY <1>0, <2>3 DEF Goto, HoldsFlag
  <2> QED BY <1>4, <2>1, <2>2, <2>3 DEF SyncStops
<1>5. CASE SyncPicks(p)
  BY <1>0, <1>5 DEF SyncPicks, Goto, HoldsFlag, Locals
<1>6. CASE SyncResolves(p)
  <2>1. PICK rule : ctx' = [ctx EXCEPT ![p].rule = rule]
    BY <1>6 DEF SyncResolves
  <2>2. pc' = [pc EXCEPT ![p] = "getTF"]
    BY <1>6 DEF SyncResolves, Goto
  <2> QED BY <1>0, <2>1, <2>2 DEF HoldsFlag, Locals
<1>7. CASE SyncSkips(p)
  BY <1>0, <1>7 DEF SyncSkips, Goto, HoldsFlag, Locals
<1> QED BY <1>1, <1>2, <1>3, <1>4, <1>5, <1>6, <1>7 DEF SyncStep

(* A step of p, and nobody raises the flag *)
LEMMA FlagFrame ==
  ASSUME FlagInv, NEW p \in Proc, syncing' => syncing /\ (HoldsFlag(p) => HoldsFlag(p)'),
         \A q \in Proc \ {p} : pc'[q] = pc[q] /\ ctx'[q] = ctx[q]
  PROVE  FlagInv'
<1> SUFFICES ASSUME syncing' PROVE \E q \in Proc : HoldsFlag(q)'
  BY DEF FlagInv
<1>1. PICK q \in Proc : HoldsFlag(q)
  BY DEF FlagInv
<1>2. CASE q = p
  BY <1>1, <1>2
<1>3. CASE q # p
  BY <1>1, <1>3 DEF HoldsFlag
<1> QED BY <1>2, <1>3

LEMMA FlagStep == TypeInv /\ FlagInv /\ [Next]_vars => FlagInv'
<1> SUFFICES ASSUME TypeInv, FlagInv, [Next]_vars PROVE FlagInv'
  OBVIOUS
<1>1. ASSUME NEW h \in Handler, Accept(h) PROVE FlagInv'
  <2>1. PICK l, c : Begin(h, l, c)
    BY <1>1 DEF Accept, PostAdd, PostEdit, PostDel, PostRestart, PostSync, GetData
  <2>2. /\ h \in Proc /\ pc[h] = "idle"
        /\ \A q \in Proc \ {h} : pc'[q] = pc[q] /\ ctx'[q] = ctx[q]
    BY <2>1, BeginStep
  <2>3. UNCHANGED syncing
    BY <1>1 DEF Accept, PostAdd, PostEdit, PostDel, PostRestart, PostSync, GetData
  <2>4. ~HoldsFlag(h)
    BY <2>2 DEF HoldsFlag
  <2> QED BY <2>2, <2>3, <2>4, FlagFrame
<1>2. ASSUME NEW p \in Proc, Step(p) PROVE FlagInv'
  <2>1. UNCHANGED syncing
    BY <1>2 DEF Step, StopLookup, RestartLookup, CloseStopCh, ClosePanics,
        CloseTCPListen, CloseUDPConn, SvrsRemove, EditRulesSet, RulesRemove,
        TrafficRemove, GetTF, SetTF, SvrsSet, StartFails, Serve, ListenTCP,
        ListenUDP
  <2> QED BY <1>2, <2>1, StepHolds, OthersStay, FlagFrame
<1>3. ASSUME NEW p \in Proc, SyncClaim(p) PROVE FlagInv'
  <2>1. pc'[p] = "syncItems" /\ ctx'[p] = ctx[p] /\ ctx[p].op = "sync"
    BY <1>3 DEF SyncClaim, Goto, At, TypeInv, LocalsOK, HasLocals
  <2> QED BY <2>1 DEF FlagInv, HoldsFlag
<1>4. ASSUME NEW p \in Proc, SyncStep(p), ~SyncClaim(p) PROVE FlagInv'
  <2>1. syncing' => syncing
    BY <1>4
    DEF SyncStep, SyncEnter, SyncItems, SyncStops, SyncPicks, SyncResolves,
        SyncSkips, SyncCancelled, SyncFinishes, SyncMarshals, SyncTruncates,
        SyncWrites, WriteFails
  <2> QED BY <1>4, <2>1, SyncStepHolds, OthersStay, FlagFrame
<1>5. ASSUME NEW p \in Proc, DataStep(p) PROVE FlagInv'
  <2>1. UNCHANGED syncing
    BY <1>5 DEF DataStep, DataAnswers, DataPanics
  <2>2. ~HoldsFlag(p)
    BY <1>5
    DEF DataStep, DataAnswers, DataPanics, At, HoldsFlag, TypeInv, LocalsOK,
        HasLocals
  <2> QED BY <1>5, <2>1, <2>2, OthersStay, FlagFrame
<1>6. CASE DdnsStep \/ Kill \/ UNCHANGED vars
  <2>1. UNCHANGED <<syncing, pc, ctx>>
    BY <1>6 DEF Kill, vars, DdnsStep, DdnsWakes, DdnsLookup, DdnsSetsRaddr,
        DdnsPanics, DdnsSetsRule, DdnsSleeps
  <2> QED BY <2>1 DEF FlagInv, HoldsFlag
<1>7. CASE Reboot
  BY <1>7 DEF Reboot, FlagInv
<1> QED BY <1>1, <1>2, <1>3, <1>4, <1>5, <1>6, <1>7 DEF Next

(* Whatever the client does, a flag that is up belongs to a sync that is   *)
(* at work or has died of a panic: syncs that overlap and cancel each      *)
(* other never leave it up behind them (lib.go:70-75, 90, 109).            *)
THEOREM FlagOwned == Spec => []SyncFlagOwned
<1>1. Init => FlagInv
  BY DEF Init, FlagInv
<1>2. FlagInv => SyncFlagOwned
  BY DEF FlagInv, HoldsFlag, SyncFlagOwned
<1> QED BY <1>1, <1>2, InitType, TypeStep, FlagStep, PTL DEF Spec

=============================================================================

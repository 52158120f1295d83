--------------------------- MODULE ControlPlaneSync ---------------------------
(***************************************************************************)
(* What sync() leaves behind and what /data says, under the client of      *)
(* ControlPlaneSerial.                                                     *)
(***************************************************************************)
EXTENDS ControlPlaneSerial

(* No lookup ever answers anything but the address it answered first.      *)
AddressesStay == \A i, j \in IP : i = j

(* A rule that has gone through a lookup and check() *)
Fine(r) == r.rip # None /\ check(r)
AllFine(m) == \A rid \in Rid : m[rid] # None => Fine(m[rid])

(* Every rule that may be put into Rules without another look is fine.     *)
FineProc(p) == /\ AllFine(ctx[p].items)
               /\ ctx[p].op = "edit" => Fine(ctx[p].rule)
FineDdns == /\ AllFine(ddns.items)
            /\ ddns.pc \in {"svr", "set"} => Fine(ddns.rule)
FineInv == AllFine(rules) /\ FineDdns /\ \A p \in Proc : FineProc(p)

(* The sets of labels are expanded throughout. *)
USE DEF OnRule, Closing, Serving, Clear, Starting, StopLoop, StartLoop, SyncOnly,
    HalfOpen

-----------------------------------------------------------------------------
(* What a step does to the locals of its goroutine *)

LEMMA ReturnLocals ==
  ASSUME TypeInv, NEW p \in Proc, StartReturns(p)
  PROVE  \/ pc'[p] = "idle" /\ ctx'[p] = NoRequest /\ ctx[p].op # "sync"
         \/ /\ pc'[p] = "syncStarts" /\ ctx[p].op = "sync" /\ ctx'[p].op = "sync"
            /\ ctx'[p].new = ctx[p].new /\ ctx'[p].items = ctx[p].items
            /\ ctx'[p].req = ctx[p].req
<1> USE DEF TypeInv, LocalsOK, Goto
<1>1. CASE ctx[p].op = "sync"
  <2>1. pc'[p] = "syncStarts"
    BY <1>1 DEF StartReturns
  <2>2. ctx'[p] = [ctx[p] EXCEPT !.rid = None, !.rule = None, !.svr = None, !.tf = None]
    BY <1>1 DEF StartReturns
  <2> QED BY <1>1, <2>1, <2>2 DEF Locals
<1>2. CASE ctx[p].op # "sync"
  BY <1>2 DEF StartReturns
<1> QED BY <1>1, <1>2

LEMMA StepLocals ==
  ASSUME TypeInv, NEW p \in Proc, Step(p)
  PROVE  \/ ctx'[p] = NoRequest
         \/ /\ ctx'[p].op = ctx[p].op /\ ctx'[p].new = ctx[p].new
            /\ ctx'[p].items = ctx[p].items /\ ctx'[p].req = ctx[p].req
            /\ ctx[p].op # "sync" => ctx'[p].rule = ctx[p].rule
<1>0. ctx[p] \in Locals /\ ctx \in [Proc -> Locals]
  BY DEF TypeInv, LocalsOK
<1>1. CASE StopLookup(p) \/ RestartLookup(p) \/ SvrsRemove(p) \/ GetTF(p)
  BY <1>0, <1>1 DEF StopLookup, RestartLookup, SvrsRemove, GetTF, Locals
<1>2. CASE \/ CloseStopCh(p) \/ ClosePanics(p) \/ CloseTCPListen(p) \/ CloseUDPConn(p)
           \/ EditRulesSet(p) \/ RulesRemove(p)
  BY <1>2 DEF CloseStopCh, ClosePanics, CloseTCPListen, CloseUDPConn, EditRulesSet,
      RulesRemove
<1>3. CASE TrafficRemove(p)
  BY <1>0, <1>3 DEF TrafficRemove, Locals
<1>4. CASE SetTF(p)
  BY <1>0, <1>4 DEF SetTF, Locals
<1>5. CASE SvrsSet(p)
  BY <1>0, <1>5 DEF SvrsSet, Locals
<1>6. CASE StartReturns(p)
  BY <1>6, ReturnLocals
<1>7. CASE StartFails(p) \/ Serve(p) \/ ListenTCP(p) \/ ListenUDP(p)
  BY <1>6, <1>7 DEF StartFails, Serve, Dispatch, ListenTCP, ListenUDP
<1> QED BY <1>1, <1>2, <1>3, <1>4, <1>5, <1>7 DEF Step

-----------------------------------------------------------------------------
(* Rules are fine, for any client *)

LEMMA FineNoRules == AllFine(NoRules)
  BY NoRulesType DEF AllFine

LEMMA FineNoRequest == AllFine(NoRequest.items) /\ NoRequest.op # "edit"
  BY FineNoRules DEF NoRequest, Request

LEMMA FineUpdate ==
  ASSUME NEW m \in RuleMap, AllFine(m), NEW rid \in Rid, NEW r, r = None \/ Fine(r)
  PROVE  AllFine([m EXCEPT ![rid] = r])
  BY DEF AllFine, RuleMap

LEMMA FineParsed == ASSUME NEW r \in Parsed PROVE Fine(r)
<1>1. PICK i \in RuleInput, ip \in IP : check(i) /\ r = [i EXCEPT !.rip = ip]
  BY DEF Parsed
<1>2. i \in Rule /\ ip # None
  BY ConstantsAssumption
<1>3. r.rip = ip /\ r.port = i.port
  BY <1>1, <1>2 DEF Rule
<1> QED BY <1>1, <1>2, <1>3 DEF Fine, check

LEMMA FineFrame ==
  ASSUME FineInv, NEW p \in Proc, AllFine(rules)', FineProc(p)', FineDdns',
         \A q \in Proc \ {p} : pc'[q] = pc[q] /\ ctx'[q] = ctx[q]
  PROVE  FineInv'
<1>1. ASSUME NEW q \in Proc \ {p} PROVE FineProc(q)'
  BY DEF FineInv, FineProc, AllFine, Fine, check
<1> QED BY <1>1 DEF FineInv

LEMMA FineStep == TypeInv /\ FineInv /\ [Next]_vars => FineInv'
<1> SUFFICES ASSUME TypeInv, FineInv, [Next]_vars PROVE FineInv'
  OBVIOUS
<1>0. /\ rules \in RuleMap /\ AllFine(rules) /\ FineDdns
      /\ \A p \in Proc : /\ FineProc(p) /\ ctx[p] \in Locals /\ HasLocals(pc[p], ctx[p])
      /\ ctx \in [Proc -> Locals] /\ ddns \in Ddns
  BY DEF TypeInv, DataOK, LocalsOK, DdnsOK, FineInv
<1>d. ASSUME UNCHANGED ddns PROVE FineDdns'
  BY <1>0, <1>d DEF FineDdns, AllFine, Fine, check
<1>r. ASSUME UNCHANGED rules PROVE AllFine(rules)'
  BY <1>0, <1>r DEF AllFine, Fine, check
<1>1. ASSUME NEW h \in Handler, Accept(h) PROVE FineInv'
  <2>1. UNCHANGED ddns
    BY <1>1 DEF Accept, PostAdd, PostEdit, PostDel, PostRestart, PostSync, GetData, other
  <2>2. PICK l, c : Begin(h, l, c) /\ AllFine(c.items) /\ (c.op = "edit" => Fine(c.rule))
    <3>1. ASSUME NEW l, NEW op, NEW rid, NEW rule, NEW new, op = "edit" => Fine(rule),
                 Begin(h, l, Request(op, rid, rule, new))
          PROVE  \E k, c : Begin(h, k, c) /\ AllFine(c.items) /\ (c.op = "edit" => Fine(c.rule))
      <4> DEFINE c == Request(op, rid, rule, new)
      <4>1. AllFine(c.items) /\ c.op = op /\ c.rule = rule
        BY FineNoRules DEF Request
      <4> HIDE DEF c
      <4>2. Begin(h, l, c)
        BY <3>1 DEF c
      <4> QED BY <3>1, <4>1, <4>2
    <3>2. CASE PostAdd(h)
      BY <3>1, <3>2 DEF PostAdd
    <3>3. CASE PostEdit(h)
      BY <3>1, <3>3, FineParsed DEF PostEdit
    <3>4. CASE PostDel(h) \/ PostRestart(h) \/ PostSync(h)
      <4>1. \E l, op, rid, rule, new : op # "edit" /\ Begin(h, l, Request(op, rid, rule, new))
        BY <3>4 DEF PostDel, PostRestart, PostSync
      <4> QED BY <3>1, <4>1
    <3>5. CASE GetData(h)
      <4> DEFINE c == [Request("data", None, None, NoRules) EXCEPT !.items = rules]
      <4>1. AllFine(c.items) /\ c.op = "data"
        BY <1>0 DEF Request
      <4>2. Begin(h, "data", c)
        BY <3>5 DEF GetData
      <4> HIDE DEF c
      <4> QED BY <4>1, <4>2
    <3> QED BY <1>1, <3>2, <3>3, <3>4, <3>5 DEF Accept
  <2>3. /\ h \in Proc /\ ctx'[h] = c
        /\ \A q \in Proc \ {h} : pc'[q] = pc[q] /\ ctx'[q] = ctx[q]
    BY <2>2, BeginStep
  <2>4. FineProc(h)'
    BY <2>2, <2>3 DEF FineProc, AllFine, Fine, check
  <2>5. CASE PostAdd(h)
    <3>1. PICK rid \in Rid, r \in Parsed : rules' = [rules EXCEPT ![rid] = r]
      BY <2>5 DEF PostAdd
    <3>2. AllFine(rules')
      BY <1>0, <3>1, FineParsed, FineUpdate
    <3> QED BY <1>d, <2>1, <2>3, <2>4, <3>2, FineFrame
  <2>6. CASE ~PostAdd(h)
    <3>1. UNCHANGED rules
      BY <1>1, <2>6 DEF Accept, PostEdit, PostDel, PostRestart, PostSync, GetData, maps
    <3> QED BY <1>d, <1>r, <2>1, <2>3, <2>4, <3>1, FineFrame
  <2> QED BY <2>5, <2>6
<1>2. ASSUME NEW p \in Proc, Step(p) PROVE FineInv'
  <2>1. UNCHANGED ddns
    BY <1>2 DEF Step, StopLookup, RestartLookup, CloseStopCh, ClosePanics,
        CloseTCPListen, CloseUDPConn, SvrsRemove, EditRulesSet, RulesRemove,
        TrafficRemove, GetTF, SetTF, SvrsSet, StartFails, Serve, ListenTCP,
        ListenUDP, other
  <2>2. FineProc(p)'
    BY <1>0, <1>2, StepLocals, FineNoRequest DEF FineProc, AllFine, Fine, check
  <2>3. AllFine(rules')
    <3>1. CASE EditRulesSet(p)
      BY <1>0, <3>1, FineUpdate DEF EditRulesSet, At, HasLocals, FineProc
    <3>2. CASE RulesRemove(p)
      BY <1>0, <3>2, FineUpdate DEF RulesRemove, At, HasLocals
    <3>3. CASE ~EditRulesSet(p) /\ ~RulesRemove(p)
      BY <1>0, <1>2, <3>3
      DEF Step, StopLookup, RestartLookup, CloseStopCh, ClosePanics, CloseTCPListen,
          CloseUDPConn, SvrsRemove, TrafficRemove, GetTF, SetTF, SvrsSet, StartFails,
          Serve, ListenTCP, ListenUDP, maps
    <3> QED BY <3>1, <3>2, <3>3
  <2> QED BY <1>2, <1>d, <2>1, <2>2, <2>3, OthersStay, FineFrame
<1>3. ASSUME NEW p \in Proc, SyncStep(p) PROVE FineInv'
  <2>0. FineProc(p) /\ ctx[p] \in Locals /\ HasLocals(pc[p], ctx[p])
    BY <1>0
  <2>1. FineDdns'
    <3>1. ASSUME SyncReturns(p) PROVE FineDdns'
      BY <1>0, <1>d, <3>1, FineNoRules DEF SyncReturns, DdnsAt, FineDdns, AllFine, Fine, check
    <3>2. CASE SyncCancelled(p) \/ SyncWrites(p) \/ WriteFails(p)
      BY <3>1, <3>2 DEF SyncCancelled, SyncWrites, WriteFails
    <3>3. CASE ~SyncCancelled(p) /\ ~SyncWrites(p) /\ ~WriteFails(p)
      BY <1>3, <1>d, <3>3
      DEF SyncStep, SyncEnter, SyncClaim, SyncItems, SyncStops, SyncPicks, SyncResolves,
          SyncSkips, SyncFinishes, SyncMarshals, SyncTruncates, other
    <3> QED BY <3>2, <3>3
  <2>2. AllFine(rules')
    <3>1. CASE SyncResolves(p)
      <4>1. PICK ip \in IP \cup {ctx[p].rule.rip} :
              /\ ip # None /\ check([ctx[p].rule EXCEPT !.rip = ip])
              /\ rules' = [rules EXCEPT ![ctx[p].rid] = [ctx[p].rule EXCEPT !.rip = ip]]
        BY <3>1, ConstantsAssumption DEF SyncResolves
      <4>2. ctx[p].rid \in Rid /\ ctx[p].rule \in Rule
        BY <2>0, <3>1 DEF SyncResolves, At, HasLocals
      <4>3. Fine([ctx[p].rule EXCEPT !.rip = ip])
        BY <4>1, <4>2 DEF Fine, Rule
      <4> QED BY <1>0, <4>1, <4>2, <4>3, FineUpdate
    <3>2. CASE ~SyncResolves(p)
      BY <1>0, <1>3, <3>2
      DEF SyncStep, SyncEnter, SyncClaim, SyncItems, SyncStops, SyncPicks, SyncSkips,
          SyncCancelled, SyncFinishes, SyncMarshals, SyncTruncates, SyncWrites, WriteFails,
          maps
    <3> QED BY <3>1, <3>2
  <2>3. ctx[p].op = "sync"
    BY <1>3, <2>0 DEF SyncStep, SyncEnter, SyncClaim, SyncItems, SyncStops, SyncPicks,
        SyncResolves, SyncSkips, SyncCancelled, SyncFinishes, SyncMarshals,
        SyncTruncates, SyncWrites, WriteFails, At, HasLocals
  <2>4. \/ ctx'[p] = NoRequest
        \/ ctx'[p].op = "sync" /\ ctx'[p].items \in {ctx[p].items, rules}
        \/ \E rid \in Rid : /\ ctx'[p].op = "sync"
                            /\ ctx'[p].items = [ctx[p].items EXCEPT ![rid] = None]
    <3>1. CASE SyncStops(p)
      <4>1. ASSUME NEW rid \in Rid, SyncKeeps(p, rid)
            PROVE  ctx'[p].op = "sync" /\ ctx'[p].items = [ctx[p].items EXCEPT ![rid] = None]
        BY <1>0, <2>3, <4>1 DEF SyncKeeps, Locals
      <4>2. ASSUME NEW rid \in Rid, SyncDrops(p, rid)
            PROVE  ctx'[p].op = "sync" /\ ctx'[p].items = [ctx[p].items EXCEPT ![rid] = None]
        BY <1>0, <2>3, <4>2 DEF SyncDrops, Locals
      <4> QED BY <2>3, <3>1, <4>1, <4>2 DEF SyncStops
    <3>2. CASE SyncPicks(p)
      BY <1>0, <2>3, <3>2 DEF SyncPicks, Locals
    <3>3. CASE SyncResolves(p)
      <4>1. PICK r : ctx' = [ctx EXCEPT ![p].rule = r]
        BY <3>3 DEF SyncResolves
      <4> QED BY <1>0, <2>3, <4>1 DEF Locals
    <3>4. CASE SyncSkips(p)
      BY <1>0, <2>3, <3>4 DEF SyncSkips, Locals
    <3>5. CASE SyncItems(p) \/ SyncMarshals(p)
      BY <1>0, <2>3, <3>5 DEF SyncItems, SyncMarshals, Locals
    <3>6. CASE SyncCancelled(p) \/ SyncWrites(p) \/ WriteFails(p)
      BY <1>0, <3>6 DEF SyncCancelled, SyncWrites, WriteFails, SyncReturns
    <3>7. CASE SyncEnter(p) \/ SyncClaim(p) \/ SyncFinishes(p) \/ SyncTruncates(p)
      BY <2>3, <3>7 DEF SyncEnter, SyncClaim, SyncFinishes, SyncTruncates
    <3> QED BY <1>3, <3>1, <3>2, <3>3, <3>4, <3>5, <3>6, <3>7 DEF SyncStep
  <2>5. FineProc(p)'
    <3>1. ctx[p].items \in RuleMap /\ AllFine(ctx[p].items)
      BY <2>0 DEF Locals, FineProc
    <3>2. AllFine(ctx'[p].items) /\ ctx'[p].op # "edit"
      <4>1. \A rid \in Rid : AllFine([ctx[p].items EXCEPT ![rid] = None])
        BY <3>1, FineUpdate
      <4>2. CASE ctx'[p] = NoRequest
        BY <4>2, FineNoRequest
      <4>3. CASE ctx'[p].op = "sync" /\ ctx'[p].items \in {ctx[p].items, rules}
        BY <1>0, <3>1, <4>3
      <4>4. ASSUME NEW rid \in Rid, ctx'[p].op = "sync",
                   ctx'[p].items = [ctx[p].items EXCEPT ![rid] = None]
            PROVE  AllFine(ctx'[p].items) /\ ctx'[p].op # "edit"
        BY <4>1, <4>4
      <4> QED BY <2>4, <4>2, <4>3, <4>4
    <3> QED BY <3>2 DEF FineProc, AllFine, Fine, check
  <2>6. AllFine(rules)'
    BY <2>2 DEF AllFine, Fine, check
  <2> QED BY <1>3, <2>1, <2>5, <2>6, OthersStay, FineFrame
<1>4. ASSUME NEW p \in Proc, DataStep(p) PROVE FineInv'
  <2>1. UNCHANGED <<rules, ddns>> /\ ctx'[p] \in {ctx[p], NoRequest}
    BY <1>0, <1>4 DEF DataStep, DataAnswers, DataPanics, maps, other
  <2>2. FineProc(p)'
    BY <1>0, <2>1, FineNoRequest DEF FineProc, AllFine, Fine, check
  <2> QED BY <1>4, <1>d, <1>r, <2>1, <2>2, OthersStay, FineFrame
<1>5. CASE DdnsStep
  <2>1. UNCHANGED ctx
    BY <1>5 DEF DdnsStep, DdnsWakes, DdnsLookup, DdnsSetsRaddr, DdnsPanics,
        DdnsSetsRule, DdnsSleeps
  <2>2. \A p \in Proc : FineProc(p)'
    BY <1>0, <2>1 DEF FineProc, AllFine, Fine, check
  <2>3. AllFine(rules')
    <3>1. CASE DdnsSetsRule
      BY <1>0, <3>1, FineUpdate DEF DdnsSetsRule, FineDdns, TypeInv, DdnsOK
    <3>2. CASE ~DdnsSetsRule
      BY <1>0, <1>5, <3>2
      DEF DdnsStep, DdnsWakes, DdnsLookup, DdnsSetsRaddr, DdnsPanics, DdnsSleeps, maps
    <3> QED BY <3>1, <3>2
  <2>4. AllFine(ddns'.items) /\ (ddns'.pc \in {"svr", "set"} => Fine(ddns'.rule))
    <3>1. CASE DdnsWakes \/ DdnsSetsRaddr \/ DdnsSetsRule \/ DdnsSleeps
      BY <1>0, <3>1 DEF DdnsWakes, DdnsSetsRaddr, DdnsSetsRule, DdnsSleeps, FineDdns, Ddns
    <3>2. CASE DdnsPanics
      BY <1>0, <3>2 DEF DdnsPanics, FineDdns
    <3>3. CASE DdnsLookup
      <4>1. PICK rid \in Rid :
             /\ ddns.pc = "walk" /\ ddns.items[rid] # None
             /\ \/ ddns' = [ddns EXCEPT !.items[rid] = None]
                \/ \E ip \in IP \ {ddns.items[rid].rip} :
                     ddns' = [pc |-> "svr", items |-> [ddns.items EXCEPT ![rid] = None],
                              rid |-> rid, rule |-> [ddns.items[rid] EXCEPT !.rip = ip]]
        BY <3>3 DEF DdnsLookup
      <4>2. /\ ddns.items \in RuleMap /\ AllFine(ddns.items)
            /\ AllFine([ddns.items EXCEPT ![rid] = None])
        BY <1>0, FineUpdate DEF Ddns, FineDdns
      <4>3. ddns.items[rid] \in Rule /\ Fine(ddns.items[rid])
        BY <4>1, <4>2 DEF RuleMap, AllFine
      <4>4. CASE ddns' = [ddns EXCEPT !.items[rid] = None]
        BY <1>0, <4>1, <4>2, <4>4 DEF Ddns
      <4>5. ASSUME NEW ip \in IP,
                   ddns' = [pc |-> "svr", items |-> [ddns.items EXCEPT ![rid] = None],
                            rid |-> rid, rule |-> [ddns.items[rid] EXCEPT !.rip = ip]]
            PROVE  AllFine(ddns'.items) /\ Fine(ddns'.rule)
        <5>1. Fine([ddns.items[rid] EXCEPT !.rip = ip])
          BY <4>3, ConstantsAssumption DEF Fine, check, Rule
        <5> QED BY <4>2, <4>5, <5>1
      <4> QED BY <4>1, <4>4, <4>5
    <3> QED BY <1>5, <3>1, <3>2, <3>3 DEF DdnsStep
  <2>5. FineDdns' /\ AllFine(rules)'
    BY <2>3, <2>4 DEF FineDdns, AllFine, Fine, check
  <2> QED BY <2>2, <2>5 DEF FineInv
<1>6. CASE Kill \/ UNCHANGED vars
  <2>1. UNCHANGED <<rules, ctx, ddns>>
    BY <1>6 DEF Kill, vars, maps
  <2> QED BY <1>d, <1>r, <1>0, <2>1 DEF FineInv, FineProc, AllFine, Fine, check
<1>7. CASE Reboot
  <2>1. /\ AllFine(rules') /\ AllFine(ddns'.items) /\ ddns'.pc \in {"off", "sleep"}
        /\ \A p \in Proc : AllFine(ctx'[p].items) /\ ctx'[p].op # "edit"
    BY <1>7, FineNoRules
    DEF Reboot, BootCtx, BootDdns, DdnsAt, NoRequest, Request
  <2> QED BY <2>1 DEF FineInv, FineProc, FineDdns, AllFine, Fine, check
<1> QED BY <1>1, <1>2, <1>3, <1>4, <1>5, <1>6, <1>7 DEF Next

LEMMA FineInit == Init => FineInv
  BY FineNoRules DEF Init, FineInv, FineProc, FineDdns, BootCtx, BootDdns, DdnsAt,
      NoRequest, Request

(* Whatever the client does and whatever the sync file held, no rule gets  *)
(* into Rules that did not resolve or that check() refuses: add, edit,     *)
(* sync(), start-up and ddns() all go through both (lib.go:96-107, 143).   *)
THEOREM RulesResolved == Spec => []AllFine(rules)
<1>1. FineInv => AllFine(rules)
  BY DEF FineInv
<1> QED BY <1>1, InitType, TypeStep, FineInit, FineStep, PTL DEF Spec

-----------------------------------------------------------------------------
(* ddns() when no address moves: it looks, and writes nothing *)

StillInv == ddns.pc \notin {"svr", "set"}

(* Nobody but ddns() itself moves it, except that Init() starts it. *)
LEMMA DdnsMoves ==
  ASSUME [Next]_vars
  PROVE  \/ UNCHANGED ddns
         \/ \E l \in {"off", "sleep"} : ddns' = DdnsAt(l)
         \/ DdnsStep
<1>1. ASSUME NEW h \in Handler, Accept(h) PROVE UNCHANGED ddns
  BY <1>1 DEF Accept, PostAdd, PostEdit, PostDel, PostRestart, PostSync, GetData, other
<1>2. ASSUME NEW p \in Proc, Step(p) \/ DataStep(p) PROVE UNCHANGED ddns
  BY <1>2 DEF Step, StopLookup, RestartLookup, CloseStopCh, ClosePanics, CloseTCPListen,
      CloseUDPConn, SvrsRemove, EditRulesSet, RulesRemove, TrafficRemove, GetTF, SetTF,
      SvrsSet, StartFails, Serve, ListenTCP, ListenUDP, DataStep, DataAnswers,
      DataPanics, other
<1>3. ASSUME NEW p \in Proc, SyncStep(p)
      PROVE  UNCHANGED ddns \/ ddns' = DdnsAt("sleep")
  BY <1>3 DEF SyncStep, SyncEnter, SyncClaim, SyncItems, SyncStops, SyncPicks, SyncResolves,
      SyncSkips, SyncCancelled, SyncFinishes, SyncMarshals, SyncTruncates, SyncWrites,
      WriteFails, SyncReturns, other
<1>4. CASE Kill \/ UNCHANGED vars
  BY <1>4 DEF Kill, vars
<1>5. CASE Reboot
  BY <1>5 DEF Reboot, BootDdns
<1> QED BY <1>1, <1>2, <1>3, <1>4, <1>5 DEF Next

LEMMA StillStep ==
  ASSUME AddressesStay, TypeInv, FineInv, StillInv, [Next]_vars
  PROVE  StillInv'
<1>1. CASE DdnsStep
  <2>1. ~DdnsSetsRaddr /\ ~DdnsPanics /\ ~DdnsSetsRule
    BY DEF StillInv, DdnsSetsRaddr, DdnsPanics, DdnsSetsRule
  <2>2. CASE DdnsWakes \/ DdnsSleeps
    BY <2>2 DEF DdnsWakes, DdnsSleeps, StillInv, TypeInv, DdnsOK, Ddns
  <2>3. CASE DdnsLookup
    <3>1. PICK rid \in Rid :
           /\ ddns.pc = "walk" /\ ddns.items[rid] # None
           /\ \/ ddns' = [ddns EXCEPT !.items[rid] = None]
              \/ \E ip \in IP : ip # ddns.items[rid].rip
      BY <2>3 DEF DdnsLookup
    <3>2. ddns.items[rid] \in Rule /\ Fine(ddns.items[rid])
      BY <3>1 DEF FineInv, FineDdns, AllFine, TypeInv, DdnsOK, Ddns, RuleMap
    <3>3. ddns.items[rid].rip \in IP
      BY <3>2 DEF Rule, Fine
    <3>4. ddns' = [ddns EXCEPT !.items[rid] = None]
      BY <3>1, <3>3 DEF AddressesStay
    <3> QED BY <3>1, <3>4 DEF StillInv, TypeInv, DdnsOK, Ddns
  <2> QED BY <1>1, <2>1, <2>2, <2>3 DEF DdnsStep
<1>2. CASE UNCHANGED ddns \/ \E l \in {"off", "sleep"} : ddns' = DdnsAt(l)
  BY <1>2 DEF StillInv, DdnsAt
<1> QED BY <1>1, <1>2, DdnsMoves

LEMMA StillInit == Init => StillInv
  BY DEF Init, StillInv, BootDdns, DdnsAt

-----------------------------------------------------------------------------
(* What /data says of a relay: its TCP listener, where it has the handle,  *)
(* is open, or a goroutine is between closing it and opening it again.     *)

HalfTcp == {"closeTcp", "closeUdp", "svrsRemove", "serve", "listenTcp"}
TcpHandle(o) == OpensTcp(relay[o].typ) /\ Named(relay[o].typ) /\ "tcp" \in relay[o].lsn
AtWork(rid) == \E p \in Proc : pc[p] \in HalfTcp /\ ctx[p].rid = rid
StatusOf(rid) == svrs[rid] # None /\ TcpHandle(svrs[rid])
                   => <<svrs[rid], "tcp">> \in bound \/ AtWork(rid)
StatusInv == \A rid \in Rid : StatusOf(rid)

(* A step of p that leaves the TCP listeners alone and does not end the    *)
(* gap between closing one and opening it                                  *)
LEMMA StatusQuiet ==
  ASSUME TypeInv, StatusInv, NEW p \in Proc, UNCHANGED svrs,
         \A o \in Obj : TcpHandle(o)' => TcpHandle(o),
         \A o \in Obj : <<o, "tcp">> \in bound => <<o, "tcp">> \in bound',
         \A q \in Proc \ {p} : pc'[q] = pc[q] /\ ctx'[q] = ctx[q],
         pc[p] \in HalfTcp => pc'[p] \in HalfTcp /\ ctx'[p].rid = ctx[p].rid
  PROVE  StatusInv'
<1> SUFFICES ASSUME NEW x \in Rid, svrs[x] # None, TcpHandle(svrs[x])'
             PROVE  <<svrs[x], "tcp">> \in bound' \/ AtWork(x)'
  BY DEF StatusInv, StatusOf
<1>1. svrs[x] \in Obj
  BY DEF TypeInv, DataOK
<1>2. <<svrs[x], "tcp">> \in bound \/ AtWork(x)
  BY <1>1 DEF StatusInv, StatusOf
<1>3. AtWork(x) => AtWork(x)'
  BY DEF AtWork
<1> QED BY <1>1, <1>2, <1>3

(* A step of p that works on the relay of r *)
LEMMA StatusAt ==
  ASSUME TypeInv, StatusInv, NEW p \in Proc, NEW r \in Rid, StatusOf(r)',
         pc[p] \in HalfTcp => ctx[p].rid = r,
         \A q \in Proc \ {p} : pc'[q] = pc[q] /\ ctx'[q] = ctx[q],
         \A x \in Rid \ {r} : svrs'[x] = svrs[x],
         \A x \in Rid \ {r} : svrs[x] # None =>
           /\ relay'[svrs[x]] = relay[svrs[x]]
           /\ <<svrs[x], "tcp">> \in bound => <<svrs[x], "tcp">> \in bound'
  PROVE  StatusInv'
<1> SUFFICES ASSUME NEW x \in Rid \ {r}, svrs[x] # None, TcpHandle(svrs[x])'
             PROVE  <<svrs[x], "tcp">> \in bound' \/ AtWork(x)'
  BY DEF StatusInv, StatusOf, TcpHandle
<1>1. TcpHandle(svrs[x])
  BY DEF TcpHandle
<1>2. <<svrs[x], "tcp">> \in bound \/ AtWork(x)
  BY <1>1 DEF StatusInv, StatusOf
<1>3. AtWork(x) => AtWork(x)'
  BY DEF AtWork
<1> QED BY <1>2, <1>3

LEMMA StatusListenTCP ==
  ASSUME SerialInv, StatusInv, NEW p \in Proc, ListenTCP(p)
  PROVE  StatusInv'
<1>0. TypeInv /\ \A q \in Proc \ {p} : pc'[q] = pc[q] /\ ctx'[q] = ctx[q]
  BY OthersStay DEF SerialInv, Step
<1>1. pc[p] = "listenTcp" /\ pc[p] \in Closing \cup Serving /\ pc[p] \in OnRule
  BY DEF ListenTCP, At
<1>2. PICK r \in Rid : r = ctx[p].rid
  BY <1>1, Own
<1>3. PICK o \in Obj :
      /\ o = Svr(p) /\ svrs[r] = o /\ relay[o] \in Relay /\ \A x \in Rid \ {r} : svrs[x] # o
  BY <1>1, <1>2, CloseType
<1>4. UNCHANGED svrs /\ (Listens(o, "tcp") \/ ListenFails(o, "tcp"))
  BY <1>3 DEF ListenTCP, maps
<1>5. /\ \A i \in Obj \ {o} : relay'[i] = relay[i]
      /\ bound \subseteq bound'
      /\ "tcp" \in relay'[o].lsn => <<o, "tcp">> \in bound'
  <2>1. relay \in [Obj -> Relay]
    BY <1>0 DEF TypeInv, DataOK
  <2>2. CASE Listens(o, "tcp")
    BY <2>1, <2>2 DEF Listens
  <2>3. CASE ListenFails(o, "tcp")
    <3>1. relay' = [relay EXCEPT ![o].lsn = @ \ {"tcp"}] /\ UNCHANGED bound
      BY <2>3 DEF ListenFails
    <3>2. relay'[o].lsn = relay[o].lsn \ {"tcp"}
      BY <1>3, <2>1, <3>1 DEF Relay
    <3> QED BY <2>1, <3>1, <3>2
  <2> QED BY <1>4, <2>2, <2>3
<1>6. StatusOf(r)'
  BY <1>3, <1>4, <1>5 DEF StatusOf, TcpHandle
<1>7. \A x \in Rid \ {r} : svrs[x] # None =>
        /\ relay'[svrs[x]] = relay[svrs[x]]
        /\ <<svrs[x], "tcp">> \in bound => <<svrs[x], "tcp">> \in bound'
  BY <1>0, <1>3, <1>5 DEF TypeInv, DataOK
<1> QED BY <1>0, <1>2, <1>4, <1>6, <1>7, StatusAt

LEMMA StatusCloseTCP ==
  ASSUME SerialInv, StatusInv, NEW p \in Proc, CloseTCPListen(p)
  PROVE  StatusInv'
<1>0. TypeInv /\ \A q \in Proc \ {p} : pc'[q] = pc[q] /\ ctx'[q] = ctx[q]
  BY OthersStay DEF SerialInv, Step
<1>1. pc[p] = "closeTcp" /\ pc[p] \in Closing \cup Serving /\ pc[p] \in OnRule
  BY DEF CloseTCPListen, At
<1>2. PICK r \in Rid : r = ctx[p].rid
  BY <1>1, Own
<1>3. PICK o \in Obj :
      /\ o = Svr(p) /\ svrs[r] = o /\ \A x \in Rid \ {r} : svrs[x] # o
  BY <1>1, <1>2, CloseType
<1>4. /\ UNCHANGED <<svrs, relay, ctx>> /\ pc'[p] = "closeUdp"
      /\ bound' = Closed(o, "tcp")
  BY <1>3, <1>0, Moved DEF CloseTCPListen, maps
<1>5. StatusOf(r)'
  BY <1>2, <1>4 DEF StatusOf, AtWork, HalfTcp
<1>6. \A x \in Rid \ {r} : svrs[x] # None =>
        /\ relay'[svrs[x]] = relay[svrs[x]]
        /\ <<svrs[x], "tcp">> \in bound => <<svrs[x], "tcp">> \in bound'
  BY <1>3, <1>4 DEF Closed
<1> QED BY <1>0, <1>2, <1>4, <1>5, <1>6, StatusAt

LEMMA StatusSvrs ==
  ASSUME SerialInv, StatusInv, NEW p \in Proc, SvrsRemove(p) \/ SvrsSet(p)
  PROVE  StatusInv'
<1>0. TypeInv /\ \A q \in Proc \ {p} : pc'[q] = pc[q] /\ ctx'[q] = ctx[q]
  BY OthersStay DEF SerialInv, Step
<1>1. pc[p] \in {"svrsRemove", "svrsSet"} /\ pc[p] \in OnRule
  BY DEF SvrsRemove, SvrsSet, At
<1>2. PICK r \in Rid : r = ctx[p].rid
  BY <1>1, Own
<1>3. CASE SvrsRemove(p)
  <2>1. svrs' = [svrs EXCEPT ![r] = None] /\ UNCHANGED <<relay, bound>>
    BY <1>2, <1>3 DEF SvrsRemove, heap
  <2>2. svrs'[r] = None /\ \A x \in Rid \ {r} : svrs'[x] = svrs[x]
    BY <1>0, <1>2, <2>1 DEF TypeInv, DataOK
  <2>3. StatusOf(r)'
    BY <2>2 DEF StatusOf
  <2> QED BY <1>0, <1>2, <2>1, <2>2, <2>3, StatusAt
<1>4. CASE SvrsSet(p)
  <2>1. PICK o \in Obj : /\ FreshObj(o)
                        /\ relay' = [relay EXCEPT ![o] = NewRelay(p)]
                        /\ svrs' = [svrs EXCEPT ![r] = o]
                        /\ UNCHANGED bound
    BY <1>2, <1>4 DEF SvrsSet
  <2>2. /\ svrs'[r] = o /\ \A x \in Rid \ {r} : svrs'[x] = svrs[x]
        /\ relay'[o] = NewRelay(p) /\ \A i \in Obj \ {o} : relay'[i] = relay[i]
    BY <1>0, <1>2, <2>1 DEF TypeInv, DataOK
  <2>3. StatusOf(r)'
    BY <2>2 DEF StatusOf, TcpHandle, NewRelay
  <2>4. \A x \in Rid \ {r} : svrs[x] # None => relay'[svrs[x]] = relay[svrs[x]]
    BY <1>0, <2>1, <2>2 DEF FreshObj, TypeInv, DataOK
  <2> QED BY <1>0, <1>2, <2>1, <2>2, <2>3, <2>4, StatusAt
<1> QED BY <1>3, <1>4

LEMMA StatusServe ==
  ASSUME SerialInv, StatusInv, NEW p \in Proc, Serve(p)
  PROVE  StatusInv'
<1>0. TypeInv /\ \A q \in Proc \ {p} : pc'[q] = pc[q] /\ ctx'[q] = ctx[q]
  BY OthersStay DEF SerialInv, Step
<1>1. pc[p] = "serve" /\ pc[p] \in Closing \cup Serving /\ pc[p] \in OnRule
  BY DEF Serve, At
<1>2. PICK r \in Rid : r = ctx[p].rid
  BY <1>1, Own
<1>3. PICK o \in Obj :
      /\ o = Svr(p) /\ svrs[r] = o /\ relay[o] \in Relay /\ \A x \in Rid \ {r} : svrs[x] # o
  BY <1>1, <1>2, CloseType
<1>4. /\ UNCHANGED <<svrs, bound>> /\ relay' = [relay EXCEPT ![o].stop = "open"]
      /\ Dispatch(p)
  BY <1>3 DEF Serve, maps
<1>5. /\ relay'[o].typ = relay[o].typ /\ \A i \in Obj \ {o} : relay'[i] = relay[i]
  BY <1>0, <1>3, <1>4 DEF TypeInv, DataOK, Relay
<1>6. StatusOf(r)'
  <2>1. CASE OpensTcp(relay[o].typ)
    <3>1. Goto(p, "listenTcp") /\ UNCHANGED ctx
      BY <1>3, <1>4, <2>1 DEF Dispatch
    <3>2. pc'[p] = "listenTcp" /\ ctx'[p].rid = r
      BY <1>0, <1>2, <3>1, Moved
    <3> QED BY <3>2 DEF StatusOf, AtWork, HalfTcp
  <2>2. CASE ~OpensTcp(relay[o].typ)
    BY <1>3, <1>4, <1>5, <2>2 DEF StatusOf, TcpHandle
  <2> QED BY <2>1, <2>2
<1>7. \A x \in Rid \ {r} : svrs[x] # None => relay'[svrs[x]] = relay[svrs[x]]
  BY <1>0, <1>3, <1>5 DEF TypeInv, DataOK
<1> QED BY <1>0, <1>2, <1>4, <1>6, <1>7, StatusAt

LEMMA StatusListenUDP ==
  ASSUME SerialInv, StatusInv, NEW p \in Proc, ListenUDP(p)
  PROVE  StatusInv'
<1> DEFINE o == Svr(p)
<1>0. TypeInv /\ \A q \in Proc \ {p} : pc'[q] = pc[q] /\ ctx'[q] = ctx[q]
  BY OthersStay DEF SerialInv, Step
<1>1. pc[p] = "listenUdp" /\ pc[p] \in Closing \cup Serving
  BY DEF ListenUDP, At
<1>2. o \in Obj /\ relay \in [Obj -> Relay] /\ relay[o] \in Relay
  BY <1>0, <1>1, CloseType DEF TypeInv, DataOK
<1>3. UNCHANGED svrs /\ (Listens(o, "udp") \/ ListenFails(o, "udp"))
  BY DEF ListenUDP, maps
<1>4. bound \subseteq bound' /\ \A i \in Obj : TcpHandle(i)' => TcpHandle(i)
  <2>1. \E S \in {relay[o].lsn \cup {"udp"}, relay[o].lsn \ {"udp"}} :
          relay' = [relay EXCEPT ![o].lsn = S]
    BY <1>3 DEF Listens, ListenFails
  <2>2. \A i \in Obj : /\ relay'[i].typ = relay[i].typ
                       /\ "tcp" \in relay'[i].lsn => "tcp" \in relay[i].lsn
    BY <1>2, <2>1 DEF Relay
  <2> QED BY <1>3, <2>2 DEF Listens, ListenFails, TcpHandle
<1> QED BY <1>0, <1>1, <1>3, <1>4, StatusQuiet DEF HalfTcp

LEMMA StatusStep ==
  ASSUME SerialInv, StatusInv, NEW p \in Proc, Step(p)
  PROVE  StatusInv'
<1>0. TypeInv /\ \A q \in Proc \ {p} : pc'[q] = pc[q] /\ ctx'[q] = ctx[q]
  BY OthersStay DEF SerialInv
<1>1. CASE \/ StopLookup(p) \/ RestartLookup(p) \/ EditRulesSet(p) \/ RulesRemove(p)
           \/ TrafficRemove(p) \/ GetTF(p) \/ SetTF(p) \/ StartFails(p)
  <2>1. pc[p] \notin HalfTcp /\ UNCHANGED <<svrs, relay, bound>>
    BY <1>1 DEF StopLookup, RestartLookup, EditRulesSet, RulesRemove, TrafficRemove, GetTF,
        SetTF, StartFails, At, HalfTcp, maps, heap
  <2> QED BY <1>0, <2>1, StatusQuiet DEF TcpHandle
<1>2. CASE CloseStopCh(p)
  <2>1. pc[p] = "closeStopCh" /\ pc[p] \in Closing \cup Serving /\ pc[p] \in OnRule
    BY <1>2 DEF CloseStopCh, At
  <2>2. PICK r \in Rid : r = ctx[p].rid
    BY <2>1, Own
  <2>3. PICK o \in Obj :
        /\ o = Svr(p) /\ svrs[r] = o /\ \A x \in Rid \ {r} : svrs[x] # o
    BY <2>1, <2>2, CloseType
  <2>4. /\ UNCHANGED <<svrs, ctx>> /\ pc'[p] = "closeTcp"
        /\ relay' = [relay EXCEPT ![o].stop = "closed"]
        /\ bound' \in {bound, bound \ {<<o, "tcp">>}}
    BY <1>0, <1>2, <2>3, Moved DEF CloseStopCh, maps
  <2>5. StatusOf(r)'
    BY <2>2, <2>4 DEF StatusOf, AtWork, HalfTcp
  <2>6. \A i \in Obj \ {o} : relay'[i] = relay[i]
    BY <2>4, <1>0 DEF TypeInv, DataOK
  <2>7. \A x \in Rid \ {r} : svrs[x] # None =>
          /\ relay'[svrs[x]] = relay[svrs[x]]
          /\ <<svrs[x], "tcp">> \in bound => <<svrs[x], "tcp">> \in bound'
    BY <1>0, <2>3, <2>4, <2>6 DEF TypeInv, DataOK
  <2> QED BY <1>0, <2>2, <2>4, <2>5, <2>7, StatusAt
<1>3. CASE CloseUDPConn(p)
  <2>1. /\ UNCHANGED <<svrs, relay, ctx>> /\ bound' = Closed(Svr(p), "udp")
        /\ pc'[p] \in HalfTcp
    BY <1>0, <1>3, Moved DEF CloseUDPConn, HalfTcp, maps
  <2>2. \A o \in Obj : <<o, "tcp">> \in bound => <<o, "tcp">> \in bound'
    BY <2>1 DEF Closed
  <2> QED BY <1>0, <2>1, <2>2, StatusQuiet DEF TcpHandle
<1> QED BY <1>1, <1>2, <1>3, NoClosePanic, StatusListenTCP, StatusCloseTCP, StatusSvrs,
           StatusServe, StatusListenUDP DEF Step

LEMMA StatusNext ==
  ASSUME SerialInv, StatusInv, [Next]_vars
  PROVE  StatusInv'
<1>0. TypeInv
  BY DEF SerialInv
<1>1. ASSUME NEW h \in Handler, Accept(h) PROVE StatusInv'
  <2>1. PICK l, c : Begin(h, l, c)
    BY <1>1 DEF Accept, PostAdd, PostEdit, PostDel, PostRestart, PostSync, GetData
  <2>2. /\ h \in Proc /\ pc[h] = "idle"
        /\ \A q \in Proc \ {h} : pc'[q] = pc[q] /\ ctx'[q] = ctx[q]
    BY <1>0, <2>1, BeginStep
  <2>3. UNCHANGED <<svrs, relay, bound>>
    BY <1>1 DEF Accept, PostAdd, PostEdit, PostDel, PostRestart, PostSync, GetData, maps, heap
  <2> QED BY <1>0, <2>2, <2>3, StatusQuiet DEF HalfTcp, TcpHandle
<1>2. ASSUME NEW p \in Proc, SyncStep(p) \/ DataStep(p) PROVE StatusInv'
  <2>1. pc[p] \notin HalfTcp /\ UNCHANGED <<svrs, relay, bound>>
    BY <1>2 DEF SyncStep, SyncEnter, SyncClaim, SyncItems, SyncStops, SyncPicks,
        SyncResolves, SyncSkips, SyncCancelled, SyncFinishes, SyncMarshals,
        SyncTruncates, SyncWrites, WriteFails, DataStep, DataAnswers, DataPanics, At,
        HalfTcp, maps, heap
  <2> QED BY <1>0, <1>2, <2>1, OthersStay, StatusQuiet DEF TcpHandle
<1>3. CASE DdnsStep \/ Kill \/ UNCHANGED vars
  <2>1. UNCHANGED <<svrs, bound, pc, ctx>>
    BY <1>3 DEF Kill, vars, DdnsStep, DdnsWakes, DdnsLookup, DdnsSetsRaddr, DdnsPanics,
        DdnsSetsRule, DdnsSleeps, maps, heap
  <2>2. \A o \in Obj : relay'[o].typ = relay[o].typ /\ relay'[o].lsn = relay[o].lsn
    <3>1. CASE DdnsSetsRaddr
      BY <1>0, <3>1 DEF DdnsSetsRaddr, TypeInv, DataOK, Relay
    <3>2. CASE ~DdnsSetsRaddr
      BY <1>3, <3>2 DEF Kill, vars, DdnsStep, DdnsWakes, DdnsLookup, DdnsPanics,
          DdnsSetsRule, DdnsSleeps, heap
    <3> QED BY <3>1, <3>2
  <2>3. \A o \in Obj : TcpHandle(o)' <=> TcpHandle(o)
    BY <2>2 DEF TcpHandle
  <2>4. svrs \in [Rid -> Obj \cup {None}]
    BY <1>0 DEF TypeInv, DataOK
  <2> QED BY <2>1, <2>3, <2>4 DEF StatusInv, StatusOf, AtWork
<1>4. CASE Reboot
  BY <1>4 DEF Reboot, StatusInv, StatusOf
<1> QED BY <1>1, <1>2, <1>3, <1>4, StatusStep DEF Next

(* With a client that keeps to Serial, FreshAdds and AfterBoot, /data says *)
(* of a relay with a TCP listener, if `tcp' or `udp' is in its protocol's  *)
(* name, what is true whenever no request is at work, whatever lookups,    *)
(* failed listens, restarts and kills came before (relay.go:185-193).      *)
THEOREM StatusIsTrue ==
  ASSUME Serial, FreshAdds, AfterBoot
  PROVE  Spec => []StatusTrue
<1>1. Init => StatusInv
  BY DEF Init, StatusInv, StatusOf
<1>2. SerialInv /\ StatusInv /\ [Next]_vars => SerialInv' /\ StatusInv'
  BY SerialStep, StatusNext
<1>3. SerialInv /\ StatusInv => StatusTrue
  <2> SUFFICES ASSUME SerialInv, StatusInv, \A p \in Proc : Busy(p) => ctx[p].op = "data",
                      NEW rid \in Rid, svrs[rid] # None,
                      OpensTcp(relay[svrs[rid]].typ), Named(relay[svrs[rid]].typ)
               PROVE  OK(svrs[rid]) <=> <<svrs[rid], "tcp">> \in bound
    BY DEF StatusTrue
  <2>1. ~AtWork(rid)
    BY DEF AtWork, HalfTcp, Busy, SerialInv, TypeInv, LocalsOK, HasLocals
  <2>2. OK(svrs[rid]) <=> TcpHandle(svrs[rid])
    BY DEF OK, TcpHandle
  <2>3. <<svrs[rid], "tcp">> \in bound => "tcp" \in relay[svrs[rid]].lsn
    BY DEF SerialInv, Owned
  <2> QED BY <2>1, <2>2, <2>3 DEF StatusInv, StatusOf, TcpHandle
<1> QED BY <1>1, <1>2, <1>3, InitInv, PTL DEF Spec

-----------------------------------------------------------------------------
(* What a sync does to Rules: every rule is still to be visited, in hand,  *)
(* or done with; a rule that is done with is gone or is the one asked for. *)

(* The relay of a rule was made from the rule. *)
Match(rid) == svrs[rid] # None => /\ relay[svrs[rid]].port = rules[rid].port
                                  /\ relay[svrs[rid]].typ = rules[rid].typ

(* A goroutine that starts a rule starts the one in Rules. *)
OwnRule(p) == pc[p] \in {"restart"} \cup Starting => rules[ctx[p].rid] = ctx[p].rule

Kept(c, x) == c.req[x] # None /\ cmp(rules[x], c.req[x])
Unvisited(c, x) == c.items[x] # None /\ c.items[x] = rules[x] /\ c.new[x] = c.req[x]
InHand(p, x) == /\ pc[p] # "syncStops" /\ x = ctx[p].rid
                /\ ctx[p].items[x] = None /\ ctx[p].new[x] = ctx[p].req[x]
Done(c, x) == /\ c.items[x] = None
              /\ \/ c.new[x] = None /\ rules[x] # None /\ Kept(c, x)
                 \/ c.new[x] = c.req[x] /\ rules[x] = None

Stops(p) == \A x \in Rid : Unvisited(ctx[p], x) \/ InHand(p, x) \/ Done(ctx[p], x)
Starts(c) == \A x \in Rid : /\ c.new[x] # None => rules[x] = None /\ c.new[x] = c.req[x]
                            /\ rules[x] # None => Kept(c, x)
Given(p) == \A x \in Rid : ctx[p].req[x] # None /\ ctx[p].new[x] = None =>
              rules[x] # None \/ (pc[p] = "syncResolve" /\ x = ctx[p].rid)

Loops(p) == ctx[p].op = "sync" =>
  /\ pc[p] \in {"sync", "syncClaim", "syncItems"} => ctx[p].new = ctx[p].req
  /\ pc[p] \in StopLoop => Stops(p)
  /\ pc[p] \in StopLoop \ {"syncStops"} => InHand(p, ctx[p].rid)
  /\ pc[p] = "trafficRemove" => rules[ctx[p].rid] = None
  /\ pc[p] \in {"syncStarts"} \cup StartLoop => Starts(ctx[p]) /\ Given(p)
  /\ pc[p] = "syncResolve" => /\ ctx[p].rule = ctx[p].req[ctx[p].rid]
                              /\ rules[ctx[p].rid] = None
  /\ pc[p] = "syncMarshal" =>
       \A x \in Rid : /\ rules[x] # None => Kept(ctx[p], x)
                      /\ ctx[p].req[x] # None => rules[x] # None
  /\ pc[p] \in {"syncTruncate", "syncWrite"} => \A x \in Rid : ctx[p].items[x] = rules[x]

ExactInv == /\ \A rid \in Rid : Match(rid)
            /\ \A p \in Proc : OwnRule(p) /\ Loops(p)

(* A step of p on the rules R *)
LEMMA ExactFrame ==
  ASSUME SerialInv, ExactInv, NEW p \in Proc, NEW R \in SUBSET Rid,
         \A q \in Proc \ {p} : pc'[q] = pc[q] /\ ctx'[q] = ctx[q],
         \A q \in Proc \ {p} : Touches(q) \cap R = {},
         \A x \in Rid \ R : rules'[x] = rules[x] /\ svrs'[x] \in {svrs[x], None},
         \A x \in Rid \ R, o \in Obj : svrs[x] = o =>
           relay'[o].port = relay[o].port /\ relay'[o].typ = relay[o].typ,
         \A x \in R : Match(x)', OwnRule(p)', Loops(p)'
  PROVE  ExactInv'
<1>0. TypeInv
  BY DEF SerialInv
<1>1. ASSUME NEW x \in Rid \ R PROVE Match(x)'
  <2> SUFFICES ASSUME svrs'[x] # None
               PROVE  /\ relay'[svrs'[x]].port = rules'[x].port
                      /\ relay'[svrs'[x]].typ = rules'[x].typ
    BY DEF Match
  <2>1. svrs'[x] = svrs[x] /\ svrs[x] \in Obj
    BY <1>0 DEF TypeInv, DataOK
  <2> QED BY <2>1 DEF ExactInv, Match
<1>2. ASSUME NEW q \in Proc \ {p} PROVE OwnRule(q)' /\ Loops(q)'
  <2>1. pc[q] \in OnRule => ctx[q].rid \in Rid \ R
    BY <1>0, TouchesType
  <2>2. OwnRule(q)'
    BY <2>1 DEF ExactInv, OwnRule
  <2>3. CASE ctx[q].op = "sync" /\ pc[q] \in StopLoop \cup StartLoop \cup SyncOnly
    <3>1. R = {}
      BY <1>0, <2>3, TouchesType
    <3>2. \A x \in Rid : rules'[x] = rules[x]
      BY <3>1
    <3>3. pc[q] \in StopLoop \cup {"syncResolve"} => ctx[q].rid \in Rid \/ pc[q] = "syncStops"
      BY <2>1
    <3>4. /\ Stops(q) => Stops(q)'
          /\ Starts(ctx[q]) => Starts(ctx[q])'
          /\ Given(q) => Given(q)'
          /\ (\A x \in Rid : rules[x] # None => Kept(ctx[q], x))
                => \A x \in Rid : rules'[x] # None => Kept(ctx[q], x)'
          /\ InHand(q, ctx[q].rid) => InHand(q, ctx[q].rid)'
      BY <3>2 DEF Stops, Starts, Given, Kept, Unvisited, InHand, Done
    <3> QED BY <2>2, <2>3, <3>2, <3>3, <3>4 DEF ExactInv, Loops
  <2>4. CASE ~(ctx[q].op = "sync" /\ pc[q] \in StopLoop \cup StartLoop \cup SyncOnly)
    BY <2>2, <2>4 DEF Loops
  <2> QED BY <2>2, <2>3, <2>4
<1> QED BY <1>1, <1>2 DEF ExactInv

(* A step of p that leaves Rules alone, and the relays what they relay *)
LEMMA ExactQuiet ==
  ASSUME SerialInv, ExactInv, NEW p \in Proc, UNCHANGED rules,
         \A q \in Proc \ {p} : pc'[q] = pc[q] /\ ctx'[q] = ctx[q],
         \A x \in Rid : svrs'[x] \in {svrs[x], None},
         \A o \in Obj : relay'[o].port = relay[o].port /\ relay'[o].typ = relay[o].typ,
         OwnRule(p)', Loops(p)'
  PROVE  ExactInv'
<1>1. \A q \in Proc \ {p} : Touches(q) \cap {} = {}
  OBVIOUS
<1> HIDE DEF ExactInv, OwnRule, Loops
<1> QED BY <1>1, ExactFrame

(* A step of p, which owns the rule r, on that rule *)
LEMMA ExactOn ==
  ASSUME SerialInv, ExactInv, NEW p \in Proc, NEW r \in Rid, r \in Touches(p),
         \A q \in Proc \ {p} : pc'[q] = pc[q] /\ ctx'[q] = ctx[q],
         \A x \in Rid \ {r} : rules'[x] = rules[x] /\ svrs'[x] = svrs[x],
         \A x \in Rid \ {r}, o \in Obj : svrs[x] = o => relay'[o] = relay[o],
         Match(r)', OwnRule(p)', Loops(p)'
  PROVE  ExactInv'
<1>1. \A q \in Proc \ {p} : Touches(q) \cap {r} = {}
  BY DEF SerialInv, Disjoint
<1>2. \A x \in {r} : Match(x)'
  OBVIOUS
<1> QED BY <1>1, <1>2, ExactFrame

LEMMA StopStays ==
  ASSUME NEW p \in Proc, Loops(p), pc[p] \in StopLoop \ {"syncStops"}, UNCHANGED rules,
         ctx[p].op = "sync" => pc'[p] \in StopLoop \ {"syncStops", "trafficRemove"},
         ctx'[p].op = ctx[p].op, ctx'[p].new = ctx[p].new, ctx'[p].items = ctx[p].items,
         ctx'[p].req = ctx[p].req, ctx'[p].rid = ctx[p].rid
  PROVE  Loops(p)'
<1> SUFFICES ASSUME ctx[p].op = "sync" PROVE Loops(p)'
  BY DEF Loops
<1>1. Stops(p) /\ InHand(p, ctx[p].rid)
  BY DEF Loops
<1>2. Stops(p)' /\ InHand(p, ctx[p].rid)'
  BY <1>1 DEF Stops, InHand, Unvisited, Done, Kept
<1> QED BY <1>2 DEF Loops

LEMMA StartStays ==
  ASSUME NEW p \in Proc, Loops(p), pc[p] \in StartLoop \ {"syncResolve"}, UNCHANGED rules,
         ctx[p].op = "sync" => pc'[p] \in StartLoop \ {"syncResolve"},
         ctx'[p].op = ctx[p].op, ctx'[p].new = ctx[p].new, ctx'[p].req = ctx[p].req
  PROVE  Loops(p)'
<1> SUFFICES ASSUME ctx[p].op = "sync" PROVE Loops(p)'
  BY DEF Loops
<1>1. Starts(ctx[p]) /\ Given(p)
  BY DEF Loops
<1>2. Starts(ctx[p])' /\ Given(p)'
  BY <1>1 DEF Starts, Given, Kept
<1> QED BY <1>2 DEF Loops

LEMMA NotSync ==
  ASSUME NEW p \in Proc, ctx'[p].op # "sync"
  PROVE  Loops(p)'
  BY DEF Loops

LEMMA StartReturnsExact ==
  ASSUME TypeInv, NEW p \in Proc, StartReturns(p), Loops(p),
         pc[p] \in StartLoop \ {"syncResolve"}, UNCHANGED rules
  PROVE  OwnRule(p)' /\ Loops(p)'
<1>1. CASE ctx'[p] = NoRequest /\ pc'[p] = "idle"
  BY <1>1, NotSync DEF OwnRule, NoRequest, Request
<1>2. CASE /\ pc'[p] = "syncStarts" /\ ctx[p].op = "sync" /\ ctx'[p].op = "sync"
           /\ ctx'[p].new = ctx[p].new /\ ctx'[p].req = ctx[p].req
  <2>1. Starts(ctx[p]) /\ Given(p)
    BY <1>2 DEF Loops
  <2>2. Starts(ctx[p])' /\ Given(p)'
    BY <1>2, <2>1 DEF Starts, Given, Kept
  <2> QED BY <1>2, <2>2 DEF OwnRule, Loops
<1> QED BY <1>1, <1>2, ReturnLocals

-----------------------------------------------------------------------------
(* The steps of stop() and start() *)

LEMMA ExactStop ==
  ASSUME SerialInv, ExactInv, NEW p \in Proc,
         \/ StopLookup(p) \/ CloseStopCh(p) \/ CloseTCPListen(p) \/ CloseUDPConn(p)
         \/ SvrsRemove(p)
  PROVE  ExactInv'
<1>0. /\ TypeInv /\ ctx[p] \in Locals /\ ctx \in [Proc -> Locals] /\ pc[p] \in OnRule
      /\ HasLocals(pc[p], ctx[p]) /\ OwnRule(p) /\ Loops(p)
      /\ \A q \in Proc \ {p} : pc'[q] = pc[q] /\ ctx'[q] = ctx[q]
  BY OthersStay DEF SerialInv, TypeInv, LocalsOK, ExactInv, Step, StopLookup, CloseStopCh,
      CloseTCPListen, CloseUDPConn, SvrsRemove, At
<1>1. /\ UNCHANGED rules
      /\ ctx'[p].op = ctx[p].op /\ ctx'[p].rid = ctx[p].rid /\ ctx'[p].new = ctx[p].new
      /\ ctx'[p].items = ctx[p].items /\ ctx'[p].req = ctx[p].req
  BY <1>0 DEF StopLookup, CloseStopCh, CloseTCPListen, CloseUDPConn, SvrsRemove, maps, Locals
<1>2. \A x \in Rid : svrs'[x] \in {svrs[x], None}
  BY <1>0 DEF StopLookup, CloseStopCh, CloseTCPListen, CloseUDPConn, SvrsRemove, maps,
      TypeInv, DataOK
<1>3. \A o \in Obj : relay'[o].port = relay[o].port /\ relay'[o].typ = relay[o].typ
  <2>1. \/ UNCHANGED relay
        \/ relay' = [relay EXCEPT ![Svr(p)].stop = "closed"]
    BY DEF StopLookup, CloseStopCh, CloseTCPListen, CloseUDPConn, SvrsRemove, heap
  <2> QED BY <1>0, <2>1 DEF TypeInv, DataOK, Relay
<1>4. pc[p] \in StopLoop \ {"syncStops"} \/ (pc[p] \in Closing /\ ctx[p].op = "restart")
  BY DEF StopLookup, CloseStopCh, CloseTCPListen, CloseUDPConn, SvrsRemove, At
<1>5. /\ pc'[p] \in {"rulesSet", "rulesRemove", "closeStopCh", "closeTcp", "closeUdp",
                     "svrsRemove", "serve"}
      /\ ctx[p].op = "sync" => pc'[p] \notin {"rulesSet", "serve"}
  BY <1>0 DEF StopLookup, CloseStopCh, CloseTCPListen, CloseUDPConn, SvrsRemove, AfterStop,
      Goto, TypeInv, LocalsOK
<1>6. OwnRule(p)'
  BY <1>5 DEF OwnRule
<1>7. Loops(p)'
  <2>1. CASE ctx[p].op = "sync"
    BY <1>0, <1>1, <1>4, <1>5, <2>1, StopStays
  <2>2. CASE ctx[p].op # "sync"
    BY <1>1, <2>2, NotSync
  <2> QED BY <2>1, <2>2
<1> QED BY <1>0, <1>1, <1>2, <1>3, <1>6, <1>7, ExactQuiet

LEMMA ExactRules ==
  ASSUME SerialInv, ExactInv, NEW p \in Proc, EditRulesSet(p) \/ RulesRemove(p)
  PROVE  ExactInv'
<1>0. /\ TypeInv /\ \A q \in Proc \ {p} : pc'[q] = pc[q] /\ ctx'[q] = ctx[q]
      /\ pc[p] \in OnRule \cap Clear /\ Loops(p)
  BY OthersStay DEF SerialInv, Step, EditRulesSet, RulesRemove, At, ExactInv
<1>1. PICK r \in Rid : r = ctx[p].rid /\ r \in Touches(p) /\ svrs[r] = None
  BY <1>0, Own DEF ProcInv, Registered
<1>2. /\ UNCHANGED <<svrs, relay, ctx>> /\ \A x \in Rid \ {r} : rules'[x] = rules[x]
  BY <1>0, <1>1 DEF EditRulesSet, RulesRemove, heap, TypeInv, DataOK, RuleMap
<1>3. Match(r)'
  BY <1>1, <1>2 DEF Match
<1>4. OwnRule(p)' /\ Loops(p)'
  <2>1. CASE EditRulesSet(p)
    <3>1. pc'[p] = "getTF" /\ ctx[p].op = "edit" /\ rules'[r] = ctx[p].rule
      BY <1>0, <1>1, <2>1, Moved
      DEF EditRulesSet, At, TypeInv, LocalsOK, HasLocals, DataOK, RuleMap
    <3> QED BY <1>1, <1>2, <3>1 DEF OwnRule, Loops
  <2>2. CASE RulesRemove(p)
    <3>1. pc[p] = "rulesRemove" /\ pc'[p] = "trafficRemove" /\ rules'[r] = None
      BY <1>0, <1>1, <2>2, Moved DEF RulesRemove, At, TypeInv, DataOK, RuleMap
    <3>2. ASSUME ctx[p].op = "sync" PROVE Stops(p)' /\ InHand(p, ctx[p].rid)'
      <4>1. Stops(p) /\ InHand(p, ctx[p].rid)
        BY <1>0, <3>1, <3>2 DEF Loops
      <4>2. \A x \in Rid : x # r => (Unvisited(ctx[p], x) => Unvisited(ctx[p], x)')
                                  /\ (Done(ctx[p], x) => Done(ctx[p], x)')
        BY <1>2 DEF Unvisited, Done, Kept
      <4>3. \A x \in Rid : InHand(p, x) => InHand(p, x)'
        BY <1>2, <3>1 DEF InHand
      <4> QED BY <1>1, <1>2, <4>1, <4>2, <4>3 DEF Stops
    <3> QED BY <1>1, <1>2, <3>1, <3>2 DEF OwnRule, Loops
  <2> QED BY <2>1, <2>2
<1> QED BY <1>0, <1>1, <1>2, <1>3, <1>4, ExactOn

LEMMA ExactTraffic ==
  ASSUME SerialInv, ExactInv, NEW p \in Proc, TrafficRemove(p)
  PROVE  ExactInv'
<1>0. /\ TypeInv /\ ctx[p] \in Locals /\ ctx \in [Proc -> Locals] /\ pc[p] = "trafficRemove"
      /\ \A q \in Proc \ {p} : pc'[q] = pc[q] /\ ctx'[q] = ctx[q]
      /\ Loops(p) /\ UNCHANGED <<rules, svrs, relay>>
  BY OthersStay DEF SerialInv, TypeInv, LocalsOK, ExactInv, Step, TrafficRemove, At, heap
<1>1. CASE ctx[p].op = "sync"
  <2>1. /\ pc'[p] = "syncStops" /\ ctx'[p].op = "sync" /\ ctx'[p].new = ctx[p].new
        /\ ctx'[p].items = ctx[p].items /\ ctx'[p].req = ctx[p].req
    BY <1>0, <1>1, Moved DEF TrafficRemove, Locals
  <2>2. Stops(p) /\ InHand(p, ctx[p].rid) /\ rules[ctx[p].rid] = None
    BY <1>0, <1>1 DEF Loops
  <2>3. \A x \in Rid : Unvisited(ctx[p], x)' \/ Done(ctx[p], x)'
    BY <1>0, <2>1, <2>2 DEF Stops, Unvisited, InHand, Done, Kept
  <2>4. OwnRule(p)' /\ Loops(p)'
    BY <2>1, <2>3 DEF OwnRule, Loops, Stops
  <2> QED BY <1>0, <2>4, ExactQuiet
<1>2. CASE ctx[p].op # "sync"
  <2>1. pc'[p] = "idle" /\ ctx'[p] = NoRequest
    BY <1>0, <1>2, Moved DEF TrafficRemove
  <2>2. OwnRule(p)' /\ Loops(p)'
    BY <2>1 DEF OwnRule, Loops
  <2> QED BY <1>0, <2>2, ExactQuiet
<1> QED BY <1>1, <1>2

LEMMA ExactStart ==
  ASSUME SerialInv, ExactInv, NEW p \in Proc,
         RestartLookup(p) \/ GetTF(p) \/ SetTF(p) \/ StartFails(p)
  PROVE  ExactInv'
<1>0. /\ TypeInv /\ ctx[p] \in Locals /\ ctx \in [Proc -> Locals]
      /\ HasLocals(pc[p], ctx[p]) /\ OwnRule(p) /\ Loops(p)
      /\ \A q \in Proc \ {p} : pc'[q] = pc[q] /\ ctx'[q] = ctx[q]
      /\ UNCHANGED <<rules, svrs, relay>>
  BY OthersStay DEF SerialInv, TypeInv, LocalsOK, ExactInv, Step, RestartLookup, GetTF,
      SetTF, StartFails, maps, heap
<1>1. CASE RestartLookup(p) \/ GetTF(p) \/ SetTF(p)
  <2>1. /\ ctx'[p].op = ctx[p].op /\ ctx'[p].rid = ctx[p].rid /\ ctx'[p].new = ctx[p].new
        /\ ctx'[p].req = ctx[p].req /\ ctx'[p].rule = ctx[p].rule
    BY <1>0, <1>1 DEF RestartLookup, GetTF, SetTF, Locals
  <2>2. /\ pc[p] \in {"restart", "getTF", "setTF"} /\ pc'[p] \in Starting \cup {"closeStopCh"}
        /\ pc[p] = "restart" => ctx[p].op = "restart"
        /\ pc[p] # "restart" => pc'[p] \in Starting
    BY <1>0, <1>1 DEF RestartLookup, GetTF, SetTF, At, Goto, TypeInv, LocalsOK, HasLocals
  <2>3. OwnRule(p)'
    BY <1>0, <2>1, <2>2 DEF OwnRule
  <2>4. Loops(p)'
    <3>1. CASE ctx[p].op = "sync"
      BY <1>0, <2>1, <2>2, <3>1, StartStays
    <3>2. CASE ctx[p].op # "sync"
      BY <2>1, <3>2, NotSync
    <3> QED BY <3>1, <3>2
  <2> QED BY <1>0, <2>3, <2>4, ExactQuiet
<1>2. CASE StartFails(p)
  <2>1. OwnRule(p)' /\ Loops(p)'
    BY <1>0, <1>2, StartReturnsExact DEF StartFails, At
  <2> QED BY <1>0, <2>1, ExactQuiet
<1> QED BY <1>1, <1>2

LEMMA ExactSvrsSet ==
  ASSUME SerialInv, ExactInv, NEW p \in Proc, SvrsSet(p)
  PROVE  ExactInv'
<1>0. /\ TypeInv /\ ctx[p] \in Locals /\ ctx \in [Proc -> Locals] /\ pc[p] = "svrsSet"
      /\ OwnRule(p) /\ Loops(p) /\ UNCHANGED rules
      /\ \A q \in Proc \ {p} : pc'[q] = pc[q] /\ ctx'[q] = ctx[q]
  BY OthersStay DEF SerialInv, TypeInv, LocalsOK, ExactInv, Step, SvrsSet, At
<1>1. PICK r \in Rid : r = ctx[p].rid /\ r \in Touches(p)
  BY <1>0, Own
<1>2. PICK o \in Obj : /\ FreshObj(o)
                      /\ relay' = [relay EXCEPT ![o] = NewRelay(p)]
                      /\ svrs' = [svrs EXCEPT ![r] = o]
                      /\ ctx' = [ctx EXCEPT ![p].svr = o]
                      /\ Goto(p, "serve")
  BY <1>1 DEF SvrsSet
<1>3. /\ svrs'[r] = o /\ \A x \in Rid \ {r} : svrs'[x] = svrs[x]
      /\ relay'[o] = NewRelay(p) /\ \A i \in Obj \ {o} : relay'[i] = relay[i]
  BY <1>0, <1>1, <1>2 DEF TypeInv, DataOK
<1>4. \A x \in Rid \ {r}, i \in Obj : svrs[x] = i => relay'[i] = relay[i]
  BY <1>2, <1>3 DEF FreshObj
<1>5. Match(r)'
  BY <1>0, <1>1, <1>3 DEF Match, NewRelay, OwnRule
<1>6. /\ pc'[p] = "serve" /\ ctx'[p].op = ctx[p].op /\ ctx'[p].new = ctx[p].new
      /\ ctx'[p].req = ctx[p].req
  BY <1>0, <1>2, Moved DEF Locals
<1>7. OwnRule(p)' /\ Loops(p)'
  BY <1>0, <1>6, StartStays DEF OwnRule
<1> QED BY <1>0, <1>1, <1>3, <1>4, <1>5, <1>7, ExactOn

LEMMA ExactServe ==
  ASSUME SerialInv, ExactInv, NEW p \in Proc, Serve(p) \/ ListenTCP(p) \/ ListenUDP(p)
  PROVE  ExactInv'
<1>0. /\ TypeInv /\ pc[p] \in Serving /\ Loops(p) /\ UNCHANGED <<rules, svrs>>
      /\ \A q \in Proc \ {p} : pc'[q] = pc[q] /\ ctx'[q] = ctx[q]
  BY OthersStay DEF SerialInv, ExactInv, Step, Serve, ListenTCP, ListenUDP, At, maps
<1>1. PICK o \in Obj : o = Svr(p) /\ relay[o] \in Relay
  BY <1>0, CloseType
<1>2. \A i \in Obj : relay'[i].port = relay[i].port /\ relay'[i].typ = relay[i].typ
  <2>1. \/ relay' = [relay EXCEPT ![o].stop = "open"]
        \/ \E S : relay' = [relay EXCEPT ![o].lsn = S]
    BY <1>1 DEF Serve, ListenTCP, ListenUDP, Listens, ListenFails
  <2> QED BY <1>0, <1>1, <2>1 DEF TypeInv, DataOK, Relay
<1>3. CASE StartReturns(p)
  <2>1. OwnRule(p)' /\ Loops(p)'
    BY <1>0, <1>3, StartReturnsExact
  <2> QED BY <1>0, <1>2, <2>1, ExactQuiet
<1>4. ASSUME NEW l \in {"listenTcp", "listenUdp"}, Goto(p, l), UNCHANGED ctx
      PROVE  ExactInv'
  <2>1. pc'[p] = l
    BY <1>0, <1>4, Moved
  <2>2. OwnRule(p)' /\ Loops(p)'
    BY <1>0, <1>4, <2>1, StartStays DEF OwnRule
  <2> QED BY <1>0, <1>2, <2>2, ExactQuiet
<1> QED BY <1>3, <1>4 DEF Serve, Dispatch, ListenTCP, ListenUDP

LEMMA ExactStep ==
  ASSUME SerialInv, ExactInv, NEW p \in Proc, Step(p)
  PROVE  ExactInv'
  BY NoClosePanic, ExactStop, ExactRules, ExactTraffic, ExactStart, ExactSvrsSet, ExactServe
  DEF Step

-----------------------------------------------------------------------------
(* The steps of sync() itself *)

LEMMA ExactStops ==
  ASSUME SerialInv, ExactInv, NEW p \in Proc, SyncStops(p)
  PROVE  ExactInv'
<1>0. /\ TypeInv /\ ctx[p] \in Locals /\ ctx \in [Proc -> Locals] /\ pc[p] = "syncStops"
      /\ ctx[p].op = "sync" /\ UNCHANGED <<rules, svrs, relay>>
      /\ \A q \in Proc \ {p} : pc'[q] = pc[q] /\ ctx'[q] = ctx[q]
  BY OthersStay DEF SerialInv, TypeInv, LocalsOK, HasLocals, SyncStep, SyncStops, At,
      maps, heap
<1>1. \A x \in Rid : Unvisited(ctx[p], x) \/ Done(ctx[p], x)
  BY <1>0 DEF ExactInv, Loops, Stops, InHand
<1>2. ASSUME NEW rid \in Rid, ctx[p].items[rid] # None, SyncKeeps(p, rid) PROVE ExactInv'
  <2>1. /\ pc'[p] = "syncStops" /\ ctx'[p].op = "sync" /\ ctx'[p].req = ctx[p].req
        /\ ctx'[p].new = [ctx[p].new EXCEPT ![rid] = None]
        /\ ctx'[p].items = [ctx[p].items EXCEPT ![rid] = None]
        /\ ctx[p].new[rid] # None /\ cmp(ctx[p].new[rid], ctx[p].items[rid])
    BY <1>0, <1>2 DEF SyncKeeps, Locals
  <2>2. /\ ctx'[p].new[rid] = None /\ ctx'[p].items[rid] = None
        /\ \A x \in Rid \ {rid} : /\ ctx'[p].new[x] = ctx[p].new[x]
                                  /\ ctx'[p].items[x] = ctx[p].items[x]
    BY <1>0, <2>1 DEF Locals, RuleMap
  <2>3. ctx[p].items[rid] = rules[rid] /\ ctx[p].new[rid] = ctx[p].req[rid]
    BY <1>1, <1>2 DEF Unvisited, Done
  <2>4. Done(ctx[p], rid)'
    BY <1>0, <1>2, <2>1, <2>2, <2>3 DEF Done, Kept, cmp
  <2>5. \A x \in Rid \ {rid} : Unvisited(ctx[p], x)' \/ Done(ctx[p], x)'
    BY <1>0, <1>1, <2>1, <2>2 DEF Unvisited, Done, Kept
  <2>6. OwnRule(p)' /\ Loops(p)'
    BY <2>1, <2>4, <2>5 DEF OwnRule, Loops, Stops
  <2> QED BY <1>0, <2>6, ExactQuiet
<1>3. ASSUME NEW rid \in Rid, ctx[p].items[rid] # None, SyncDrops(p, rid) PROVE ExactInv'
  <2>1. /\ pc'[p] = "stop" /\ ctx'[p].op = "sync" /\ ctx'[p].req = ctx[p].req
        /\ ctx'[p].new = ctx[p].new /\ ctx'[p].rid = rid
        /\ ctx'[p].items = [ctx[p].items EXCEPT ![rid] = None]
    BY <1>0, <1>3, Moved DEF SyncDrops, Locals
  <2>2. /\ ctx'[p].items[rid] = None
        /\ \A x \in Rid \ {rid} : ctx'[p].items[x] = ctx[p].items[x]
    BY <1>0, <2>1 DEF Locals, RuleMap
  <2>3. InHand(p, rid)'
    BY <1>1, <1>3, <2>1, <2>2 DEF Unvisited, Done, InHand
  <2>4. \A x \in Rid \ {rid} : Unvisited(ctx[p], x)' \/ Done(ctx[p], x)'
    BY <1>0, <1>1, <2>1, <2>2 DEF Unvisited, Done, Kept
  <2>5. InHand(p, ctx[p].rid)'
    BY <2>1, <2>3 DEF InHand
  <2>6. OwnRule(p)' /\ Loops(p)'
    BY <2>1, <2>3, <2>4, <2>5 DEF OwnRule, Loops, Stops
  <2> QED BY <1>0, <2>6, ExactQuiet
<1>4. ASSUME ctx[p].items = NoRules, Goto(p, "syncStarts"), UNCHANGED ctx PROVE ExactInv'
  <2>1. pc'[p] = "syncStarts" /\ \A x \in Rid : Done(ctx[p], x)
    BY <1>0, <1>1, <1>4, Moved, NoRulesType DEF Unvisited
  <2>2. Starts(ctx[p])' /\ Given(p)'
    BY <1>0, <1>4, <2>1 DEF Starts, Given, Done, Kept
  <2>3. OwnRule(p)' /\ Loops(p)'
    BY <2>1, <2>2 DEF OwnRule, Loops
  <2> QED BY <1>0, <2>3, ExactQuiet
<1> QED BY <1>2, <1>3, <1>4 DEF SyncStops

LEMMA ExactPicks ==
  ASSUME SerialInv, ExactInv, NEW p \in Proc, SyncPicks(p)
  PROVE  ExactInv'
<1>0. /\ TypeInv /\ ctx[p] \in Locals /\ ctx \in [Proc -> Locals] /\ pc[p] = "syncStarts"
      /\ ctx[p].op = "sync" /\ UNCHANGED <<rules, svrs, relay>>
      /\ \A q \in Proc \ {p} : pc'[q] = pc[q] /\ ctx'[q] = ctx[q]
  BY OthersStay DEF SerialInv, TypeInv, LocalsOK, HasLocals, SyncStep, SyncPicks, At,
      maps, heap
<1>1. Starts(ctx[p]) /\ Given(p)
  BY <1>0 DEF ExactInv, Loops
<1>2. PICK rid \in Rid :
        /\ ctx[p].new[rid] # None
        /\ ctx' = [ctx EXCEPT ![p].new[rid] = None, ![p].rid = rid,
                              ![p].rule = ctx[p].new[rid]]
        /\ Goto(p, "syncResolve")
  BY DEF SyncPicks
<1>3. /\ pc'[p] = "syncResolve" /\ ctx'[p].op = "sync" /\ ctx'[p].req = ctx[p].req
      /\ ctx'[p].rid = rid /\ ctx'[p].rule = ctx[p].new[rid]
      /\ ctx'[p].new[rid] = None /\ \A x \in Rid \ {rid} : ctx'[p].new[x] = ctx[p].new[x]
  BY <1>0, <1>2, Moved DEF Locals, RuleMap
<1>4. Starts(ctx[p])' /\ Given(p)'
  BY <1>0, <1>1, <1>3 DEF Starts, Given, Kept
<1>5. ctx'[p].rule = ctx'[p].req[rid] /\ rules[rid] = None
  BY <1>1, <1>2, <1>3 DEF Starts
<1>6. OwnRule(p)' /\ Loops(p)'
  BY <1>0, <1>3, <1>4, <1>5 DEF OwnRule, Loops
<1> QED BY <1>0, <1>6, ExactQuiet

LEMMA ExactResolves ==
  ASSUME SerialInv, ExactInv, NEW p \in Proc, SyncResolves(p)
  PROVE  ExactInv'
<1>0. /\ TypeInv /\ ctx[p] \in Locals /\ ctx \in [Proc -> Locals] /\ pc[p] = "syncResolve"
      /\ ctx[p].op = "sync" /\ UNCHANGED <<svrs, relay>> /\ ctx[p].rule \in Rule
      /\ \A q \in Proc \ {p} : pc'[q] = pc[q] /\ ctx'[q] = ctx[q]
  BY OthersStay DEF SerialInv, TypeInv, LocalsOK, HasLocals, SyncStep, SyncResolves, At, heap
<1>1. PICK r \in Rid : /\ r = ctx[p].rid /\ r \in Touches(p) /\ svrs[r] = None
                      /\ ctx[p].new[r] = None
  BY <1>0, Own DEF ProcInv, Registered, SyncLoops
<1>2. PICK ip \in IP \cup {ctx[p].rule.rip} :
        /\ rules' = [rules EXCEPT ![r] = [ctx[p].rule EXCEPT !.rip = ip]]
        /\ ctx' = [ctx EXCEPT ![p].rule = [ctx[p].rule EXCEPT !.rip = ip]]
        /\ Goto(p, "getTF")
  BY <1>1 DEF SyncResolves
<1>3. /\ rules'[r] = [ctx[p].rule EXCEPT !.rip = ip]
      /\ \A x \in Rid \ {r} : rules'[x] = rules[x]
  BY <1>0, <1>1, <1>2 DEF TypeInv, DataOK, RuleMap
<1>4. /\ pc'[p] = "getTF" /\ ctx'[p].op = "sync" /\ ctx'[p].req = ctx[p].req
      /\ ctx'[p].new = ctx[p].new /\ ctx'[p].rid = r
      /\ ctx'[p].rule = [ctx[p].rule EXCEPT !.rip = ip]
  BY <1>0, <1>1, <1>2, Moved DEF Locals
<1>5. Starts(ctx[p]) /\ Given(p) /\ ctx[p].rule = ctx[p].req[r]
  BY <1>0, <1>1 DEF ExactInv, Loops
<1>6. ctx[p].req[r] # None /\ cmp(rules'[r], ctx[p].req[r])
  BY <1>0, <1>3, <1>5, ConstantsAssumption DEF cmp, Rule
<1>7. Starts(ctx[p])' /\ Given(p)'
  <2>1. rules'[r] # None
    BY <1>0, <1>3, ConstantsAssumption DEF cmp, Rule
  <2> QED BY <1>1, <1>3, <1>4, <1>5, <1>6, <2>1 DEF Starts, Given, Kept
<1>8. OwnRule(p)' /\ Loops(p)' /\ Match(r)'
  BY <1>0, <1>1, <1>3, <1>4, <1>7 DEF OwnRule, Loops, Match
<1> QED BY <1>0, <1>1, <1>3, <1>8, ExactOn

LEMMA ExactSync ==
  ASSUME SerialInv, ExactInv, NEW p \in Proc, SyncStep(p)
  PROVE  ExactInv'
<1>0. /\ TypeInv /\ ctx[p] \in Locals /\ ctx \in [Proc -> Locals] /\ pc \in [Proc -> Labels]
      /\ HasLocals(pc[p], ctx[p]) /\ Loops(p)
      /\ \A q \in Proc \ {p} : pc'[q] = pc[q] /\ ctx'[q] = ctx[q]
  BY OthersStay DEF SerialInv, TypeInv, LocalsOK, ExactInv
<1>1. ASSUME UNCHANGED <<rules, svrs, relay>>, OwnRule(p)', Loops(p)' PROVE ExactInv'
  BY <1>0, <1>1, ExactQuiet
<1>2. CASE SyncEnter(p) \/ SyncClaim(p)
  <2>1. /\ UNCHANGED <<rules, svrs, relay, ctx>> /\ pc[p] \in {"sync", "syncClaim"}
        /\ pc'[p] \in {"syncClaim", "syncItems"}
    BY <1>0, <1>2 DEF SyncEnter, SyncClaim, At, Goto, maps, heap
  <2>2. OwnRule(p)' /\ Loops(p)'
    BY <1>0, <2>1 DEF OwnRule, Loops
  <2> QED BY <1>1, <2>1, <2>2
<1>3. CASE SyncItems(p)
  <2>1. /\ UNCHANGED <<rules, svrs, relay>> /\ pc[p] = "syncItems" /\ pc'[p] = "syncStops"
        /\ ctx'[p].items = rules /\ ctx'[p].new = ctx[p].new /\ ctx'[p].req = ctx[p].req
        /\ ctx[p].op = "sync"
    BY <1>0, <1>3 DEF SyncItems, At, Goto, maps, heap, Locals, HasLocals
  <2>2. ctx[p].new = ctx[p].req
    BY <1>0, <2>1 DEF Loops
  <2>3. \A x \in Rid : Unvisited(ctx[p], x)' \/ Done(ctx[p], x)'
    BY <2>1, <2>2 DEF Unvisited, Done
  <2>4. OwnRule(p)' /\ Loops(p)'
    BY <2>1, <2>3 DEF OwnRule, Loops, Stops
  <2> QED BY <1>1, <2>1, <2>4
<1>4. CASE SyncSkips(p)
  <2>0. /\ UNCHANGED <<rules, svrs, relay>> /\ pc[p] = "syncResolve"
        /\ pc'[p] = "syncStarts" /\ ctx[p].op = "sync"
    BY <1>0, <1>4 DEF SyncSkips, At, Goto, maps, heap, HasLocals
  <2>1. PICK r \in Rid : r = ctx[p].rid /\ ctx[p].new[r] = None
    BY <2>0, Own DEF ProcInv, SyncLoops
  <2>2. /\ ctx'[p].op = "sync" /\ ctx'[p].new = ctx[p].new /\ ctx'[p].req[r] = None
        /\ \A x \in Rid \ {r} : ctx'[p].req[x] = ctx[p].req[x]
    BY <1>0, <1>4, <2>0, <2>1 DEF SyncSkips, Locals, RuleMap
  <2>3. Starts(ctx[p]) /\ Given(p) /\ rules[r] = None
    BY <1>0, <2>0, <2>1 DEF Loops
  <2>4. Starts(ctx[p])' /\ Given(p)'
    BY <2>0, <2>1, <2>2, <2>3 DEF Starts, Given, Kept
  <2>5. OwnRule(p)' /\ Loops(p)'
    BY <2>0, <2>4 DEF OwnRule, Loops
  <2> QED BY <1>1, <2>0, <2>5
<1>5. CASE SyncCancelled(p) \/ SyncWrites(p) \/ WriteFails(p)
  <2>1. UNCHANGED <<rules, svrs, relay>> /\ pc'[p] = "idle" /\ ctx'[p] = NoRequest
    BY <1>0, <1>5 DEF SyncCancelled, SyncWrites, WriteFails, SyncReturns, Goto, maps, heap
  <2>2. OwnRule(p)' /\ Loops(p)'
    BY <2>1 DEF OwnRule, Loops
  <2> QED BY <1>1, <2>1, <2>2
<1>6. CASE SyncFinishes(p)
  <2>1. /\ UNCHANGED <<rules, svrs, relay, ctx>> /\ pc[p] = "syncStarts"
        /\ pc'[p] = "syncMarshal" /\ \A x \in Rid : ctx[p].new[x] = None
    BY <1>0, <1>6, NoRulesType DEF SyncFinishes, At, Goto, maps, heap
  <2>2. ctx[p].op = "sync" =>
          \A x \in Rid : /\ rules'[x] # None => Kept(ctx[p], x)'
                         /\ ctx[p].req[x] # None => rules[x] # None
    BY <1>0, <2>1 DEF Loops, Starts, Given, Kept
  <2>3. OwnRule(p)' /\ Loops(p)'
    BY <2>1, <2>2 DEF OwnRule, Loops
  <2> QED BY <1>1, <2>1, <2>3
<1>7. CASE SyncMarshals(p) \/ SyncTruncates(p)
  <2>1. /\ UNCHANGED <<rules, svrs, relay>> /\ pc'[p] \in {"syncTruncate", "syncWrite"}
        /\ \A x \in Rid : ctx'[p].items[x] = rules[x]
    BY <1>0, <1>7
    DEF SyncMarshals, SyncTruncates, At, Goto, maps, heap, Locals, Loops, HasLocals
  <2>2. OwnRule(p)' /\ Loops(p)'
    BY <2>1 DEF OwnRule, Loops
  <2> QED BY <1>1, <2>1, <2>2
<1> QED BY <1>2, <1>3, <1>4, <1>5, <1>6, <1>7, ExactStops, ExactPicks, ExactResolves
        DEF SyncStep

LEMMA ExactAccept ==
  ASSUME Serial, FreshAdds, AfterBoot, SerialInv, ExactInv, NEW h \in Handler, Accept(h)
  PROVE  ExactInv'
<1>0. TypeInv /\ h \in Proc
  BY DEF SerialInv, Proc
<1>1. CASE PostAdd(h)
  <2>1. PICK rid \in Rid, r \in Parsed :
         /\ Admit(h, "add", {rid})
         /\ Begin(h, "getTF", Request("add", rid, r, NoRules))
         /\ rules' = [rules EXCEPT ![rid] = r]
         /\ UNCHANGED <<svrs, relay>>
    BY <1>1 DEF PostAdd, heap
  <2>2. svrs[rid] = None /\ \A q \in Proc \ {h} : Touches(q) \cap {rid} = {}
    BY <2>1, Admitted DEF Admit
  <2>3. rules'[rid] = r /\ \A x \in Rid \ {rid} : rules'[x] = rules[x]
    BY <1>0, <2>1 DEF TypeInv, DataOK, RuleMap
  <2>4. /\ pc'[h] = "getTF" /\ ctx'[h] = Request("add", rid, r, NoRules)
        /\ \A q \in Proc \ {h} : pc'[q] = pc[q] /\ ctx'[q] = ctx[q]
    BY <1>0, <2>1, BeginStep
  <2>5. OwnRule(h)' /\ Loops(h)' /\ \A x \in {rid} : Match(x)'
    BY <2>1, <2>2, <2>3, <2>4 DEF OwnRule, Loops, Match, Request
  <2> QED BY <1>0, <2>1, <2>2, <2>3, <2>4, <2>5, ExactFrame
<1>2. ASSUME NEW l, NEW c, Begin(h, l, c), UNCHANGED <<rules, svrs, relay>>,
             l \in {"stop", "data"} \/ (l = "restart" /\ rules[c.rid] = c.rule)
               \/ (l = "sync" /\ c.new = c.req),
             l # "sync" => c.op # "sync"
      PROVE  ExactInv'
  <2>1. /\ pc'[h] = l /\ ctx'[h] = c
        /\ \A q \in Proc \ {h} : pc'[q] = pc[q] /\ ctx'[q] = ctx[q]
    BY <1>0, <1>2, BeginStep
  <2>2. OwnRule(h)' /\ Loops(h)'
    BY <1>2, <2>1 DEF OwnRule, Loops
  <2> QED BY <1>0, <1>2, <2>1, <2>2, ExactQuiet
<1>3. CASE PostEdit(h)
  BY <1>2, <1>3 DEF PostEdit, Request, maps, heap
<1>4. CASE PostDel(h)
  BY <1>2, <1>4 DEF PostDel, Request, maps, heap
<1>5. CASE PostRestart(h)
  BY <1>2, <1>5 DEF PostRestart, Request, maps, heap
<1>6. CASE PostSync(h)
  BY <1>2, <1>6 DEF PostSync, Request, maps, heap
<1>7. CASE GetData(h)
  BY <1>2, <1>7 DEF GetData, Request, maps, heap
<1> QED BY <1>1, <1>3, <1>4, <1>5, <1>6, <1>7 DEF Accept

LEMMA ExactInit == Init => ExactInv
<1> SUFFICES ASSUME Init PROVE ExactInv
  OBVIOUS
<1>1. /\ \A rid \in Rid : svrs[rid] = None
      /\ \A p \in Proc : /\ pc[p] \in {"sync", "idle"}
                         /\ ctx[p].op = "sync" => ctx[p].new = ctx[p].req
  BY DEF Init, BootPc, BootCtx, NoRequest, Request
<1> QED BY <1>1 DEF ExactInv, Match, OwnRule, Loops

LEMMA ExactNext ==
  ASSUME Serial, FreshAdds, AfterBoot, SerialInv, StillInv, ExactInv, [Next]_vars
  PROVE  ExactInv'
<1>0. TypeInv
  BY DEF SerialInv
<1>1. ASSUME NEW p \in Proc, DataStep(p) PROVE ExactInv'
  <2>1. /\ UNCHANGED <<rules, svrs, relay>> /\ pc'[p] \in {"idle", "panicked"}
        /\ ctx[p].op = "data" /\ ctx'[p] \in {ctx[p], NoRequest}
    BY <1>0, <1>1
    DEF DataStep, DataAnswers, DataPanics, At, Goto, maps, heap, TypeInv, LocalsOK, HasLocals
  <2>2. OwnRule(p)' /\ Loops(p)'
    BY <2>1 DEF OwnRule, Loops, NoRequest, Request
  <2> QED BY <1>0, <1>1, <2>1, <2>2, OthersStay, ExactQuiet
<1>2. CASE DdnsStep \/ Kill \/ UNCHANGED vars
  <2>1. UNCHANGED <<rules, svrs, relay, pc, ctx>>
    BY <1>2 DEF StillInv, Kill, vars, DdnsStep, DdnsWakes, DdnsLookup, DdnsSetsRaddr,
        DdnsPanics, DdnsSetsRule, DdnsSleeps, maps, heap
  <2> QED BY <2>1 DEF ExactInv, Match, OwnRule, Loops, Stops, InHand, Unvisited, Done,
          Kept, Starts, Given
<1>3. CASE Reboot
  <2>1. /\ svrs' = [rid \in Rid |-> None] /\ pc' = BootPc(file) /\ ctx' = BootCtx(file)
    BY <1>3 DEF Reboot
  <2>2. /\ \A rid \in Rid : svrs'[rid] = None
        /\ \A p \in Proc : /\ pc'[p] \in {"sync", "idle"}
                           /\ ctx'[p].op = "sync" => ctx'[p].new = ctx'[p].req
    BY <2>1 DEF BootPc, BootCtx, NoRequest, Request
  <2> QED BY <2>2 DEF ExactInv, Match, OwnRule, Loops
<1> QED BY <1>1, <1>2, <1>3, ExactAccept, ExactStep, ExactSync DEF Next

-----------------------------------------------------------------------------
(* A rule has its relay, or a goroutine is about to start or remove it, or *)
(* NewRelay refused it.                                                    *)

Pending == {"rulesSet", "rulesRemove"} \cup Starting
Pends(rid) == \E p \in Proc : pc[p] \in Pending /\ ctx[p].rid = rid
Started(rid) == rules[rid] # None =>
                  svrs[rid] # None \/ NewRelayFails(rules[rid]) \/ Pends(rid)
StartedInv == \A rid \in Rid : Started(rid)

USE DEF Pending

(* A step of p that changes the entries of the rules R only *)
LEMMA StartedFrame ==
  ASSUME StartedInv, NEW p \in Proc, NEW R \in SUBSET Rid,
         \A q \in Proc \ {p} : pc'[q] = pc[q] /\ ctx'[q] = ctx[q],
         \A x \in Rid \ R : rules'[x] = rules[x] /\ svrs'[x] = svrs[x],
         pc[p] \in Pending => ctx[p].rid \in R,
         \A x \in R : Started(x)'
  PROVE  StartedInv'
<1> SUFFICES ASSUME NEW x \in Rid \ R, rules[x] # None
             PROVE  svrs[x] # None \/ NewRelayFails(rules[x]) \/ Pends(x)'
  BY DEF StartedInv, Started, NewRelayFails
<1>1. svrs[x] # None \/ NewRelayFails(rules[x]) \/ Pends(x)
  BY DEF StartedInv, Started
<1>2. Pends(x) => Pends(x)'
  BY DEF Pends
<1> QED BY <1>1, <1>2

(* A step of p that leaves the rules and their relays alone, with no rule  *)
(* pending on p before it                                                  *)
LEMMA StartedQuiet ==
  ASSUME StartedInv, NEW p \in Proc, UNCHANGED <<rules, svrs>>, pc[p] \notin Pending,
         \A q \in Proc \ {p} : pc'[q] = pc[q] /\ ctx'[q] = ctx[q]
  PROVE  StartedInv'
<1>1. {} \in SUBSET Rid /\ \A x \in {} : Started(x)'
  OBVIOUS
<1>2. \A x \in Rid \ {} : rules'[x] = rules[x] /\ svrs'[x] = svrs[x]
  OBVIOUS
<1> QED BY <1>1, <1>2, StartedFrame

(* A step of p on the rule it works on *)
LEMMA StartedOn ==
  ASSUME StartedInv, NEW p \in Proc, NEW r \in Rid, r = ctx[p].rid,
         \A q \in Proc \ {p} : pc'[q] = pc[q] /\ ctx'[q] = ctx[q],
         \A x \in Rid \ {r} : rules'[x] = rules[x] /\ svrs'[x] = svrs[x],
         Started(r)'
  PROVE  StartedInv'
<1>1. {r} \in SUBSET Rid /\ \A x \in {r} : Started(x)'
  OBVIOUS
<1> QED BY <1>1, StartedFrame

LEMMA StartedStep ==
  ASSUME SerialInv, ExactInv, StartedInv, NEW p \in Proc, Step(p)
  PROVE  StartedInv'
<1>0. /\ TypeInv /\ ctx[p] \in Locals /\ HasLocals(pc[p], ctx[p]) /\ OwnRule(p)
      /\ \A q \in Proc \ {p} : pc'[q] = pc[q] /\ ctx'[q] = ctx[q]
      /\ pc \in [Proc -> Labels] /\ ctx \in [Proc -> Locals]
      /\ rules \in RuleMap /\ svrs \in [Rid -> Obj \cup {None}]
  BY OthersStay DEF SerialInv, TypeInv, LocalsOK, DataOK, ExactInv
<1>1. CASE \/ StopLookup(p) \/ RestartLookup(p) \/ CloseStopCh(p) \/ CloseTCPListen(p)
           \/ CloseUDPConn(p) \/ TrafficRemove(p) \/ Serve(p) \/ ListenTCP(p) \/ ListenUDP(p)
  <2>1. UNCHANGED <<rules, svrs>> /\ pc[p] \notin Pending
    BY <1>1 DEF StopLookup, RestartLookup, CloseStopCh, CloseTCPListen, CloseUDPConn,
        TrafficRemove, Serve, ListenTCP, ListenUDP, At, maps
  <2> QED BY <1>0, <2>1, StartedQuiet
<1>2. CASE SvrsRemove(p) \/ EditRulesSet(p) \/ RulesRemove(p) \/ GetTF(p) \/ SetTF(p)
           \/ SvrsSet(p) \/ StartFails(p)
  <2>1. PICK r \in Rid : r = ctx[p].rid
    <3>1. pc[p] \in OnRule
      BY <1>2 DEF SvrsRemove, EditRulesSet, RulesRemove, GetTF, SetTF, SvrsSet, StartFails, At
    <3> QED BY <3>1, Own
  <2>2. ASSUME \A x \in Rid \ {r} : rules'[x] = rules[x] /\ svrs'[x] = svrs[x], Started(r)'
        PROVE  StartedInv'
    BY <1>0, <2>1, <2>2, StartedOn
  <2>3. ASSUME pc'[p] \in Pending, ctx'[p].rid = r PROVE Started(r)'
    BY <2>3 DEF Started, Pends
  <2>4. CASE SvrsRemove(p)
    <3>1. /\ \A x \in Rid \ {r} : rules'[x] = rules[x] /\ svrs'[x] = svrs[x]
          /\ pc'[p] \in Pending /\ ctx'[p].rid = r
      BY <1>0, <2>1, <2>4 DEF SvrsRemove, Goto, AfterStop, Locals
    <3> QED BY <2>2, <2>3, <3>1
  <2>5. CASE EditRulesSet(p)
    <3>1. /\ \A x \in Rid \ {r} : rules'[x] = rules[x] /\ svrs'[x] = svrs[x]
          /\ pc'[p] \in Pending /\ ctx'[p].rid = r
      BY <1>0, <2>1, <2>5 DEF EditRulesSet, Goto, RuleMap
    <3> QED BY <2>2, <2>3, <3>1
  <2>6. CASE RulesRemove(p)
    <3>1. /\ \A x \in Rid \ {r} : rules'[x] = rules[x] /\ svrs'[x] = svrs[x]
          /\ rules'[r] = None
      BY <1>0, <2>1, <2>6 DEF RulesRemove, RuleMap
    <3> QED BY <2>2, <3>1 DEF Started
  <2>7. CASE GetTF(p) \/ SetTF(p)
    <3>1. /\ UNCHANGED <<rules, svrs>> /\ pc'[p] \in Pending /\ ctx'[p].rid = r
      BY <1>0, <2>1, <2>7 DEF GetTF, SetTF, Goto, maps, Locals
    <3> QED BY <2>2, <2>3, <3>1
  <2>8. CASE SvrsSet(p)
    <3>1. PICK o \in Obj : svrs' = [svrs EXCEPT ![r] = o] /\ UNCHANGED rules
      BY <2>1, <2>8 DEF SvrsSet
    <3>2. svrs'[r] # None /\ \A x \in Rid \ {r} : svrs'[x] = svrs[x]
      BY <1>0, <3>1, ConstantsAssumption
    <3> QED BY <2>2, <3>1, <3>2 DEF Started
  <2>9. CASE StartFails(p)
    <3>1. UNCHANGED <<rules, svrs>> /\ NewRelayFails(rules[r])
      BY <1>0, <2>1, <2>9 DEF StartFails, At, maps, OwnRule
    <3> QED BY <2>2, <3>1 DEF Started, NewRelayFails
  <2> QED BY <1>2, <2>4, <2>5, <2>6, <2>7, <2>8, <2>9
<1> QED BY <1>1, <1>2, NoClosePanic DEF Step

LEMMA StartedSync ==
  ASSUME SerialInv, StartedInv, NEW p \in Proc, SyncStep(p)
  PROVE  StartedInv'
<1>0. /\ TypeInv /\ \A q \in Proc \ {p} : pc'[q] = pc[q] /\ ctx'[q] = ctx[q]
      /\ pc \in [Proc -> Labels] /\ ctx \in [Proc -> Locals]
      /\ rules \in RuleMap /\ svrs \in [Rid -> Obj \cup {None}]
  BY OthersStay DEF SerialInv, TypeInv, LocalsOK, DataOK
<1>1. CASE SyncResolves(p)
  <2>1. pc[p] = "syncResolve" /\ pc[p] \in OnRule
    BY <1>1 DEF SyncResolves, At
  <2>2. PICK r \in Rid : r = ctx[p].rid
    BY <2>1, Own
  <2>3. /\ \A x \in Rid \ {r} : rules'[x] = rules[x] /\ svrs'[x] = svrs[x]
        /\ pc'[p] = "getTF" /\ ctx'[p].rid = r
    BY <1>0, <1>1, <2>2 DEF SyncResolves, Goto, RuleMap, Locals
  <2>4. Started(r)'
    BY <2>3 DEF Started, Pends
  <2> QED BY <1>0, <2>2, <2>3, <2>4, StartedOn
<1>2. CASE ~SyncResolves(p)
  <2>1. UNCHANGED <<rules, svrs>> /\ pc[p] \notin Pending
    BY <1>2 DEF SyncStep, SyncEnter, SyncClaim, SyncItems, SyncStops, SyncPicks, SyncSkips,
        SyncCancelled, SyncFinishes, SyncMarshals, SyncTruncates, SyncWrites, WriteFails,
        At, maps
  <2> QED BY <1>0, <2>1, StartedQuiet
<1> QED BY <1>1, <1>2

LEMMA StartedNext ==
  ASSUME SerialInv, StillInv, ExactInv, StartedInv, [Next]_vars
  PROVE  StartedInv'
<1>0. TypeInv /\ rules \in RuleMap
  BY DEF SerialInv, TypeInv, DataOK
<1>1. ASSUME NEW h \in Handler, Accept(h) PROVE StartedInv'
  <2>1. PICK l, c : Begin(h, l, c) /\ (PostAdd(h) => l = "getTF" /\ \E rid \in Rid, r \in Parsed :
                      c.rid = rid /\ rules' = [rules EXCEPT ![rid] = r])
    <3>1. CASE PostAdd(h)
      <4>1. PICK rid \in Rid, r \in Parsed :
             /\ Begin(h, "getTF", Request("add", rid, r, NoRules))
             /\ rules' = [rules EXCEPT ![rid] = r]
        BY <3>1 DEF PostAdd
      <4>2. Request("add", rid, r, NoRules).rid = rid
        BY DEF Request
      <4> QED BY <4>1, <4>2
    <3>2. CASE ~PostAdd(h)
      BY <1>1, <3>2 DEF Accept, PostEdit, PostDel, PostRestart, PostSync, GetData
    <3> QED BY <3>1, <3>2
  <2>2. /\ h \in Proc /\ pc[h] = "idle" /\ pc'[h] = l /\ ctx'[h] = c
        /\ \A q \in Proc \ {h} : pc'[q] = pc[q] /\ ctx'[q] = ctx[q]
    BY <1>0, <2>1, BeginStep
  <2>3. UNCHANGED svrs
    BY <1>1 DEF Accept, PostAdd, PostEdit, PostDel, PostRestart, PostSync, GetData, maps
  <2>4. CASE PostAdd(h)
    <3>1. PICK rid \in Rid : l = "getTF" /\ c.rid = rid /\ \A x \in Rid \ {rid} : rules'[x] = rules[x]
      BY <1>0, <2>1, <2>4 DEF RuleMap
    <3>2. {rid} \in SUBSET Rid /\ \A x \in {rid} : Started(x)'
      BY <2>2, <3>1 DEF Started, Pends
    <3> QED BY <2>2, <2>3, <3>1, <3>2, StartedFrame
  <2>5. CASE ~PostAdd(h)
    <3>1. UNCHANGED rules
      BY <1>1, <2>5 DEF Accept, PostEdit, PostDel, PostRestart, PostSync, GetData, maps
    <3> QED BY <2>2, <2>3, <3>1, StartedQuiet
  <2> QED BY <2>4, <2>5
<1>2. ASSUME NEW p \in Proc, DataStep(p) PROVE StartedInv'
  <2>1. UNCHANGED <<rules, svrs>> /\ pc[p] \notin Pending
    BY <1>2 DEF DataStep, DataAnswers, DataPanics, At, maps
  <2> QED BY <1>0, <1>2, <2>1, OthersStay, StartedQuiet
<1>3. CASE DdnsStep \/ Kill \/ UNCHANGED vars
  <2>1. UNCHANGED <<rules, svrs, pc, ctx>>
    BY <1>3 DEF StillInv, Kill, vars, DdnsStep, DdnsWakes, DdnsLookup, DdnsSetsRaddr,
        DdnsPanics, DdnsSetsRule, DdnsSleeps, maps
  <2> QED BY <2>1 DEF StartedInv, Started, Pends, NewRelayFails
<1>4. CASE Reboot
  BY <1>4, NoRulesType DEF Reboot, StartedInv, Started
<1> QED BY <1>1, <1>2, <1>3, <1>4, StartedStep, StartedSync DEF Next

LEMMA StartedInit == Init => StartedInv
  BY NoRulesType DEF Init, StartedInv, Started

-----------------------------------------------------------------------------
(* All of it, for an address that does not move *)
AllInv == SerialInv /\ FineInv /\ StillInv /\ ExactInv /\ StartedInv

LEMMA AllStep ==
  ASSUME Serial, FreshAdds, AfterBoot, AddressesStay
  PROVE  /\ Init => AllInv
         /\ AllInv /\ [Next]_vars => AllInv'
<1>1. AllInv => TypeInv
  BY DEF AllInv, SerialInv
<1>2. ASSUME AllInv, [Next]_vars PROVE FineInv' /\ StillInv'
  BY <1>1, <1>2, FineStep, StillStep DEF AllInv
<1>3. ASSUME AllInv, [Next]_vars PROVE ExactInv' /\ StartedInv'
  BY <1>3, ExactNext, StartedNext DEF AllInv
<1>4. ASSUME AllInv, [Next]_vars PROVE SerialInv'
  BY <1>4, SerialStep DEF AllInv
<1> QED BY <1>2, <1>3, <1>4, InitInv, FineInit, StillInit, ExactInit, StartedInit DEF AllInv

(* With a client that keeps to Serial, FreshAdds and AfterBoot, and        *)
(* addresses that do not move, a sync that was not cancelled serves        *)
(* exactly what it was asked: the rules are those of the request but for   *)
(* the ones it passed over, each in its version and, unless NewRelay       *)
(* refused it, with its relay, and no socket of another one is left,       *)
(* whatever was served before and whatever failed (lib.go:79-108).  A move *)
(* of an address makes ddns() put back the rule it remembers.              *)
THEOREM SyncIsExact ==
  ASSUME Serial, FreshAdds, AfterBoot, AddressesStay
  PROVE  Spec => []SyncExact
<1>1. AllInv => SyncExact
  <2> SUFFICES ASSUME SerialInv, ExactInv, StartedInv, NEW p \in Proc, pc[p] = "syncMarshal"
               PROVE  /\ \A rid \in Rid : (rules[rid] # None) <=> (ctx[p].req[rid] # None)
                      /\ \A rid \in Rid : rules[rid] # None =>
                           /\ cmp(rules[rid], ctx[p].req[rid])
                           /\ svrs[rid] # None \/ NewRelayFails(rules[rid])
                      /\ \A b \in bound : LET r == relay[b[1]]
                                         IN Asked(ctx[p].req, r.rid, r.port, r.typ)
    BY DEF SyncExact, AllInv
  <2>0. ctx[p].op = "sync" /\ Busy(p) /\ pc[p] \in SyncOnly
    BY DEF SerialInv, TypeInv, LocalsOK, HasLocals, Busy
  <2>1. \A rid \in Rid : /\ rules[rid] # None => Kept(ctx[p], rid)
                         /\ ctx[p].req[rid] # None => rules[rid] # None
    <3>1. pc[p] = "syncMarshal" /\ Loops(p)
      BY DEF ExactInv
    <3> QED BY <2>0, <3>1 DEF Loops
  <2>2. ASSUME NEW rid \in Rid, rules[rid] # None
        PROVE  svrs[rid] # None \/ NewRelayFails(rules[rid])
    <3>1. \A q \in Proc : pc[q] \in Pending /\ ctx[q].rid = rid => FALSE
      <4> SUFFICES ASSUME NEW q \in Proc, pc[q] \in Pending, ctx[q].rid = rid PROVE FALSE
        OBVIOUS
      <4>1. q # p
        OBVIOUS
      <4>2. Touches(p) = Rid
        BY <2>0 DEF Touches
      <4>3. rid \in Touches(q)
        BY TouchesType DEF SerialInv
      <4> QED BY <4>1, <4>2, <4>3 DEF SerialInv, Disjoint
    <3> QED BY <2>2, <3>1 DEF StartedInv, Started, Pends
  <2>3. ASSUME NEW b \in bound
        PROVE  LET r == relay[b[1]] IN Asked(ctx[p].req, r.rid, r.port, r.typ)
    <3>1. PICK rid \in Rid : svrs[rid] = b[1] /\ relay[b[1]].rid = rid
      BY DEF SerialInv, Owned
    <3>2. b[1] \in Obj /\ svrs[rid] # None
      BY <3>1, ConstantsAssumption DEF SerialInv, TypeInv, DataOK
    <3>3. rules[rid] # None /\ Match(rid)
      BY <3>2 DEF SerialInv, SvrInv, ExactInv
    <3> QED BY <2>1, <3>1, <3>2, <3>3 DEF Match, Kept, cmp, Asked
  <2> QED BY <2>1, <2>2, <2>3 DEF Kept
<1> QED BY <1>1, AllStep, PTL DEF Spec

(* Under the same assumptions a sync that returns from WriteFile() has     *)
(* left in the file a copy of the registry as it then is, though it copied *)
(* Rules two steps before it writes, or the write has failed               *)
(* (lib.go:110-117).                                                       *)
THEOREM BackupIsExact ==
  ASSUME Serial, FreshAdds, AfterBoot, AddressesStay
  PROVE  Spec => BackupExact
<1>1. AllInv /\ AllInv' /\ [Next]_vars =>
        [\A p \in Proc : up /\ pc[p] \in {"syncTruncate", "syncWrite"} /\ pc'[p] = "idle" =>
           file' = rules' \/ WriteFails(p)]_vars
  <2> SUFFICES ASSUME AllInv, Next, NEW p \in Proc, pc[p] \in {"syncTruncate", "syncWrite"},
                      up, pc'[p] = "idle", ~WriteFails(p)
               PROVE  file' = rules'
    BY DEF vars
  <2>0. SerialInv /\ ExactInv /\ TypeInv /\ ctx[p].op = "sync"
    BY DEF AllInv, SerialInv, TypeInv, LocalsOK, HasLocals
  <2>1. SyncWrites(p)
    <3>1. ASSUME NEW h \in Handler, Accept(h) PROVE FALSE
      <4>1. PICK l, c : Begin(h, l, c)
        BY <3>1 DEF Accept, PostAdd, PostEdit, PostDel, PostRestart, PostSync, GetData
      <4>2. h # p /\ pc'[p] = pc[p]
        BY <2>0, <4>1, BeginStep
      <4> QED BY <4>2
    <3>2. ASSUME NEW q \in Proc, Step(q) \/ SyncStep(q) \/ DataStep(q) PROVE q = p
      BY <2>0, <3>2, OthersStay
    <3>3. ~DdnsStep /\ ~Kill /\ ~Reboot
      BY DEF DdnsStep, DdnsWakes, DdnsLookup, DdnsSetsRaddr, DdnsPanics, DdnsSetsRule,
          DdnsSleeps, Kill, Reboot
    <3>4. Step(p) \/ SyncStep(p) \/ DataStep(p)
      BY <3>1, <3>2, <3>3 DEF Next
    <3>5. ~SyncTruncates(p)
      BY <2>0 DEF SyncTruncates, Goto, TypeInv, LocalsOK
    <3> QED BY <3>4, <3>5
        DEF Step, StopLookup, RestartLookup, CloseStopCh, ClosePanics, CloseTCPListen,
            CloseUDPConn, SvrsRemove, EditRulesSet, RulesRemove, TrafficRemove, GetTF,
            SetTF, SvrsSet, StartFails, Serve, ListenTCP, ListenUDP, SyncStep, SyncEnter,
            SyncClaim, SyncItems, SyncStops, SyncPicks, SyncResolves, SyncSkips,
            SyncCancelled, SyncFinishes, SyncMarshals, DataStep, DataAnswers, DataPanics, At
  <2>2. file' = ctx[p].items /\ rules' = rules
    BY <2>1 DEF SyncWrites, maps
  <2>3. \A x \in Rid : ctx[p].items[x] = rules[x]
    BY <2>0 DEF ExactInv, Loops
  <2>4. ctx[p].items \in RuleMap /\ rules \in RuleMap
    BY <2>0 DEF TypeInv, LocalsOK, DataOK, Locals
  <2> QED BY <2>2, <2>3, <2>4 DEF RuleMap
<1> QED BY <1>1, AllStep, PTL DEF Spec, BackupExact

=============================================================================

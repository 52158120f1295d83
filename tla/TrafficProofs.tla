--------------------------- MODULE TrafficProofs ---------------------------
(***************************************************************************)
(* The traffic counters for any number of rules, counters, copies and      *)
(* requests: for any client, type correctness and that bytes are counted   *)
(* before they are delivered; for a client that does not overlap two       *)
(* resetting requests, that no byte is reported twice and that bytes are   *)
(* lost only between a Total and its Reset or with a counter taken out.    *)
(*                                                                         *)
(* While a request is between Total and Reset, the bytes it has seen are   *)
(* both billed and still in the counter; Balance says so, and Alone that   *)
(* there is one such request.  Delivery counts what the copies of a        *)
(* counter have between Add and Write as the elements of one finite set.   *)
(***************************************************************************)
EXTENDS Traffic, FiniteSets, FiniteSetTheorems, TLAPS

LEMMA TypeInit == Init => TypeOK
  BY TrafficAssumption DEF Init, TypeOK, Zero, Waiting, CopyState, RepState

LEMMA TypeStep == TypeOK /\ [Next]_vars => TypeOK'
<1> SUFFICES ASSUME TypeOK, [Next]_vars PROVE TypeOK'
  OBVIOUS
<1> USE TrafficAssumption DEF TypeOK
<1>1. ASSUME NEW rid \in Rid, getTF(rid) \/ TrafficRemove(rid) PROVE TypeOK'
  BY <1>1 DEF getTF, TrafficRemove, history
<1>2. ASSUME NEW c \in Copier, Copy(c) PROVE TypeOK'
  <2> USE DEF CopyState, registry, history
  <2>1. CASE CopyStarts(c)
    <3>1. PICK tf \in made : copy' = [copy EXCEPT ![c] = [pc |-> "read", tf |-> tf, n |-> 0]]
      BY <2>1 DEF CopyStarts
    <3>2. tf \in Tf
      BY <3>1
    <3>3. copy' \in [Copier -> CopyState] /\ \A x \in Copier : copy'[x].pc # "off" => copy'[x].tf \in Tf
      BY <3>1, <3>2
    <3> QED BY <2>1, <3>3 DEF CopyStarts
  <2>2. CASE CopyReads(c)
    <3>1. PICK n \in Size : copy' = [copy EXCEPT ![c] = [pc |-> "add", tf |-> @.tf, n |-> n]]
      BY <2>2 DEF CopyReads
    <3>2. n \in Nat /\ copy[c].tf \in Tf
      BY <2>2 DEF CopyReads
    <3>3. copy' \in [Copier -> CopyState] /\ \A x \in Copier : copy'[x].pc # "off" => copy'[x].tf \in Tf
      BY <3>1, <3>2
    <3> QED BY <2>2, <3>3 DEF CopyReads
  <2>3. CASE Add(c)
    <3>1. copy[c].tf \in Tf /\ copy[c].n \in Nat
      BY <2>3 DEF Add
    <3> QED BY <2>3, <3>1 DEF Add
  <2>4. CASE CopyWrites(c)
    <3>1. copy[c].tf \in Tf /\ copy[c].n \in Nat
      BY <2>4 DEF CopyWrites
    <3> QED BY <2>4, <3>1 DEF CopyWrites
  <2>5. CASE CopyEnds(c)
    BY <2>5 DEF CopyEnds
  <2> QED BY <1>2, <2>1, <2>2, <2>3, <2>4, <2>5 DEF Copy
<1>3. ASSUME NEW h \in Reporter, PostTraffic(h) PROVE TypeOK'
  BY <1>3 DEF PostTraffic, Reporting, RepState, registry, history
<1>4. ASSUME NEW h \in Reporter, Report(h) PROVE TypeOK'
  <2> USE DEF RepState, registry, history
  <2>1. CASE Total(h)
    BY <2>1 DEF Total
  <2>2. CASE TotalToReset(h)
    BY <2>2 DEF TotalToReset
  <2>3. CASE Reset(h)
    BY <2>3 DEF Reset, Reporting
  <2>4. CASE Answers(h)
    <3>1. Waiting \in RepState
      BY DEF Waiting
    <3>2. Waiting.pc # "reset"
      BY DEF Waiting
    <3>3. rep' \in [Reporter -> RepState]
      BY <2>4, <3>1 DEF Answers
    <3>4. \A g \in Reporter : rep'[g].pc = "reset" => rep'[g].reset /\ rep'[g].tf \in Tf
      BY <2>4, <3>2 DEF Answers
    <3> QED BY <2>4, <3>3, <3>4 DEF Answers
  <2> QED BY <1>4, <2>1, <2>2, <2>3, <2>4 DEF Report
<1>5. CASE UNCHANGED vars
  BY <1>5 DEF vars
<1> QED BY <1>1, <1>2, <1>3, <1>4, <1>5 DEF Next, Registry

(* Every variable keeps its type, for any client; in particular no copy    *)
(* ever runs without a counter (lib.go:25-38).                             *)
THEOREM TrafficTypes == Spec => []TypeOK
  BY TypeInit, TypeStep, PTL DEF Spec

-----------------------------------------------------------------------------
(* Bytes billed, for a client that does not overlap resetting requests *)

Resets(h) == rep[h].pc # "idle" /\ rep[h].reset

Alone == \A g, h \in Reporter : g # h => ~(Resets(g) /\ Resets(h))

(* Nobody is between Total and Reset of tf. *)
Settled(tf) == (\A h \in Reporter : ~Resetting(h, tf)) =>
  /\ billed[tf] + counter[tf] <= counted[tf]
  /\ tf \notin raced => billed[tf] + counter[tf] = counted[tf]

(* What h has seen is billed, and still in the counter. *)
InGap(h) == rep[h].pc = "reset" =>
  /\ rep[h].seen <= counter[rep[h].tf]
  /\ billed[rep[h].tf] + counter[rep[h].tf] <= counted[rep[h].tf] + rep[h].seen
  /\ rep[h].tf \notin raced => /\ counter[rep[h].tf] = rep[h].seen
                               /\ billed[rep[h].tf] = counted[rep[h].tf]

Balance == /\ TypeOK /\ Alone
           /\ \A tf \in Tf : Settled(tf)
           /\ \A h \in Reporter : InGap(h)

LEMMA BalanceInit == Init => Balance
<1> SUFFICES ASSUME Init PROVE Balance
  OBVIOUS
<1>1. TypeOK
  BY TypeInit
<1>2. Alone /\ \A h \in Reporter : InGap(h)
  BY DEF Init, Alone, Resets, Waiting, InGap
<1>3. \A tf \in Tf : Settled(tf)
  BY DEF Init, Settled, Zero
<1> QED BY <1>1, <1>2, <1>3 DEF Balance

(* A step that leaves the counters and the reports alone *)
LEMMA BalanceElsewhere ==
  ASSUME Balance, TypeOK', UNCHANGED <<counter, counted, billed, raced, rep>>
  PROVE  Balance'
<1>1. Alone' /\ \A h \in Reporter : InGap(h)'
  BY DEF Balance, Alone, Resets, InGap
<1>2. \A tf \in Tf : Settled(tf)'
  BY DEF Balance, Settled, Resetting
<1> QED BY <1>1, <1>2 DEF Balance

LEMMA BalanceAdd ==
  ASSUME Balance, TypeOK', NEW c \in Copier, Add(c)
  PROVE  Balance'
<1> DEFINE t == copy[c].tf
           n == copy[c].n
<1>1. /\ t \in Tf /\ n \in Nat
      /\ counter \in [Tf -> Nat] /\ counted \in [Tf -> Nat] /\ billed \in [Tf -> Nat]
      /\ rep \in [Reporter -> RepState]
  BY DEF Balance, TypeOK, CopyState, Add
<1>2. /\ counter' = [counter EXCEPT ![t] = @ + n]
      /\ counted' = [counted EXCEPT ![t] = @ + n]
      /\ raced' = IF \E h \in Reporter : Resetting(h, t) THEN raced \cup {t} ELSE raced
      /\ rep' = rep /\ billed' = billed
  BY DEF Add
<1> HIDE DEF t, n
<1>3. Alone'
  BY <1>2 DEF Balance, Alone, Resets
<1>4. ASSUME NEW tf \in Tf PROVE Settled(tf)'
  <2>1. Settled(tf) /\ raced \subseteq raced'
    BY <1>2 DEF Balance
  <2> QED BY <1>1, <1>2, <2>1 DEF Settled, Resetting
<1>5. ASSUME NEW h \in Reporter, rep[h].pc = "reset" PROVE InGap(h)'
  <2>1. InGap(h) /\ rep[h].tf \in Tf /\ rep[h].seen \in Nat
    BY <1>1, <1>5 DEF Balance, TypeOK, RepState
  <2>2. rep[h].tf = t => t \in raced'
    BY <1>2, <1>5 DEF Resetting
  <2> QED BY <1>1, <1>2, <1>5, <2>1, <2>2 DEF InGap
<1> QED BY <1>2, <1>3, <1>4, <1>5 DEF Balance, InGap

LEMMA BalanceTotal ==
  ASSUME Balance, TypeOK', NEW h \in Reporter, TotalToReset(h)
  PROVE  Balance'
<1>1. PICK tf \in rep[h].todo :
        /\ rep' = [rep EXCEPT ![h] = [pc |-> "reset", reset |-> TRUE, tf |-> tf,
                                seen |-> counter[tf], todo |-> @.todo \ {tf}]]
        /\ billed' = [billed EXCEPT ![tf] = @ + counter[tf]]
  BY DEF TotalToReset
<1>2. /\ rep[h].pc = "total" /\ rep[h].reset
      /\ counter' = counter /\ counted' = counted /\ raced' = raced
  BY DEF TotalToReset
<1>3. /\ tf \in Tf /\ rep \in [Reporter -> RepState]
      /\ counter \in [Tf -> Nat] /\ counted \in [Tf -> Nat] /\ billed \in [Tf -> Nat]
  BY DEF Balance, TypeOK, RepState
<1>4. \A g \in Reporter \ {h} : rep'[g] = rep[g] /\ rep[g].pc # "reset"
  BY <1>1, <1>2, <1>3 DEF Balance, Alone, Resets, TypeOK
<1>5. Alone'
  <2>1. \A g \in Reporter \ {h} : ~Resets(g)'
    BY <1>2, <1>4 DEF Balance, Alone, Resets
  <2> QED BY <2>1 DEF Alone
<1>6. Settled(tf)
  BY <1>3 DEF Balance
<1>7. \A g \in Reporter : ~Resetting(g, tf)
  BY <1>2, <1>4 DEF Resetting
<1>8. ASSUME NEW x \in Tf PROVE Settled(x)'
  <2>1. CASE x = tf
    <3>1. rep'[h].pc = "reset" /\ rep'[h].tf = tf
      BY <1>1, <1>3
    <3> QED BY <2>1, <3>1 DEF Settled, Resetting
  <2>2. CASE x # tf
    <3>1. \A g \in Reporter : ~Resetting(g, x)
      BY <1>2, <1>4 DEF Resetting
    <3>2. billed'[x] = billed[x]
      BY <1>1, <1>3, <2>2
    <3> QED BY <1>2, <3>1, <3>2 DEF Balance, Settled
  <2> QED BY <2>1, <2>2
<1>9. InGap(h)'
  <2>1. rep'[h].pc = "reset" /\ rep'[h].tf = tf /\ rep'[h].seen = counter[tf]
    BY <1>1, <1>3
  <2>2. billed'[tf] = billed[tf] + counter[tf]
    BY <1>1, <1>3
  <2>3. /\ billed[tf] + counter[tf] <= counted[tf]
        /\ tf \notin raced => billed[tf] + counter[tf] = counted[tf]
    BY <1>6, <1>7 DEF Settled
  <2> QED BY <1>2, <1>3, <2>1, <2>2, <2>3 DEF InGap
<1>10. \A g \in Reporter \ {h} : InGap(g)'
  BY <1>4 DEF InGap
<1> QED BY <1>5, <1>8, <1>9, <1>10 DEF Balance

LEMMA BalanceReset ==
  ASSUME Balance, TypeOK', NEW h \in Reporter, Reset(h)
  PROVE  Balance'
<1> DEFINE tf == rep[h].tf
<1>1. /\ rep[h].pc = "reset" /\ rep[h].reset
      /\ counter' = [counter EXCEPT ![tf] = 0]
      /\ rep' = [rep EXCEPT ![h] = Reporting(TRUE, rep[h].todo)]
      /\ counted' = counted /\ billed' = billed /\ raced' = raced
  BY DEF Reset, history, Balance, TypeOK
<1>2. /\ tf \in Tf /\ rep[h].seen \in Nat /\ rep \in [Reporter -> RepState]
      /\ counter \in [Tf -> Nat] /\ counted \in [Tf -> Nat] /\ billed \in [Tf -> Nat]
  BY <1>1 DEF Balance, TypeOK, RepState
<1>3. InGap(h)
  BY DEF Balance
<1>4. \A g \in Reporter \ {h} : rep'[g] = rep[g] /\ rep[g].pc # "reset"
  BY <1>1, <1>2 DEF Balance, Alone, Resets, TypeOK
<1>5. rep'[h].pc = "total"
  BY <1>1, <1>2 DEF Reporting
<1>6. Alone'
  <2>1. \A g \in Reporter \ {h} : ~Resets(g)'
    BY <1>1, <1>4 DEF Balance, Alone, Resets
  <2> QED BY <2>1 DEF Alone
<1>7. ASSUME NEW x \in Tf PROVE Settled(x)'
  <2>1. CASE x = tf
    BY <1>1, <1>2, <1>3, <2>1 DEF InGap, Settled
  <2>2. CASE x # tf
    <3>1. \A g \in Reporter : ~Resetting(g, x)
      BY <1>4, <2>2 DEF Resetting
    <3>2. counter'[x] = counter[x]
      BY <1>1, <1>2, <2>2
    <3> QED BY <1>1, <3>1, <3>2 DEF Balance, Settled
  <2> QED BY <2>1, <2>2
<1>8. \A g \in Reporter : InGap(g)'
  BY <1>4, <1>5 DEF InGap
<1> QED BY <1>6, <1>7, <1>8 DEF Balance

(* A request begins, reports a counter it does not reset, or is answered.  *)
LEMMA BalanceRequest ==
  ASSUME Serial, Balance, TypeOK', NEW h \in Reporter,
         PostTraffic(h) \/ Total(h) \/ Answers(h)
  PROVE  Balance'
<1>1. /\ UNCHANGED <<counter, counted, billed, raced>>
      /\ rep[h].pc # "reset" /\ rep'[h].pc # "reset"
      /\ \A g \in Reporter \ {h} : rep'[g] = rep[g]
  <2>1. CASE PostTraffic(h)
    BY <2>1 DEF PostTraffic, history, Reporting, Balance, TypeOK
  <2>2. CASE Total(h)
    <3>1. PICK tf \in rep[h].todo : rep' = [rep EXCEPT ![h].todo = @ \ {tf}]
      BY <2>2 DEF Total
    <3>2. /\ rep[h].pc = "total" /\ rep[h] \in RepState
          /\ rep \in [Reporter -> RepState]
      BY <2>2 DEF Total, Balance, TypeOK
    <3>3. rep'[h].pc = rep[h].pc
      BY <3>1, <3>2 DEF RepState
    <3>4. \A g \in Reporter \ {h} : rep'[g] = rep[g]
      BY <3>1, <3>2
    <3> QED BY <2>2, <3>2, <3>3, <3>4 DEF Total, history
  <2>3. CASE Answers(h)
    BY <2>3 DEF Answers, history, Waiting, Balance, TypeOK
  <2> QED BY <2>1, <2>2, <2>3
<1>2. \A g \in Reporter, tf \in Tf : Resetting(g, tf)' <=> Resetting(g, tf)
  BY <1>1 DEF Resetting
<1>3. \A tf \in Tf : Settled(tf)'
  BY <1>1, <1>2 DEF Balance, Settled
<1>4. \A g \in Reporter : InGap(g)'
  BY <1>1 DEF Balance, InGap
<1>5. \/ ~Resets(h)'
      \/ \A g \in Reporter : ~Resets(g)
  <2>1. CASE PostTraffic(h)
    BY <2>1 DEF PostTraffic, Reporting, Resets, Balance, TypeOK
  <2>2. CASE Total(h)
    BY <2>2 DEF Total, Resets, Balance, TypeOK
  <2>3. CASE Answers(h)
    BY <2>3 DEF Answers, Waiting, Resets, Balance, TypeOK
  <2> QED BY <2>1, <2>2, <2>3
<1>6. Alone'
  BY <1>1, <1>5 DEF Balance, Alone, Resets
<1> QED BY <1>3, <1>4, <1>6 DEF Balance

LEMMA BalanceStep == ASSUME Serial PROVE Balance /\ [Next]_vars => Balance'
<1> SUFFICES ASSUME Balance, [Next]_vars PROVE Balance'
  OBVIOUS
<1>0. TypeOK'
  BY TypeStep DEF Balance
<1>1. ASSUME NEW rid \in Rid, getTF(rid) \/ TrafficRemove(rid) PROVE Balance'
  BY <1>0, <1>1, BalanceElsewhere DEF getTF, TrafficRemove, history
<1>2. ASSUME NEW c \in Copier, Copy(c) PROVE Balance'
  <2>1. CASE Add(c)
    BY <1>0, <2>1, BalanceAdd
  <2>2. CASE CopyStarts(c) \/ CopyReads(c) \/ CopyWrites(c) \/ CopyEnds(c)
    BY <1>0, <2>2, BalanceElsewhere DEF CopyStarts, CopyReads, CopyWrites, CopyEnds, history
  <2> QED BY <1>2, <2>1, <2>2 DEF Copy
<1>3. ASSUME NEW h \in Reporter, PostTraffic(h) \/ Report(h) PROVE Balance'
  BY <1>0, <1>3, BalanceRequest, BalanceTotal, BalanceReset DEF Report
<1>4. CASE UNCHANGED vars
  BY <1>0, <1>4, BalanceElsewhere DEF vars
<1> QED BY <1>1, <1>2, <1>3, <1>4 DEF Next, Registry

(* However many copies add to a counter, no byte is reported twice by      *)
(* requests that reset, if such requests do not overlap (action.go:49-54). *)
THEOREM BilledOnce == ASSUME Serial PROVE Spec => []NeverBilledTwice
<1>1. Balance => NeverBilledTwice
  <2> SUFFICES ASSUME Balance, NEW tf \in Tf PROVE billed[tf] <= counted[tf]
    BY DEF NeverBilledTwice
  <2>1. counter[tf] \in Nat /\ counted[tf] \in Nat /\ billed[tf] \in Nat
    BY DEF Balance, TypeOK
  <2>2. CASE \E h \in Reporter : Resetting(h, tf)
    <3>1. PICK h \in Reporter : Resetting(h, tf)
      BY <2>2
    <3>2. rep[h].seen \in Nat /\ InGap(h)
      BY DEF Balance, TypeOK, RepState
    <3> QED BY <2>1, <3>1, <3>2 DEF InGap, Resetting
  <2>3. CASE \A h \in Reporter : ~Resetting(h, tf)
    BY <2>1, <2>3 DEF Balance, Settled
  <2> QED BY <2>2, <2>3
<1> QED BY <1>1, BalanceInit, BalanceStep, PTL DEF Spec

(* With the same client, and as long as a counter is in the map or in a    *)
(* resetting request's snapshot of it, every byte it counted is in a       *)
(* report or still in it, unless it was added between a Total and its      *)
(* Reset (action.go:49-54).  What a counter holds when it leaves the map   *)
(* is not reported any more (lib.go:86).                                   *)
THEOREM NothingElseLost == ASSUME Serial PROVE Spec => []LostInGapOrRemoval
<1>1. Balance => LostInGapOrRemoval
  BY DEF Balance, Settled, LostInGapOrRemoval
<1> QED BY <1>1, BalanceInit, BalanceStep, PTL DEF Spec

-----------------------------------------------------------------------------
(* Bytes on their way: counted by a copy that has not written them yet.    *)
(* They are pairs of a copy and a number, so that what the copies have     *)
(* between Add and Write adds up to the size of a set.                     *)

Chunk(c, n) == {<<c, i>> : i \in 1 .. n}
Underway(tf) ==
  {p \in Copier \X Nat : /\ copy[p[1]].pc = "write" /\ copy[p[1]].tf = tf
                         /\ p[2] \in 1 .. copy[p[1]].n}

LEMMA ChunkSize ==
  ASSUME NEW c, NEW n \in Nat
  PROVE  IsFiniteSet(Chunk(c, n)) /\ Cardinality(Chunk(c, n)) = n
<1> DEFINE f == [i \in 1 .. n |-> <<c, i>>]
<1>1. IsFiniteSet(1 .. n) /\ Cardinality(1 .. n) = n
  BY FS_Interval
<1>2. f \in Bijection(1 .. n, Chunk(c, n))
  <2>1. f \in Surjection(1 .. n, Chunk(c, n))
    BY DEF Surjection, Chunk
  <2>2. f \in Injection(1 .. n, Chunk(c, n))
    <3>1. f \in [1 .. n -> Chunk(c, n)]
      BY DEF Chunk
    <3>2. \A i, j \in 1 .. n : f[i] = f[j] => i = j
      OBVIOUS
    <3>3. IsInjective(f)
      BY <3>2 DEF IsInjective
    <3> QED
      BY <3>1, <3>3 DEF Injection
  <2> QED
    BY <2>1, <2>2 DEF Bijection
<1> HIDE DEF f
<1>3. ExistsBijection(1 .. n, Chunk(c, n))
  BY <1>2 DEF ExistsBijection
<1> QED
  BY <1>1, <1>3, FS_Bijection

Ahead(tf) == /\ IsFiniteSet(Underway(tf))
             /\ delivered[tf] + Cardinality(Underway(tf)) <= counted[tf]
Delivery == TypeOK /\ \A tf \in Tf : Ahead(tf)

LEMMA DeliveryInit == Init => Delivery
<1> SUFFICES ASSUME Init PROVE Delivery
  OBVIOUS
<1>1. ASSUME NEW tf \in Tf PROVE Underway(tf) = {}
  BY DEF Init, Underway
<1>2. ASSUME NEW tf \in Tf PROVE delivered[tf] = 0 /\ counted[tf] = 0
  BY DEF Init, Zero
<1> QED
  BY <1>1, <1>2, TypeInit, FS_EmptySet DEF Delivery, Ahead

(* The bytes on their way for tf of a copy c whose state is s.             *)
Coming(c, s, tf) == {p \in {c} \X Nat : s.pc = "write" /\ s.tf = tf /\ p[2] \in 1 .. s.n}

(* What the step of a copy does to the bytes on their way.                 *)
LEMMA UnderwayOf ==
  ASSUME TypeOK, NEW c \in Copier, NEW s, copy' = [copy EXCEPT ![c] = s], NEW tf \in Tf
  PROVE  Underway(tf)' = (Underway(tf) \ Chunk(c, copy[c].n))
                           \cup Coming(c, s, tf)
<1>1. \A x \in Copier : copy'[x] = IF x = c THEN s ELSE copy[x]
  BY DEF TypeOK
<1>2. ASSUME NEW p \in Copier \X Nat, p[1] # c
      PROVE  /\ p \in Underway(tf)' <=> p \in Underway(tf)
             /\ p \notin Chunk(c, copy[c].n) /\ p \notin {c} \X Nat
  BY <1>1, <1>2 DEF Underway, Chunk
<1>3. ASSUME NEW p \in Copier \X Nat, p[1] = c
      PROVE  /\ p \in Underway(tf)' <=> s.pc = "write" /\ s.tf = tf /\ p[2] \in 1 .. s.n
             /\ p \in Underway(tf) => p \in Chunk(c, copy[c].n)
  BY <1>1, <1>3 DEF Underway, Chunk
<1>4. Underway(tf) \subseteq Copier \X Nat /\ Underway(tf)' \subseteq Copier \X Nat
  BY DEF Underway
<1> QED
  BY <1>2, <1>3, <1>4 DEF Coming

(* A copy that goes on to anything but a Write has no bytes on their way.  *)
LEMMA NoneUnderway ==
  ASSUME TypeOK, NEW c \in Copier, NEW tf \in Tf,
         \E s : copy' = [copy EXCEPT ![c] = s] /\ s.pc # "write"
  PROVE  Underway(tf)' = Underway(tf) \ Chunk(c, copy[c].n)
<1>1. PICK s : copy' = [copy EXCEPT ![c] = s] /\ s.pc # "write"
  OBVIOUS
<1>2. Coming(c, s, tf) = {}
  BY <1>1 DEF Coming
<1>3. Underway(tf)' = (Underway(tf) \ Chunk(c, copy[c].n)) \cup Coming(c, s, tf)
  BY <1>1, UnderwayOf
<1> QED
  BY <1>2, <1>3

(* A copy that is not about to write has no bytes on their way.            *)
LEMMA NotUnderway ==
  ASSUME NEW c \in Copier, NEW tf \in Tf, copy[c].pc # "write" \/ copy[c].tf # tf
  PROVE  Underway(tf) \cap Chunk(c, copy[c].n) = {}
  BY DEF Underway, Chunk

LEMMA AllUnderway ==
  ASSUME TypeOK, NEW c \in Copier, NEW tf \in Tf, copy[c].pc = "write", copy[c].tf = tf
  PROVE  Chunk(c, copy[c].n) \subseteq Underway(tf)
<1>1. 1 .. copy[c].n \subseteq Nat
  OBVIOUS
<1> QED
  BY <1>1 DEF Underway, Chunk

LEMMA DeliveryStep == Delivery /\ [Next]_vars => Delivery'
<1> SUFFICES ASSUME Delivery, [Next]_vars, NEW tf \in Tf PROVE Ahead(tf)'
  BY TypeStep DEF Delivery
<1> DEFINE u == Underway(tf)
<1>1. /\ TypeOK /\ IsFiniteSet(u) /\ Cardinality(u) \in Nat
      /\ delivered[tf] \in Nat /\ counted[tf] \in Nat
      /\ delivered[tf] + Cardinality(u) <= counted[tf]
  BY FS_CardinalityType DEF Delivery, Ahead, TypeOK
<1>2. ASSUME IsFiniteSet(Underway(tf)'), Underway(tf)' \subseteq u, delivered'[tf] = delivered[tf],
             counted'[tf] = counted[tf]
      PROVE  Ahead(tf)'
  <2>1. Cardinality(Underway(tf)') <= Cardinality(u) /\ Cardinality(Underway(tf)') \in Nat
    BY <1>1, <1>2, FS_Subset, FS_CardinalityType
  <2> QED
    BY <1>1, <1>2, <2>1 DEF Ahead
<1>3. CASE UNCHANGED <<copy, delivered, counted>>
  BY <1>1, <1>3 DEF Ahead, Underway
<1>4. ASSUME NEW c \in Copier, Copy(c) PROVE Ahead(tf)'
  <2> DEFINE b == Chunk(c, copy[c].n)
  <2>1. CASE CopyStarts(c) \/ CopyReads(c) \/ CopyEnds(c)
    <3>1. /\ delivered' = delivered /\ counted' = counted
          /\ \E s : copy' = [copy EXCEPT ![c] = s] /\ s.pc # "write"
      <4>1. CASE CopyStarts(c)
        <5>1. PICK tf1 \in made : copy' = [copy EXCEPT ![c] = [pc |-> "read", tf |-> tf1, n |-> 0]]
          BY <4>1 DEF CopyStarts
        <5> QED
          BY <4>1, <5>1 DEF CopyStarts, history
      <4>2. CASE CopyReads(c)
        <5>1. PICK n \in Size : copy' = [copy EXCEPT ![c] = [pc |-> "add", tf |-> copy[c].tf, n |-> n]]
          BY <1>1, <4>2 DEF CopyReads, TypeOK
        <5> QED
          BY <4>2, <5>1 DEF CopyReads, history
      <4>3. CASE CopyEnds(c)
        <5>1. copy' = [copy EXCEPT ![c] = [copy[c] EXCEPT !.pc = "end"]] /\ copy[c] \in CopyState
          BY <1>1, <4>3 DEF CopyEnds, TypeOK
        <5>2. [copy[c] EXCEPT !.pc = "end"].pc # "write"
          BY <5>1 DEF CopyState
        <5> QED
          BY <4>3, <5>1, <5>2 DEF CopyEnds, history
      <4> QED
        BY <2>1, <4>1, <4>2, <4>3
    <3>2. Underway(tf)' = u \ b
      BY <1>1, <3>1, NoneUnderway
    <3>3. IsFiniteSet(u \ b)
      BY <1>1, FS_Difference
    <3> QED
      BY <1>2, <3>1, <3>2, <3>3
  <2>2. CASE Add(c)
    <3>1. /\ copy' = [copy EXCEPT ![c] = [copy[c] EXCEPT !.pc = "write"]]
          /\ delivered' = delivered /\ counted' = [counted EXCEPT ![copy[c].tf] = @ + copy[c].n]
          /\ copy[c].pc = "add" /\ copy[c] \in CopyState /\ copy[c].tf \in Tf
      BY <1>1, <2>2 DEF Add, TypeOK
    <3>2. PICK s : s = [copy[c] EXCEPT !.pc = "write"]
      OBVIOUS
    <3>3. s.pc = "write" /\ s.tf = copy[c].tf /\ s.n = copy[c].n /\ copy[c].n \in Nat
      BY <3>1, <3>2 DEF CopyState
    <3>4. u \cap b = {}
      BY <3>1, NotUnderway
    <3>5. Underway(tf)' = u \cup {p \in {c} \X Nat : s.tf = tf /\ p[2] \in 1 .. s.n}
      <4>1. u \ b = u
        BY <3>4
      <4>2. copy' = [copy EXCEPT ![c] = s]
        BY <3>1, <3>2
      <4>3. Underway(tf)' = (u \ b) \cup Coming(c, s, tf)
        BY <1>1, <4>2, UnderwayOf
      <4> QED
        BY <3>3, <4>1, <4>3 DEF Coming
    <3>6. CASE copy[c].tf # tf
      <4>1. Underway(tf)' = u /\ counted'[tf] = counted[tf]
        BY <1>1, <3>1, <3>3, <3>5, <3>6 DEF TypeOK
      <4> QED
        BY <1>1, <1>2, <3>1, <4>1
    <3>7. CASE copy[c].tf = tf
      <4>1. {p \in {c} \X Nat : p[2] \in 1 .. copy[c].n} = b
        BY <3>3 DEF Chunk
      <4>2. Underway(tf)' = u \cup b
        BY <3>3, <3>5, <3>7, <4>1
      <4>3. IsFiniteSet(b) /\ Cardinality(b) = copy[c].n
        BY <3>3, ChunkSize
      <4>4. IsFiniteSet(u \cup b) /\ Cardinality(u \cup b) = Cardinality(u) + copy[c].n
        <5>1. Cardinality(u \cap b) = 0
          BY <3>4, FS_EmptySet
        <5> HIDE DEF u, b
        <5> QED
          BY <1>1, <3>3, <4>3, <5>1, FS_Union
      <4>5. counted'[tf] = counted[tf] + copy[c].n
        BY <1>1, <3>1, <3>7 DEF TypeOK
      <4> QED
        BY <1>1, <3>1, <3>3, <4>2, <4>4, <4>5 DEF Ahead
    <3> QED
      BY <3>6, <3>7
  <2>3. CASE CopyWrites(c)
    <3>1. /\ copy' = [copy EXCEPT ![c] = [copy[c] EXCEPT !.pc = "read"]]
          /\ counted' = counted /\ delivered' = [delivered EXCEPT ![copy[c].tf] = @ + copy[c].n]
          /\ copy[c].pc = "write" /\ copy[c] \in CopyState /\ copy[c].tf \in Tf /\ copy[c].n \in Nat
      BY <1>1, <2>3 DEF CopyWrites, TypeOK, CopyState
    <3>2. PICK s : s = [copy[c] EXCEPT !.pc = "read"]
      OBVIOUS
    <3>3. s.pc # "write"
      BY <3>1, <3>2 DEF CopyState
    <3>4. Underway(tf)' = u \ b
      BY <1>1, <3>1, <3>2, <3>3, NoneUnderway
    <3>5. IsFiniteSet(u \ b)
      BY <1>1, FS_Difference
    <3>6. CASE copy[c].tf # tf
      <4>1. delivered'[tf] = delivered[tf]
        BY <1>1, <3>1, <3>6 DEF TypeOK
      <4> QED
        BY <1>2, <3>1, <3>4, <3>5, <4>1
    <3>7. CASE copy[c].tf = tf
      <4>1. IsFiniteSet(b) /\ Cardinality(b) = copy[c].n
        BY <3>1, ChunkSize
      <4>2. b \subseteq u
        BY <1>1, <3>1, <3>7, AllUnderway
      <4>3. Cardinality(u \ b) = Cardinality(u) - copy[c].n /\ Cardinality(u \ b) \in Nat
        <5>1. u \cap b = b
          BY <4>2
        <5> HIDE DEF u, b
        <5>2. Cardinality(u \ b) = Cardinality(u) - Cardinality(u \cap b)
          BY <1>1, FS_Difference
        <5>3. Cardinality(u \ b) \in Nat
          BY <3>5, FS_CardinalityType
        <5> QED
          BY <4>1, <5>1, <5>2, <5>3
      <4>4. delivered'[tf] = delivered[tf] + copy[c].n
        BY <1>1, <3>1, <3>7 DEF TypeOK
      <4> QED
        BY <1>1, <3>1, <3>4, <3>5, <4>3, <4>4 DEF Ahead
    <3> QED
      BY <3>6, <3>7
  <2> QED
    BY <1>4, <2>1, <2>2, <2>3 DEF Copy
<1> QED
  BY <1>3, <1>4 DEF Next, Registry, getTF, TrafficRemove, PostTraffic, Report, Total, TotalToReset, Reset,
     Answers, history, vars

(* For any client: what has reached the other side was counted before, by  *)
(* any number of copies on one counter.                                    *)
THEOREM CountedFirst == Spec => []DeliveredCounted
<1>1. Delivery => DeliveredCounted
  <2> SUFFICES ASSUME Delivery, NEW tf \in Tf PROVE delivered[tf] <= counted[tf]
    BY DEF DeliveredCounted
  <2>1. /\ delivered[tf] \in Nat /\ counted[tf] \in Nat
        /\ Cardinality(Underway(tf)) \in Nat
        /\ delivered[tf] + Cardinality(Underway(tf)) <= counted[tf]
    BY FS_CardinalityType DEF Delivery, Ahead, TypeOK
  <2> QED
    BY <2>1
<1> QED BY <1>1, DeliveryInit, DeliveryStep, PTL DEF Spec

=============================================================================

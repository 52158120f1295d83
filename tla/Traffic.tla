------------------------------- MODULE Traffic -------------------------------
(***************************************************************************)
(* The traffic counters: copies add what they read to the counter (TF) of  *)
(* their relay, requests to /traffic report every counter and, if asked,   *)
(* reset it, while rules come and go in the map Traffic.                   *)
(*                                                                         *)
(* Add, Total and Reset hold the mutex of the counter and are one step     *)
(* each.  A counter of 64 bits does not overflow: it counts bytes.         *)
(***************************************************************************)
EXTENDS Integers

CONSTANTS
  Rid,        \* rule ids
  Tf,         \* identities of counters
  Copier,     \* copying goroutines
  Reporter,   \* goroutines serving /traffic
  Size,       \* how many bytes a Read may return
  None,       \* no counter
  Serial,     \* the API client has one resetting /traffic under way at a time
  MaxRead,    \* bound: chunks read
  MaxReport   \* bound: requests to /traffic

ASSUME TrafficAssumption ==
  /\ None \notin Tf
  /\ Size \subseteq Nat
  /\ Serial \in BOOLEAN
  /\ MaxRead \in Nat /\ MaxReport \in Nat

VARIABLES
  traffic,    \* Traffic: rid -> TF
  made,       \* the counters NewTF has made
  counter,    \* TF.Counter
  copy,       \* next step, counter and chunk of a copying goroutine
  rep,        \* next step and locals of a goroutine serving /traffic
  counted,    \* bytes ever added to a counter,  history variables ...
  delivered,  \* ... bytes written after they were counted by it,
  billed,     \* ... bytes reported by requests that reset it,
  raced,      \* ... counters added to between a Total and its Reset
  nread, nreport

vars == <<traffic, made, counter, copy, rep, counted, delivered, billed, raced,
          nread, nreport>>
registry == <<traffic, made>>
history == <<counted, delivered, billed, raced>>

CopyState == [pc : {"off", "read", "add", "write", "end"}, tf : Tf \cup {None}, n : Nat]
RepState == [pc : {"idle", "total", "reset"}, reset : BOOLEAN, todo : SUBSET Tf,
             tf : Tf \cup {None}, seen : Nat]

TypeOK ==
  /\ traffic \in [Rid -> Tf \cup {None}]
  /\ made \subseteq Tf
  /\ counter \in [Tf -> Nat]
  /\ copy \in [Copier -> CopyState]
  /\ \A c \in Copier : copy[c].pc # "off" => copy[c].tf \in Tf
  /\ rep \in [Reporter -> RepState]
  /\ \A h \in Reporter : rep[h].pc = "reset" => rep[h].reset /\ rep[h].tf \in Tf
  /\ counted \in [Tf -> Nat] /\ delivered \in [Tf -> Nat] /\ billed \in [Tf -> Nat]
  /\ raced \subseteq Tf
  /\ nread \in Nat /\ nreport \in Nat

Reporting(reset, todo) ==
  [pc |-> "total", reset |-> reset, todo |-> todo, tf |-> None, seen |-> 0]
Waiting == [pc |-> "idle", reset |-> FALSE, todo |-> {}, tf |-> None, seen |-> 0]
Zero == [tf \in Tf |-> 0]

Init ==
  /\ traffic = [rid \in Rid |-> None] /\ made = {}
  /\ counter = Zero
  /\ copy = [c \in Copier |-> [pc |-> "off", tf |-> None, n |-> 0]]
  /\ rep = [h \in Reporter |-> Waiting]
  /\ counted = Zero /\ delivered = Zero /\ billed = Zero /\ raced = {}
  /\ nread = 0 /\ nreport = 0

-----------------------------------------------------------------------------
(* The registry: getTF makes a counter for a rule that has none; PostDel   *)
(* and sync() take it out of the map, and the copies keep it.  PostDel     *)
(* answers with the counter it took out, sync() with nothing.              *)

getTF(rid) == \E tf \in Tf \ made :
  /\ traffic[rid] = None
  /\ traffic' = [traffic EXCEPT ![rid] = tf]
  /\ made' = made \cup {tf}
  /\ UNCHANGED <<counter, copy, rep, history, nread, nreport>>

TrafficRemove(rid) ==
  /\ traffic[rid] # None
  /\ traffic' = [traffic EXCEPT ![rid] = None]
  /\ UNCHANGED <<made, counter, copy, rep, history, nread, nreport>>

-----------------------------------------------------------------------------
(* Copy_io: look at StopCh, read, count, write *)

Resetting(h, tf) == rep[h].pc = "reset" /\ rep[h].tf = tf

(* A handler starts its copies with the counter of its relay, which may    *)
(* have left the map since the connection was accepted.                    *)
CopyStarts(c) == \E tf \in made :
  /\ copy[c].pc = "off"
  /\ copy' = [copy EXCEPT ![c] = [pc |-> "read", tf |-> tf, n |-> 0]]
  /\ UNCHANGED <<registry, counter, rep, history, nread, nreport>>

(* Mutant: a chunk is written before it is counted, or never counted.      *)
CopyReads_Uncounted(c) == \E n \in Size :
  /\ copy[c].pc = "read" /\ nread < MaxRead
  /\ copy' = [copy EXCEPT ![c] = [pc |-> "write", tf |-> @.tf, n |-> n]]
  /\ nread' = nread + 1
  /\ UNCHANGED <<registry, counter, rep, history, nreport>>

CopyReads(c) == \E n \in Size :
  /\ copy[c].pc = "read" /\ nread < MaxRead
  /\ copy' = [copy EXCEPT ![c] = [pc |-> "add", tf |-> @.tf, n |-> n]]
  /\ nread' = nread + 1
  /\ UNCHANGED <<registry, counter, rep, history, nreport>>

Add(c) == LET tf == copy[c].tf IN
  /\ copy[c].pc = "add"
  /\ counter' = [counter EXCEPT ![tf] = @ + copy[c].n]
  /\ counted' = [counted EXCEPT ![tf] = @ + copy[c].n]
  /\ raced' = IF \E h \in Reporter : Resetting(h, tf) THEN raced \cup {tf} ELSE raced
  /\ copy' = [copy EXCEPT ![c].pc = "write"]
  /\ UNCHANGED <<registry, rep, delivered, billed, nread, nreport>>

CopyWrites(c) ==
  /\ copy[c].pc = "write"
  /\ delivered' = [delivered EXCEPT ![copy[c].tf] = @ + copy[c].n]
  /\ copy' = [copy EXCEPT ![c].pc = "read"]
  /\ UNCHANGED <<registry, counter, rep, counted, billed, raced, nread, nreport>>

(* A read or a write fails, or StopCh is closed.  What was counted stays.  *)
CopyEnds(c) ==
  /\ copy[c].pc \in {"read", "write"}
  /\ copy' = [copy EXCEPT ![c].pc = "end"]
  /\ UNCHANGED <<registry, counter, rep, history, nread, nreport>>

-----------------------------------------------------------------------------
(* PostTraffic: Traffic.Items(), then for every counter of the snapshot    *)
(* Total and, if asked, Reset                                              *)

PostTraffic(h) == \E reset \in BOOLEAN :
  /\ rep[h].pc = "idle" /\ nreport < MaxReport
  /\ Serial /\ reset => \A g \in Reporter : rep[g].pc # "idle" => ~rep[g].reset
  /\ rep' = [rep EXCEPT ![h] =
               Reporting(reset, {traffic[rid] : rid \in Rid} \ {None})]
  /\ nreport' = nreport + 1
  /\ UNCHANGED <<registry, counter, copy, history, nread>>

(* without reset *)
Total(h) == \E tf \in rep[h].todo :
  /\ rep[h].pc = "total" /\ ~rep[h].reset
  /\ rep' = [rep EXCEPT ![h].todo = @ \ {tf}]
  /\ UNCHANGED <<registry, counter, copy, history, nread, nreport>>

TotalToReset(h) == \E tf \in rep[h].todo :
  /\ rep[h].pc = "total" /\ rep[h].reset
  /\ rep' = [rep EXCEPT ![h] = [pc |-> "reset", reset |-> TRUE, tf |-> tf,
                                seen |-> counter[tf], todo |-> @.todo \ {tf}]]
  /\ billed' = [billed EXCEPT ![tf] = @ + counter[tf]]
  /\ UNCHANGED <<registry, counter, copy, counted, delivered, raced, nread, nreport>>

(* Mutant: the counter is left as it is. *)
Reset_Keeps(h) ==
  /\ rep[h].pc = "reset"
  /\ rep' = [rep EXCEPT ![h] = Reporting(TRUE, rep[h].todo)]
  /\ UNCHANGED <<registry, counter, copy, history, nread, nreport>>

(* Mutant: every counter is reset at the first. *)
Reset_All(h) ==
  /\ rep[h].pc = "reset"
  /\ counter' = Zero
  /\ rep' = [rep EXCEPT ![h] = Reporting(TRUE, rep[h].todo)]
  /\ UNCHANGED <<registry, copy, history, nread, nreport>>

Reset(h) ==
  /\ rep[h].pc = "reset"
  /\ counter' = [counter EXCEPT ![rep[h].tf] = 0]
  /\ rep' = [rep EXCEPT ![h] = Reporting(TRUE, rep[h].todo)]
  /\ UNCHANGED <<registry, copy, history, nread, nreport>>

Answers(h) ==
  /\ rep[h].pc = "total" /\ rep[h].todo = {}
  /\ rep' = [rep EXCEPT ![h] = Waiting]
  /\ UNCHANGED <<registry, counter, copy, history, nread, nreport>>

-----------------------------------------------------------------------------
Registry == \E rid \in Rid : getTF(rid) \/ TrafficRemove(rid)
Copy(c) == CopyStarts(c) \/ CopyReads(c) \/ Add(c) \/ CopyWrites(c) \/ CopyEnds(c)
Report(h) == Total(h) \/ TotalToReset(h) \/ Reset(h) \/ Answers(h)

Next == \/ Registry
        \/ \E c \in Copier : Copy(c)
        \/ \E h \in Reporter : PostTraffic(h) \/ Report(h)

Spec == Init /\ [][Next]_vars

-----------------------------------------------------------------------------
(* Properties *)

(* No byte is reported twice by requests that reset: whatever copies add   *)
(* meanwhile, the reports add up to what was counted at most, for a client *)
(* that does not overlap such requests (action.go:49-54).                  *)
NeverBilledTwice == \A tf \in Tf : billed[tf] <= counted[tf]

(* Bytes are lost in two places only.  As long as somebody can still       *)
(* report a counter, every byte counted is in a report or in the counter,  *)
(* unless it was added between a Total and its Reset: resets of other      *)
(* counters and removed rules lose nothing of it.  The other place is the  *)
(* removal: what a counter holds when sync() takes it out of the map       *)
(* (lib.go:86), and what copies add to it later, nobody reports.           *)
Reportable(tf) ==
  \/ \E rid \in Rid : traffic[rid] = tf
  \/ \E h \in Reporter : rep[h].reset /\ tf \in rep[h].todo
LostInGapOrRemoval ==
  \A tf \in Tf \ raced :
    Reportable(tf) /\ (\A h \in Reporter : ~Resetting(h, tf))
      => billed[tf] + counter[tf] = counted[tf]

(* What reached the other side has been counted before (relay.go:265-266). *)
DeliveredCounted == \A tf \in Tf : delivered[tf] <= counted[tf]

=============================================================================

---------------------------- MODULE TunnelsProofs ----------------------------
(***************************************************************************)
(* The tunnel servers for any number of rules, tunnels, requests and       *)
(* starts of the process: types, that the certificate and its key belong   *)
(* together, why a TLS listener may be dead, whom the paths of the mux     *)
(* servers lead to, and that clients of a relay's own kind are let in.     *)
(***************************************************************************)
EXTENDS Tunnels, TLAPS

-----------------------------------------------------------------------------
(* The files *)

(* What is known of the files at each step of main().  Unless a removal    *)
(* has failed, the certificate is gone from removeKey on, and the key only *)
(* exists next to a new certificate.  What is not there at the end was not *)
(* created, and what is torn, and is not about to be written, was torn by  *)
(* a write or a kill.                                                      *)
NoRemoval == "remove" \notin faults
FilesInv ==
  /\ made \in Nat \ {0} /\ faults \subseteq {"remove", "create", "write", "kill"}
  /\ cert \in {Absent, Torn} \cup 1 .. made /\ key \in {Absent, Torn} \cup 1 .. made
  /\ boot \in BootPc /\ after \in {"statKey", "served"}
  /\ PairMatches
  /\ boot \in {"removeKey", "generate", "createCert"} /\ NoRemoval => cert = Absent
  /\ boot \in {"generate", "createCert", "writeCert", "createKey"} /\ NoRemoval => key = Absent
  /\ boot \in {"createKey", "writeKey"} /\ NoRemoval => cert \in {Absent, Torn, made}
  /\ boot \in {"createKey", "writeKey", "statKey", "served"} /\ cert = Absent => "create" \in faults
  /\ boot = "served" /\ key = Absent => "create" \in faults
  /\ boot = "writeCert" => cert = Torn
  /\ boot = "writeKey" => key = Torn
  /\ cert = Torn /\ boot # "writeCert" => faults \cap {"write", "kill"} # {}
  /\ key = Torn /\ boot # "writeKey" => faults \cap {"write", "kill"} # {}

LEMMA FilesInit == TlsInit => FilesInv
  BY DEF TlsInit, FilesInv, PairMatches, Whole, BootPc, Absent, Torn

(* A process that serves ends without touching a file.                     *)
Stops == boot = "served" /\ boot' = "down" /\ UNCHANGED <<after, nboot, made, files, faults>>

LEMMA FilesSteps ==
  ASSUME FilesInv, TlsNext \/ Stops
  PROVE  FilesInv'
<1> USE DEF FilesInv, NoRemoval, PairMatches, Whole, BootPc, Absent, Torn, BootGoto, files, FileStep, Fault,
    NoFault
<1>1. CASE StatCert
  BY <1>1 DEF StatCert
<1>2. CASE StatKey
  BY <1>2 DEF StatKey
<1>3. CASE RemoveCert
  <2>1. CASE NoFault
    BY <1>3, <2>1 DEF RemoveCert
  <2>2. CASE Fault("remove")
    <3>1. "remove" \in faults' /\ faults \subseteq faults' /\ faults' \subseteq {"remove", "create", "write", "kill"}
      BY <2>2
    <3> HIDE DEF Fault
    <3> QED
      BY <1>3, <2>2, <3>1 DEF RemoveCert
  <2> QED
    BY <1>3, <2>1, <2>2 DEF RemoveCert
<1>4. CASE RemoveKey
  <2>1. CASE NoFault
    BY <1>4, <2>1 DEF RemoveKey
  <2>2. CASE Fault("remove")
    <3>1. "remove" \in faults' /\ faults \subseteq faults' /\ faults' \subseteq {"remove", "create", "write", "kill"}
      BY <2>2
    <3> HIDE DEF Fault
    <3> QED
      BY <1>4, <2>2, <3>1 DEF RemoveKey
  <2> QED
    BY <1>4, <2>1, <2>2 DEF RemoveKey
<1>5. CASE Generate
  BY <1>5 DEF Generate
<1>6. CASE CreateCert
  BY <1>6 DEF CreateCert
<1>7. CASE WriteCert
  <2>1. CASE NoFault
    BY <1>7, <2>1 DEF WriteCert
  <2>2. CASE Fault("write")
    <3>1. "write" \in faults' /\ faults \subseteq faults' /\ faults' \subseteq {"remove", "create", "write", "kill"}
      BY <2>2
    <3> HIDE DEF Fault
    <3> QED
      BY <1>7, <2>2, <3>1 DEF WriteCert
  <2> QED
    BY <1>7, <2>1, <2>2 DEF WriteCert
<1>8. CASE CreateKey
  BY <1>8 DEF CreateKey
<1>9. CASE WriteKey
  <2>1. CASE NoFault
    BY <1>9, <2>1 DEF WriteKey
  <2>2. CASE Fault("write")
    <3>1. "write" \in faults' /\ faults \subseteq faults' /\ faults' \subseteq {"remove", "create", "write", "kill"}
      BY <2>2
    <3> HIDE DEF Fault
    <3> QED
      BY <1>9, <2>2, <3>1 DEF WriteKey
  <2> QED
    BY <1>9, <2>1, <2>2 DEF WriteKey
<1>10. CASE Kill
  BY <1>10 DEF Kill
<1>11. CASE Restart \/ Stops
  BY <1>11 DEF Restart, Stops
<1> QED
  BY <1>1, <1>2, <1>3, <1>4, <1>5, <1>6, <1>7, <1>8, <1>9, <1>10, <1>11 DEF GetCert, TlsNext

(* While the process serves, what cannot be loaded has its cause.          *)
LEMMA ServedExplained == FilesInv /\ Up => Explained
  BY DEF FilesInv, Up, Explained, Absent, Torn

-----------------------------------------------------------------------------
(* The steps *)

Ends == Killed \/ \E c \in Conn : LookupDies(c)

(* All that requests write: the rest of control is what MuxServes writes.  *)
serving == <<pc, next, todo, writing, mux, relays, nops>>

LEMMA ClientsKeep == ASSUME NEW c \in Conn, Client(c) PROVE UNCHANGED <<tvars, control>>
  BY DEF Client, ServeHTTP, DialFails, RemoteDials, Pipes, CopyStops

LEMMA RequestsKeep == ASSUME NEW rid \in Rid, Request(rid) PROVE UNCHANGED <<tvars, listens>>
  BY DEF Request, PostAdd, NewRelay, CloseStopCh, Close, Serve, Locks, Unlocks, Written, SvrsRemove,
     StartsAgain, others

LEMMA EndsDies == Ends => Dies /\ (Kill \/ Stops) /\ boot' = "down" /\ nboot' = nboot
  BY DEF Ends, Killed, LookupDies, Kill, Stops, Up

LEMMA Steps ==
  ASSUME [Next]_vars
  PROVE  \/ UNCHANGED <<tvars, serving>>
         \/ (GetCert \/ Restart) /\ UNCHANGED serving
         \/ Ends
         \/ \E rid \in Rid : Request(rid)
  BY ClientsKeep DEF Next, Boot, MuxServes, Ends, vars, serving, control

(* Nothing listens and no request is served before GetCert() has returned. *)
Rest(rid) == pc[rid] = "idle" /\ lsn[rid] = "none" /\ svrs[rid] = 0
PcInv ==
  /\ pc \in [Rid -> {"idle", "start", "serve", "close", "write", "remove"}]
  /\ lsn \in [Rid -> {"none", "open", "dead"}]
  /\ svrs \in [Rid -> Nat]
  /\ ~Up => \A rid \in Rid : Rest(rid)

LEMMA PcInit == Init => PcInv
  BY DEF Init, PcInv, Rest, Rules

LEMMA PcSteps ==
  ASSUME PcInv, nobj \in [Rid -> Nat], next \in [Rid -> {"idle", "serve", "remove", "start"}], [Next]_vars
  PROVE  PcInv'
<1>1. CASE UNCHANGED <<tvars, serving>>
  BY <1>1 DEF PcInv, Rest, tvars, serving, relays, Up
<1>2. CASE (GetCert \/ Restart) /\ UNCHANGED serving
  <2>1. boot # "served"
    BY <1>2 DEF GetCert, Restart, StatCert, StatKey, RemoveCert, RemoveKey, Generate, CreateCert,
       WriteCert, CreateKey, WriteKey, FileStep, BootGoto
  <2> QED
    BY <1>2, <2>1 DEF PcInv, Rest, serving, relays, Up
<1>3. CASE Ends
  BY <1>3, EndsDies DEF Dies, PcInv, Rest, Rules
<1>4. ASSUME NEW rid \in Rid, Request(rid) PROVE PcInv'
  <2>1. boot' = boot /\ Up
    BY <1>4, RequestsKeep DEF Request, PostAdd, NewRelay, CloseStopCh, Close, Serve, Locks, Unlocks,
       Written, SvrsRemove, StartsAgain, tvars, PcInv, Rest
  <2>2. CASE PostAdd(rid) \/ StartsAgain(rid)
    BY <2>1, <2>2 DEF PostAdd, StartsAgain, NewRelay, PcInv, Goto, Up
  <2>3. CASE CloseStopCh(rid) \/ Close(rid)
    BY <2>1, <2>3 DEF CloseStopCh, Close, PcInv, Goto, Up
  <2>4. CASE Serve(rid)
    BY <2>1, <2>4 DEF Serve, PcInv, Goto, Up
  <2>5. CASE Locks(rid) \/ Unlocks(rid)
    BY <2>1, <2>5 DEF Locks, Unlocks, PcInv, relays, Up
  <2>6. CASE Written(rid)
    <3>1. /\ pc' = [pc EXCEPT ![rid] = IF next[rid] = "start" THEN "remove" ELSE next[rid]]
          /\ lsn' = lsn /\ svrs' = svrs
      BY <2>6 DEF Written, Goto, relays
    <3>2. (IF next[rid] = "start" THEN "remove" ELSE next[rid]) \in {"idle", "serve", "remove"}
      OBVIOUS
    <3> QED
      BY <2>1, <3>1, <3>2 DEF PcInv, Up
  <2>7. CASE SvrsRemove(rid)
    BY <2>1, <2>7 DEF SvrsRemove, PcInv, Goto, Up
  <2> QED
    BY <1>4, <2>2, <2>3, <2>4, <2>5, <2>6, <2>7 DEF Request
<1> QED
  BY <1>1, <1>2, <1>3, <1>4, Steps

RelayInv ==
  /\ next \in [Rid -> {"idle", "serve", "remove", "start"}]
  /\ nobj \in [Rid -> Nat] /\ typ \in [Rid -> Protocol]
  /\ \A rid \in Rid : /\ svrs[rid] \in {0, nobj[rid]}
                      /\ pc[rid] \in {"serve", "close", "write", "remove"} => svrs[rid] # 0
                      /\ pc[rid] = "close" => next[rid] # "idle"

LEMMA RelayInit == Init => RelayInv
  BY TunnelAssumption DEF Init, RelayInv, Rules

LEMMA RelaySteps == PcInv /\ RelayInv /\ [Next]_vars => RelayInv'
<1> SUFFICES ASSUME PcInv, RelayInv, [Next]_vars PROVE RelayInv'
  OBVIOUS
<1>1. CASE UNCHANGED serving
  BY <1>1 DEF RelayInv, serving, relays
<1>2. CASE Ends
  BY <1>2, EndsDies DEF Dies, RelayInv, PcInv, Rules
<1>3. ASSUME NEW rid \in Rid, Request(rid) PROVE RelayInv'
  <2>1. CASE PostAdd(rid) \/ StartsAgain(rid)
    BY <2>1 DEF PostAdd, StartsAgain, NewRelay, RelayInv, PcInv, Goto
  <2>2. CASE CloseStopCh(rid)
    BY <2>2 DEF CloseStopCh, RelayInv, PcInv, Goto
  <2>3. CASE Close(rid) \/ Serve(rid)
    BY <2>3 DEF Close, Serve, RelayInv, PcInv, Goto
  <2>4. CASE Locks(rid) \/ Unlocks(rid)
    BY <2>4 DEF Locks, Unlocks, RelayInv, relays
  <2>5. CASE Written(rid)
    <3>1. /\ pc[rid] = "write" /\ next' = next /\ nobj' = nobj /\ typ' = typ /\ svrs' = svrs
          /\ \E l \in {"idle", "serve", "remove"} : pc' = [pc EXCEPT ![rid] = l]
      BY <2>5 DEF Written, Goto, relays, RelayInv
    <3> QED
      BY <3>1 DEF RelayInv, PcInv
  <2>6. CASE SvrsRemove(rid)
    BY <2>6 DEF SvrsRemove, RelayInv, PcInv, Goto
  <2> QED
    BY <1>3, <2>1, <2>2, <2>3, <2>4, <2>5, <2>6 DEF Request
<1> QED
  BY <1>1, <1>2, <1>3, Steps DEF serving

(* A relay that is dead has files that cannot be loaded, and while it is   *)
(* dead the process serves and leaves them alone.                          *)
LEMMA DeadSteps ==
  FilesInv /\ PcInv /\ RelayInv /\ DeadHasCause /\ [Next]_vars => DeadHasCause'
<1> SUFFICES ASSUME FilesInv, PcInv, RelayInv, DeadHasCause, [Next]_vars PROVE DeadHasCause'
  OBVIOUS
<1>1. UNCHANGED <<files, faults>> => UNCHANGED <<Loadable, Explained>>
  BY DEF files, Loadable, Explained, PairMatches, Whole
<1>2. CASE UNCHANGED <<tvars, serving>>
  BY <1>1, <1>2 DEF DeadHasCause, tvars, serving, relays
<1>3. CASE (GetCert \/ Restart) /\ UNCHANGED serving
  <2>1. boot # "served"
    BY <1>3 DEF GetCert, Restart, StatCert, StatKey, RemoveCert, RemoveKey, Generate, CreateCert,
       WriteCert, CreateKey, WriteKey, FileStep, BootGoto
  <2> QED
    BY <1>3, <2>1 DEF DeadHasCause, PcInv, Rest, serving, relays, Up
<1>4. CASE Ends
  BY <1>4, EndsDies DEF Dies, DeadHasCause, Rules
<1>5. ASSUME NEW rid \in Rid, Request(rid) PROVE DeadHasCause'
  <2>1. Loadable' = Loadable /\ Explained' = Explained
    BY <1>1, <1>5, RequestsKeep DEF tvars
  <2>2. CASE UNCHANGED lsn \/ lsn' = [lsn EXCEPT ![rid] = "none"]
    BY <2>1, <2>2 DEF DeadHasCause, PcInv
  <2>3. CASE Serve(rid) /\ ~Muxed(rid)
    <3>1. PICK l \in {"none", "open", "dead"} : /\ lsn' = [lsn EXCEPT ![rid] = l]
                                                /\ l = "dead" => ~Loadable
      BY <2>3 DEF Serve
    <3>2. Explained
      BY <2>3, ServedExplained DEF Serve, PcInv, Rest
    <3> QED
      BY <2>1, <3>1, <3>2 DEF DeadHasCause, PcInv
  <2>4. CASE Serve(rid) /\ Muxed(rid)
    BY <2>2, <2>4 DEF Serve
  <2> QED
    BY <1>5, <2>2, <2>3, <2>4 DEF Request, PostAdd, NewRelay, CloseStopCh, Close, Locks, Unlocks, Written,
       SvrsRemove, StartsAgain, relays
<1> QED
  BY <1>2, <1>3, <1>4, <1>5, Steps

-----------------------------------------------------------------------------
(* The handlers of the mux servers *)

Handler(f, net, rid) == mux[<<ServerOf(f)[net].path, rid>>]

LEMMA PathsDiffer ==
  ASSUME NEW f \in Tsp, NEW g \in Tsp, NEW net \in Net, NEW m \in Net,
         ServerOf(f)[net].path = ServerOf(g)[m].path
  PROVE  f = g /\ net = m
  BY TunnelAssumption DEF ServerOf, WsMuxTunnelServer, WssMuxTunnelServer, Half, Net

LEMMA PathsAre ==
  ASSUME NEW f \in Tsp, NEW net \in Net, NEW rid \in Rid
  PROVE  <<ServerOf(f)[net].path, rid>> \in Path
  BY DEF Path, MuxPaths

Puts(f, net, rid, o) == mux' = [mux EXCEPT ![<<ServerOf(f)[net].path, rid>>] = o]

LEMMA HandlerWritten ==
  ASSUME mux \in [Path -> Nat], NEW f \in Tsp, NEW net \in Net, NEW rid \in Rid, NEW o \in Nat,
         Puts(f, net, rid, o)
  PROVE  /\ mux' \in [Path -> Nat]
         /\ \A g \in Tsp, m \in Net, r \in Rid :
              Handler(g, m, r)' = IF g = f /\ m = net /\ r = rid THEN o ELSE Handler(g, m, r)
<1> USE DEF Puts
<1>1. mux' \in [Path -> Nat]
  OBVIOUS
<1>2. ASSUME NEW g \in Tsp, NEW m \in Net, NEW r \in Rid
      PROVE  Handler(g, m, r)' = IF g = f /\ m = net /\ r = rid THEN o ELSE Handler(g, m, r)
  <2>1. /\ <<ServerOf(g)[m].path, r>> \in Path
        /\ <<ServerOf(g)[m].path, r>> = <<ServerOf(f)[net].path, rid>> <=> g = f /\ m = net /\ r = rid
    BY PathsAre, PathsDiffer
  <2>2. Handler(g, m, r)' = mux'[<<ServerOf(g)[m].path, r>>]
    BY DEF Handler, ServerOf
  <2> QED
    BY <2>1, <2>2 DEF Handler
<1> QED
  BY <1>1, <1>2

(* Whose handlers stand, or will once the writes of todo are done.         *)
On(rid) == pc[rid] \in {"idle", "close"} \/ (pc[rid] = "write" /\ next[rid] = "idle")
Settled(rid, net) == IF On(rid) /\ net \in typ[rid].nets THEN svrs[rid] ELSE 0
Pending(rid) == {net \in Net : \E i \in 1 .. Len(todo[rid]) : todo[rid][i].net = net}
Todos(rid) == {<<>>} \cup {<<Write(net, Settled(rid, net))>> : net \in Net}
                \cup {<<Write("tcp", Settled(rid, "tcp")), Write("udp", Settled(rid, "udp"))>>}

(* A path leads to the registered object or nowhere, nothing is behind the *)
(* paths of another family, and a path that no write is coming for is as   *)
(* it is to stay.                                                          *)
TodoOf(rid) ==
  /\ todo[rid] \in Todos(rid)
  /\ todo[rid] # <<>> => pc[rid] = "write" /\ Muxed(rid)
HandlersOf(rid) ==
  \A f \in Tsp, net \in Net :
    /\ Handler(f, net, rid) \in {0, svrs[rid]}
    /\ f # Fam(rid) => Handler(f, net, rid) = 0
    /\ f = Fam(rid) /\ net \notin Pending(rid) => Handler(f, net, rid) = Settled(rid, net)
MuxInv ==
  /\ mux \in [Path -> Nat] /\ DOMAIN todo = Rid
  /\ \A rid \in Rid : TodoOf(rid) /\ HandlersOf(rid)

LEMMA PendingOfNone == ASSUME NEW rid \in Rid, todo[rid] = <<>> PROVE Pending(rid) = {}
  BY DEF Pending

LEMMA MuxInit == Init => MuxInv
<1> SUFFICES ASSUME Init PROVE MuxInv
  OBVIOUS
<1>1. mux \in [Path -> Nat] /\ DOMAIN todo = Rid
  BY DEF Init, Rules
<1>2. ASSUME NEW rid \in Rid PROVE TodoOf(rid)
  BY DEF Init, Rules, TodoOf, Todos
<1>3. ASSUME NEW rid \in Rid, NEW f \in Tsp, NEW net \in Net PROVE Handler(f, net, rid) = 0
  BY PathsAre DEF Init, Handler
<1>4. ASSUME NEW rid \in Rid PROVE svrs[rid] = 0
  BY DEF Init, Rules
<1> QED
  BY <1>1, <1>2, <1>3, <1>4 DEF MuxInv, HandlersOf, Settled

LEMMA PendingOfOne ==
  ASSUME NEW rid \in Rid, NEW net \in Net, NEW o, todo[rid] = <<Write(net, o)>>
  PROVE  Pending(rid) = {net}
<1>1. Len(todo[rid]) = 1 /\ todo[rid][1].net = net
  BY DEF Write
<1> QED
  BY <1>1 DEF Pending

LEMMA PendingOfTwo ==
  ASSUME NEW rid \in Rid, NEW o, NEW p, todo[rid] = <<Write("tcp", o), Write("udp", p)>>
  PROVE  Pending(rid) = Net
<1>1. Len(todo[rid]) = 2 /\ todo[rid][1].net = "tcp" /\ todo[rid][2].net = "udp"
  BY DEF Write
<1> QED
  BY <1>1 DEF Pending, Net

(* A write takes effect: the path is as it is to stay, and one fewer is    *)
(* pending.                                                                *)
LEMMA UnlocksWrites ==
  ASSUME MuxInv, RelayInv, PcInv, NEW rid \in Rid, Unlocks(rid)
  PROVE  /\ Fam(rid) \in Tsp /\ pc[rid] = "write"
         /\ \E net \in Net :
              /\ Settled(rid, net) \in Nat
              /\ mux' = [mux EXCEPT ![<<ServerOf(Fam(rid))[net].path, rid>>] = Settled(rid, net)]
              /\ \/ todo'[rid] = <<>> /\ Pending(rid) = {net}
                 \/ /\ todo'[rid] = <<Write("udp", Settled(rid, "udp"))>>
                    /\ Pending(rid) = Net /\ net = "tcp"
<1>1. Fam(rid) \in Tsp /\ pc[rid] = "write" /\ todo[rid] \in Todos(rid) \ {<<>>}
  BY DEF Unlocks, MuxInv, TodoOf, Muxed, Fam
<1>2. \A net \in Net : Settled(rid, net) \in Nat
  BY DEF PcInv, Settled
<1>3. /\ mux' = [mux EXCEPT ![<<ServerOf(Fam(rid))[Head(todo[rid]).net].path, rid>>] = Head(todo[rid]).obj]
      /\ todo'[rid] = Tail(todo[rid])
  BY DEF Unlocks, MuxInv
<1>4. CASE \E net \in Net : todo[rid] = <<Write(net, Settled(rid, net))>>
  <2>1. PICK net \in Net : todo[rid] = <<Write(net, Settled(rid, net))>>
    BY <1>4
  <2>2. Head(todo[rid]) = Write(net, Settled(rid, net)) /\ Tail(todo[rid]) = <<>>
    BY <2>1
  <2>3. Head(todo[rid]).net = net /\ Head(todo[rid]).obj = Settled(rid, net)
    BY <2>2 DEF Write
  <2> QED
    BY <1>1, <1>2, <1>3, <2>1, <2>2, <2>3, PendingOfOne
<1>5. CASE todo[rid] = <<Write("tcp", Settled(rid, "tcp")), Write("udp", Settled(rid, "udp"))>>
  <2>1. /\ Head(todo[rid]) = Write("tcp", Settled(rid, "tcp"))
        /\ Tail(todo[rid]) = <<Write("udp", Settled(rid, "udp"))>>
    BY <1>5
  <2>2. Head(todo[rid]).net = "tcp" /\ Head(todo[rid]).obj = Settled(rid, "tcp")
    BY <2>1 DEF Write
  <2>3. "tcp" \in Net
    BY DEF Net
  <2>4. Pending(rid) = Net
    BY <1>5, PendingOfTwo
  <2> QED
    BY <1>1, <1>2, <1>3, <2>1, <2>2, <2>3, <2>4
<1> QED
  BY <1>1, <1>4, <1>5 DEF Todos

(* What a request leaves of the other rules: all of it.                    *)
LEMMA OthersStay ==
  ASSUME MuxInv, PcInv, RelayInv, NEW rid \in Rid, Request(rid), NEW r \in Rid, r # rid
  PROVE  /\ pc'[r] = pc[r] /\ next'[r] = next[r] /\ todo'[r] = todo[r]
         /\ typ'[r] = typ[r] /\ svrs'[r] = svrs[r]
         /\ \A f \in Tsp, net \in Net : Handler(f, net, r)' = Handler(f, net, r)
<1>1. pc'[r] = pc[r] /\ next'[r] = next[r]
  BY DEF Request, PostAdd, NewRelay, CloseStopCh, Close, Serve, Locks, Unlocks, Written, SvrsRemove,
     StartsAgain, Goto, PcInv, RelayInv
<1>2. todo'[r] = todo[r]
  BY DEF Request, PostAdd, NewRelay, CloseStopCh, Close, Serve, Locks, Unlocks, Written, SvrsRemove,
     StartsAgain, MuxInv
<1>3. typ'[r] = typ[r] /\ svrs'[r] = svrs[r]
  BY DEF Request, PostAdd, NewRelay, CloseStopCh, Close, Serve, Locks, Unlocks, Written, SvrsRemove,
     StartsAgain, relays, PcInv, RelayInv
<1>4. ASSUME NEW f \in Tsp, NEW net \in Net PROVE Handler(f, net, r)' = Handler(f, net, r)
  <2>1. CASE mux' = mux
    BY <2>1 DEF Handler, ServerOf
  <2>2. CASE Unlocks(rid)
    <3>1. PICK g \in Tsp, m \in Net, o \in Nat : Puts(g, m, rid, o)
      BY <2>2, UnlocksWrites DEF Puts
    <3>2. mux \in [Path -> Nat]
      BY DEF MuxInv
    <3> QED
      BY <3>1, <3>2, HandlerWritten
  <2> QED
    BY <2>1, <2>2 DEF Request, PostAdd, NewRelay, CloseStopCh, Close, Serve, Locks, Written, SvrsRemove,
       StartsAgain
<1> QED
  BY <1>1, <1>2, <1>3, <1>4

LEMMA OthersMux ==
  ASSUME MuxInv, PcInv, RelayInv, NEW rid \in Rid, Request(rid), NEW r \in Rid, r # rid
  PROVE  TodoOf(r)' /\ HandlersOf(r)'
<1>1. TodoOf(r) /\ HandlersOf(r)
  BY DEF MuxInv
<1>2. /\ Pending(r)' = Pending(r) /\ Fam(r)' = Fam(r) /\ Muxed(r)' = Muxed(r)
      /\ \A net : Settled(r, net)' = Settled(r, net)
  BY OthersStay DEF Pending, Fam, Muxed, Settled, On
<1>3. TodoOf(r)'
  BY <1>1, <1>2, OthersStay DEF TodoOf, Todos
<1>4. HandlersOf(r)'
  BY <1>1, <1>2, OthersStay DEF HandlersOf
<1> QED
  BY <1>3, <1>4

(* Where nothing is to stand and nothing is pending, nothing stands.       *)
LEMMA NoHandlers ==
  ASSUME MuxInv, NEW rid \in Rid, todo[rid] = <<>>, ~On(rid) \/ svrs[rid] = 0,
         NEW f \in Tsp, NEW net \in Net
  PROVE  Handler(f, net, rid) = 0
<1>1. HandlersOf(rid) /\ Pending(rid) = {}
  BY PendingOfNone DEF MuxInv
<1> QED
  BY <1>1 DEF HandlersOf, Settled

(* When todo stays empty, it is enough to know what is to stand.           *)
LEMMA NothingPending ==
  ASSUME NEW rid \in Rid, todo'[rid] = <<>>,
         \A f \in Tsp, net \in Net :
           /\ Handler(f, net, rid)' = IF f = Fam(rid)' THEN Settled(rid, net)' ELSE 0
           /\ Settled(rid, net)' \in {0, svrs'[rid]}
  PROVE  TodoOf(rid)' /\ HandlersOf(rid)'
  BY DEF TodoOf, HandlersOf, Todos

LEMMA NetsAre ==
  ASSUME NEW t \in Protocol PROVE t.nets \in {Net, {"tcp"}, {"udp"}}
<1>1. t.nets \subseteq {"tcp", "udp"} /\ t.nets # {}
  BY TunnelAssumption DEF Net
<1>2. CASE "tcp" \in t.nets /\ "udp" \in t.nets
  BY <1>1, <1>2 DEF Net
<1>3. CASE "tcp" \notin t.nets
  BY <1>1, <1>3
<1>4. CASE "udp" \notin t.nets
  BY <1>1, <1>4
<1> QED
  BY <1>2, <1>3, <1>4

LEMMA OwnMux ==
  ASSUME FreshAdds, MuxInv, PcInv, RelayInv, NEW rid \in Rid, Request(rid)
  PROVE  TodoOf(rid)' /\ HandlersOf(rid)'
<1>1. CASE PostAdd(rid) \/ StartsAgain(rid)
  <2>1. /\ pc[rid] \in {"idle", "start"} /\ pc'[rid] = "serve"
        /\ todo' = todo /\ mux' = mux
        /\ pc[rid] = "idle" => svrs[rid] = 0
    BY <1>1 DEF PostAdd, StartsAgain, NewRelay, Goto, PcInv
  <2>2. todo[rid] = <<>> /\ (~On(rid) \/ svrs[rid] = 0)
    BY <2>1 DEF MuxInv, TodoOf, On
  <2>3. ASSUME NEW f \in Tsp, NEW net \in Net
        PROVE  Handler(f, net, rid)' = 0 /\ Settled(rid, net)' = 0
    BY <2>1, <2>2, NoHandlers DEF Handler, ServerOf, Settled, On
  <2> QED
    BY <2>1, <2>2, <2>3, NothingPending
<1>2. CASE CloseStopCh(rid)
  <2>1. /\ pc[rid] = "idle" /\ pc'[rid] = "close"
        /\ UNCHANGED <<todo, mux, svrs, typ>>
    BY <1>2 DEF CloseStopCh, Goto, PcInv
  <2>2. /\ \A net : Settled(rid, net)' = Settled(rid, net)
        /\ Pending(rid)' = Pending(rid) /\ Fam(rid)' = Fam(rid)
        /\ todo[rid] = <<>>
    BY <2>1 DEF Settled, On, Pending, Fam, MuxInv, TodoOf
  <2>3. \A f, net : Handler(f, net, rid)' = Handler(f, net, rid)
    BY <2>1 DEF Handler, ServerOf
  <2> QED
    BY <2>1, <2>2, <2>3 DEF MuxInv, TodoOf, HandlersOf, Todos
<1>3. CASE Close(rid)
  <2>1. /\ pc[rid] = "close" /\ pc'[rid] = "write" /\ next' = next /\ next[rid] # "idle"
        /\ UNCHANGED <<mux, svrs, typ>>
        /\ todo'[rid] = IF Muxed(rid) THEN <<Write("tcp", 0), Write("udp", 0)>> ELSE <<>>
    BY <1>3 DEF Close, Goto, PcInv, RelayInv, MuxInv
  <2>2. /\ \A net : Settled(rid, net)' = 0
        /\ Fam(rid)' = Fam(rid) /\ Muxed(rid)' = Muxed(rid)
    BY <2>1 DEF Settled, On, Fam, Muxed
  <2>3. \A f, net : Handler(f, net, rid)' = Handler(f, net, rid)
    BY <2>1 DEF Handler, ServerOf
  <2>4. TodoOf(rid)'
    BY <2>1, <2>2 DEF TodoOf, Todos
  <2>5. CASE Muxed(rid)
    <3>1. Pending(rid)' = Net
      <4>1. Len(todo'[rid]) = 2 /\ todo'[rid][1].net = "tcp" /\ todo'[rid][2].net = "udp"
        BY <2>1, <2>5 DEF Write
      <4> QED
        BY <4>1 DEF Pending, Net
    <3> QED
      BY <2>1, <2>2, <2>3, <2>4, <3>1 DEF MuxInv, HandlersOf
  <2>6. CASE ~Muxed(rid)
    BY <2>1, <2>2, <2>3, <2>4, <2>6 DEF MuxInv, HandlersOf, Muxed, Fam
  <2> QED
    BY <2>5, <2>6
<1>4. CASE Serve(rid)
  <2>1. /\ pc[rid] = "serve" /\ pc'[rid] = "write" /\ next'[rid] = "idle"
        /\ UNCHANGED <<mux, svrs, typ>> /\ svrs[rid] = nobj[rid] /\ svrs[rid] \in Nat
        /\ todo'[rid] = IF Muxed(rid) THEN Registers(rid) ELSE todo[rid]
    BY <1>4 DEF Serve, Goto, PcInv, RelayInv, MuxInv
  <2>2. todo[rid] = <<>> /\ ~On(rid)
    BY <2>1 DEF MuxInv, TodoOf, On
  <2>3. /\ \A net : Settled(rid, net)' = IF net \in typ[rid].nets THEN nobj[rid] ELSE 0
        /\ Fam(rid)' = Fam(rid) /\ Muxed(rid)' = Muxed(rid)
    BY <2>1 DEF Settled, On, Fam, Muxed
  <2>4. \A f \in Tsp, net \in Net : Handler(f, net, rid)' = 0
    BY <2>1, <2>2, NoHandlers DEF Handler, ServerOf
  <2>5. CASE ~Muxed(rid)
    BY <2>1, <2>2, <2>3, <2>4, <2>5 DEF TodoOf, Todos, HandlersOf, Muxed, Fam
  <2>6. CASE Muxed(rid)
    <3>1. /\ typ[rid].nets \in {Net, {"tcp"}, {"udp"}}
      BY NetsAre DEF RelayInv
    <3>2. ASSUME TodoOf(rid)', Pending(rid)' = typ[rid].nets
          PROVE  HandlersOf(rid)'
      BY <2>1, <2>3, <2>4, <3>2 DEF HandlersOf
    <3>3. CASE typ[rid].nets = Net
      <4>1. todo'[rid] = <<Write("tcp", nobj[rid]), Write("udp", nobj[rid])>>
        <5>1. Net # {"tcp"} /\ Net # {"udp"}
          BY DEF Net
        <5> QED
          BY <2>1, <2>6, <3>3, <5>1 DEF Registers
      <4>2. Len(todo'[rid]) = 2 /\ todo'[rid][1].net = "tcp" /\ todo'[rid][2].net = "udp"
        BY <4>1 DEF Write
      <4>3. Pending(rid)' = typ[rid].nets
        BY <3>3, <4>2 DEF Pending, Net
      <4>4. TodoOf(rid)'
        BY <2>1, <2>3, <2>6, <3>3, <4>1 DEF TodoOf, Todos, Net
      <4> QED
        BY <3>2, <4>3, <4>4
    <3>4. ASSUME NEW net \in Net, typ[rid].nets = {net}
          PROVE  TodoOf(rid)' /\ HandlersOf(rid)'
      <4>1. todo'[rid] = <<Write(net, nobj[rid])>>
        BY <2>1, <2>6, <3>4 DEF Registers, Net
      <4>2. Len(todo'[rid]) = 1 /\ todo'[rid][1].net = net
        BY <4>1 DEF Write
      <4>3. Pending(rid)' = typ[rid].nets
        BY <3>4, <4>2 DEF Pending
      <4>4. TodoOf(rid)'
        BY <2>1, <2>3, <2>6, <3>4, <4>1 DEF TodoOf, Todos
      <4> QED
        BY <3>2, <4>3, <4>4
    <3> QED
      BY <3>1, <3>2, <3>3, <3>4 DEF Net
  <2> QED
    BY <2>5, <2>6
<1>5. CASE Locks(rid)
  <2>1. UNCHANGED <<pc, next, todo, mux, svrs, typ>>
    BY <1>5 DEF Locks, relays
  <2>2. /\ \A net : Settled(rid, net)' = Settled(rid, net)
        /\ Pending(rid)' = Pending(rid) /\ Fam(rid)' = Fam(rid)
    BY <2>1 DEF Settled, On, Pending, Fam
  <2>3. \A f, net : Handler(f, net, rid)' = Handler(f, net, rid)
    BY <2>1 DEF Handler, ServerOf
  <2> QED
    BY <2>1, <2>2, <2>3 DEF MuxInv, TodoOf, HandlersOf, Todos, Muxed
<1>6. CASE Unlocks(rid)
  <2>1. PICK net \in Net :
          /\ Settled(rid, net) \in Nat
          /\ mux' = [mux EXCEPT ![<<ServerOf(Fam(rid))[net].path, rid>>] = Settled(rid, net)]
          /\ \/ todo'[rid] = <<>> /\ Pending(rid) = {net}
             \/ /\ todo'[rid] = <<Write("udp", Settled(rid, "udp"))>>
                /\ Pending(rid) = Net /\ net = "tcp"
    BY <1>6, UnlocksWrites
  <2>2. PICK f \in Tsp : f = Fam(rid)
    BY <1>6, UnlocksWrites
  <2>3. PICK o \in Nat : o = Settled(rid, net)
    BY <2>1
  <2>4. UNCHANGED <<pc, next, svrs, typ>> /\ pc[rid] = "write"
    BY <1>6 DEF Unlocks, relays
  <2>5. /\ \A m : Settled(rid, m)' = Settled(rid, m)
        /\ Fam(rid)' = Fam(rid) /\ Muxed(rid)' = Muxed(rid) /\ Muxed(rid)
    BY <2>2, <2>4 DEF Settled, On, Fam, Muxed
  <2>6. \A g \in Tsp, m \in Net :
          Handler(g, m, rid)' = IF g = f /\ m = net THEN o ELSE Handler(g, m, rid)
    <3>1. Puts(f, net, rid, o) /\ mux \in [Path -> Nat]
      BY <2>1, <2>2, <2>3 DEF Puts, MuxInv
    <3> QED
      BY <3>1, HandlerWritten
  <2>7. Pending(rid)' = Pending(rid) \ {net}
    <3>1. CASE todo'[rid] = <<>> /\ Pending(rid) = {net}
      BY <3>1 DEF Pending
    <3>2. CASE /\ todo'[rid] = <<Write("udp", Settled(rid, "udp"))>>
               /\ Pending(rid) = Net /\ net = "tcp"
      <4>1. Len(todo'[rid]) = 1 /\ todo'[rid][1].net = "udp"
        BY <3>2 DEF Write
      <4>2. Pending(rid)' = {"udp"}
        BY <4>1 DEF Pending, Net
      <4> QED
        BY <3>2, <4>2 DEF Net
    <3> QED
      BY <2>1, <3>1, <3>2
  <2>8. TodoOf(rid)'
    BY <2>1, <2>4, <2>5 DEF TodoOf, Todos, Net
  <2>9. HandlersOf(rid)'
    <3>1. HandlersOf(rid)
      BY DEF MuxInv
    <3>2. o \in {0, svrs[rid]}
      BY <2>3 DEF Settled
    <3> QED
      BY <2>2, <2>3, <2>4, <2>5, <2>6, <2>7, <3>1, <3>2 DEF HandlersOf
  <2> QED
    BY <2>8, <2>9
<1>7. CASE Written(rid)
  <2>1. /\ pc[rid] = "write" /\ todo[rid] = <<>>
        /\ pc'[rid] = IF next[rid] = "start" THEN "remove" ELSE next[rid]
        /\ UNCHANGED <<next, todo, mux, svrs, typ>>
    BY <1>7 DEF Written, Goto, PcInv, relays
  <2>2. On(rid)' <=> On(rid)
    BY <2>1 DEF On, RelayInv
  <2>3. /\ \A net : Settled(rid, net)' = Settled(rid, net)
        /\ Pending(rid)' = Pending(rid) /\ Fam(rid)' = Fam(rid)
    BY <2>1, <2>2 DEF Settled, Pending, Fam
  <2>4. \A f, net : Handler(f, net, rid)' = Handler(f, net, rid)
    BY <2>1 DEF Handler, ServerOf
  <2> QED
    BY <2>1, <2>3, <2>4 DEF MuxInv, TodoOf, HandlersOf, Todos
<1>8. CASE SvrsRemove(rid)
  <2>1. pc[rid] = "remove" /\ svrs'[rid] = 0 /\ UNCHANGED <<todo, mux>>
    BY <1>8 DEF SvrsRemove, PcInv
  <2>2. todo[rid] = <<>> /\ ~On(rid)
    BY <2>1 DEF MuxInv, TodoOf, On
  <2>3. ASSUME NEW f \in Tsp, NEW net \in Net
        PROVE  Handler(f, net, rid)' = 0 /\ Settled(rid, net)' = 0
    BY <2>1, <2>2, NoHandlers DEF Handler, ServerOf, Settled
  <2> QED
    BY <2>1, <2>2, <2>3, NothingPending
<1> QED
  BY <1>1, <1>2, <1>3, <1>4, <1>5, <1>6, <1>7, <1>8 DEF Request

LEMMA MuxSteps == FreshAdds /\ MuxInv /\ PcInv /\ RelayInv /\ [Next]_vars => MuxInv'
<1> SUFFICES ASSUME FreshAdds, MuxInv, PcInv, RelayInv, [Next]_vars PROVE MuxInv'
  OBVIOUS
<1>1. CASE UNCHANGED serving
  <2>1. UNCHANGED <<pc, next, todo, mux, svrs, typ>>
    BY <1>1 DEF serving, relays
  <2>2. ASSUME NEW rid \in Rid PROVE TodoOf(rid)' /\ HandlersOf(rid)'
    <3>1. /\ \A net : Settled(rid, net)' = Settled(rid, net)
          /\ Pending(rid)' = Pending(rid) /\ Fam(rid)' = Fam(rid) /\ Muxed(rid)' = Muxed(rid)
      BY <2>1 DEF Settled, On, Pending, Fam, Muxed
    <3>2. \A f, net : Handler(f, net, rid)' = Handler(f, net, rid)
      BY <2>1 DEF Handler, ServerOf
    <3> QED
      BY <2>1, <3>1, <3>2 DEF MuxInv, TodoOf, HandlersOf, Todos
  <2> QED
    BY <2>1, <2>2 DEF MuxInv
<1>2. CASE Ends
  <2> Dies
    BY <1>2, EndsDies
  <2>1. mux' \in [Path -> Nat] /\ DOMAIN todo' = Rid
    BY DEF Dies, Rules
  <2>2. ASSUME NEW rid \in Rid PROVE TodoOf(rid)' /\ HandlersOf(rid)'
    <3>1. todo'[rid] = <<>> /\ svrs'[rid] = 0
      BY DEF Dies, Rules
    <3>2. ASSUME NEW f \in Tsp, NEW net \in Net
          PROVE  Handler(f, net, rid)' = 0 /\ Settled(rid, net)' = 0
      BY <3>1, PathsAre DEF Dies, Handler, ServerOf, Settled
    <3> QED
      BY <3>1, <3>2, NothingPending
  <2> QED
    BY <2>1, <2>2 DEF MuxInv
<1>3. ASSUME NEW rid \in Rid, Request(rid) PROVE MuxInv'
  <2>1. DOMAIN todo' = Rid
    BY <1>3 DEF MuxInv, Request, PostAdd, NewRelay, CloseStopCh, Close, Serve, Locks, Unlocks,
       Written, SvrsRemove, StartsAgain
  <2>2. mux' \in [Path -> Nat]
    <3>1. CASE Unlocks(rid)
      <4>1. PICK g \in Tsp, m \in Net, o \in Nat : Puts(g, m, rid, o)
        BY <3>1, UnlocksWrites DEF Puts
      <4> QED
        BY <4>1, HandlerWritten DEF MuxInv
    <3>2. CASE mux' = mux
      BY <3>2 DEF MuxInv, Path, MuxPaths, ServerOf
    <3> QED
      BY <1>3, <3>1, <3>2 DEF Request, PostAdd, NewRelay, CloseStopCh, Close, Serve, Locks, Written,
         SvrsRemove, StartsAgain
  <2> QED
    BY <1>3, <2>1, <2>2, OwnMux, OthersMux DEF MuxInv
<1> QED
  BY <1>1, <1>2, <1>3, Steps DEF serving

-----------------------------------------------------------------------------
(* Bounds and types *)

(* A goroutine between Lock() and Unlock() still has a handler to write,   *)
(* so it does not go on before it has unlocked.                            *)
WriteInv ==
  /\ writing \in [Tsp -> SUBSET Rid]
  /\ \A f \in Tsp : \A rid \in writing[f] : Fam(rid) = f /\ pc[rid] = "write" /\ todo[rid] # <<>>

LEMMA WriteSteps ==
  MuxInv /\ PcInv /\ RelayInv /\ WriteInv /\ [Next]_vars => WriteInv'
<1> SUFFICES ASSUME MuxInv, PcInv, RelayInv, WriteInv, [Next]_vars PROVE WriteInv'
  OBVIOUS
<1>1. CASE UNCHANGED serving
  BY <1>1 DEF WriteInv, serving, relays, Fam
<1>2. CASE Ends
  BY <1>2, EndsDies DEF Dies, WriteInv
<1>3. ASSUME NEW rid \in Rid, Request(rid) PROVE WriteInv'
  <2>1. ASSUME NEW r \in Rid, r # rid
        PROVE  pc'[r] = pc[r] /\ todo'[r] = todo[r] /\ Fam(r)' = Fam(r)
    BY <1>3, <2>1, OthersStay DEF Fam
  <2>2. CASE /\ writing' = writing
             /\ \A f \in Tsp : rid \notin writing[f]
    BY <2>1, <2>2 DEF WriteInv
  <2>3. CASE PostAdd(rid) \/ StartsAgain(rid) \/ CloseStopCh(rid) \/ Close(rid) \/ Serve(rid) \/ SvrsRemove(rid)
    <3>1. pc[rid] # "write" /\ writing' = writing
      BY <2>3 DEF PostAdd, StartsAgain, NewRelay, CloseStopCh, Close, Serve, SvrsRemove
    <3> QED
      BY <2>2, <3>1 DEF WriteInv
  <2>4. CASE Written(rid)
    <3>1. todo[rid] = <<>> /\ writing' = writing
      BY <2>4 DEF Written
    <3> QED
      BY <2>2, <3>1 DEF WriteInv
  <2>5. CASE Locks(rid)
    <3>1. /\ pc[rid] = "write" /\ todo[rid] # <<>>
          /\ UNCHANGED <<pc, todo, typ>>
          /\ writing' = [writing EXCEPT ![Fam(rid)] = @ \cup {rid}]
      BY <2>5 DEF Locks, relays
    <3> QED
      BY <3>1 DEF WriteInv, Fam
  <2>6. CASE Unlocks(rid)
    <3>1. /\ UNCHANGED <<pc, typ>>
          /\ writing' = [writing EXCEPT ![Fam(rid)] = @ \ {rid}]
      BY <2>6 DEF Unlocks, relays
    <3>2. \A f \in Tsp : writing'[f] \subseteq writing[f] \ {rid}
      BY <3>1 DEF WriteInv
    <3>3. writing' \in [Tsp -> SUBSET Rid]
      BY <3>1 DEF WriteInv
    <3> QED
      BY <2>1, <3>2, <3>3 DEF WriteInv
  <2> QED
    BY <1>3, <2>3, <2>4, <2>5, <2>6 DEF Request
<1> QED
  BY <1>1, <1>2, <1>3, Steps DEF serving

(* Every object was paid for by a request, the one that an edit or a       *)
(* restart has still to make too.                                          *)
Owed(rid) == IF next[rid] = "start" /\ pc[rid] \in {"close", "write", "remove", "start"} THEN 1 ELSE 0
OpsInv ==
  /\ nops \in 0 .. MaxOps
  /\ \A rid \in Rid : nobj[rid] + Owed(rid) <= nops
  /\ \A rid \in Rid : pc[rid] = "start" => next[rid] = "start"

LEMMA OpsSteps == PcInv /\ RelayInv /\ OpsInv /\ [Next]_vars => OpsInv'
<1> SUFFICES ASSUME PcInv, RelayInv, OpsInv, [Next]_vars PROVE OpsInv'
  OBVIOUS
<1> USE TunnelAssumption
<1>1. CASE UNCHANGED serving
  BY <1>1 DEF OpsInv, Owed, serving, relays
<1>2. CASE Ends
  BY <1>2, EndsDies DEF Dies, OpsInv, Owed, RelayInv, Rules
<1>3. ASSUME NEW rid \in Rid, Request(rid) PROVE OpsInv'
  <2>1. ASSUME nops' \in {nops, nops + 1}, nops' <= MaxOps,
               \A r \in Rid : r # rid => pc'[r] = pc[r] /\ next'[r] = next[r] /\ nobj'[r] = nobj[r],
               nobj'[rid] + Owed(rid)' <= nops',
               pc'[rid] = "start" => next'[rid] = "start"
        PROVE  OpsInv'
    <3>1. nops' \in 0 .. MaxOps
      BY <2>1 DEF OpsInv
    <3>2. ASSUME NEW r \in Rid PROVE nobj'[r] + Owed(r)' <= nops'
      <4>1. CASE r # rid
        <5>1. nobj'[r] = nobj[r] /\ Owed(r)' = Owed(r) /\ nobj[r] + Owed(r) <= nops
          BY <2>1, <4>1 DEF OpsInv, Owed
        <5>2. nobj[r] \in Nat /\ Owed(r) \in {0, 1} /\ nops \in Nat
          BY DEF RelayInv, Owed, OpsInv
        <5> QED
          BY <2>1, <5>1, <5>2
      <4> QED
        BY <2>1, <4>1
    <3> QED
      BY <2>1, <3>1, <3>2 DEF OpsInv
  <2>2. nobj[rid] \in Nat /\ nops \in Nat /\ nops <= MaxOps /\ nobj[rid] + Owed(rid) <= nops
    BY DEF RelayInv, OpsInv
  <2>3. CASE PostAdd(rid)
    <3>1. /\ nops' = nops + 1 /\ nops < MaxOps /\ next' = next
          /\ nobj' = [nobj EXCEPT ![rid] = @ + 1] /\ pc' = [pc EXCEPT ![rid] = "serve"]
      BY <2>3 DEF PostAdd, NewRelay, Goto
    <3>2. Owed(rid)' = 0 /\ nobj'[rid] = nobj[rid] + 1 /\ Owed(rid) \in {0, 1}
      BY <3>1 DEF Owed, PcInv, RelayInv
    <3> QED
      BY <2>1, <2>2, <3>1, <3>2 DEF PcInv, RelayInv
  <2>4. CASE StartsAgain(rid)
    <3>1. /\ pc[rid] = "start" /\ nops' = nops /\ next' = next
          /\ nobj' = [nobj EXCEPT ![rid] = @ + 1] /\ pc' = [pc EXCEPT ![rid] = "serve"]
      BY <2>4 DEF StartsAgain, NewRelay, Goto
    <3>2. Owed(rid)' = 0 /\ nobj'[rid] = nobj[rid] + 1 /\ Owed(rid) = 1
      BY <3>1 DEF Owed, PcInv, RelayInv, OpsInv
    <3> QED
      BY <2>1, <2>2, <3>1, <3>2 DEF PcInv, RelayInv
  <2>5. CASE CloseStopCh(rid)
    <3>1. /\ nops' = nops + 1 /\ nops < MaxOps /\ nobj' = nobj
          /\ \E nx \in {"remove", "start", "serve"} : next' = [next EXCEPT ![rid] = nx]
          /\ pc[rid] = "idle" /\ pc' = [pc EXCEPT ![rid] = "close"]
      BY <2>5 DEF CloseStopCh, Goto
    <3>2. Owed(rid) = 0 /\ Owed(rid)' \in {0, 1}
      BY <3>1 DEF Owed
    <3>3. pc'[rid] = "close" /\ \A r \in Rid : r # rid => pc'[r] = pc[r] /\ next'[r] = next[r]
      BY <3>1 DEF PcInv, RelayInv
    <3> QED
      BY <2>1, <2>2, <3>1, <3>2, <3>3
  <2>6. CASE Close(rid) \/ Serve(rid)
    <3>1. /\ nops' = nops /\ nobj' = nobj
          /\ \/ pc[rid] = "close" /\ next' = next
             \/ next' = [next EXCEPT ![rid] = "idle"]
          /\ pc' = [pc EXCEPT ![rid] = "write"]
      BY <2>6 DEF Close, Serve, Goto
    <3>2. Owed(rid) \in {0, 1} /\ Owed(rid)' \in {0, Owed(rid)}
      BY <3>1 DEF Owed, RelayInv, PcInv
    <3>3. pc'[rid] = "write" /\ \A r \in Rid : r # rid => pc'[r] = pc[r] /\ next'[r] = next[r]
      BY <3>1 DEF PcInv, RelayInv
    <3> QED
      BY <2>1, <2>2, <3>1, <3>2, <3>3
  <2>7. CASE Locks(rid) \/ Unlocks(rid)
    <3>1. nops' = nops /\ nobj' = nobj /\ next' = next /\ pc' = pc
      BY <2>7 DEF Locks, Unlocks, relays
    <3> QED
      BY <3>1 DEF OpsInv, Owed
  <2>8. CASE Written(rid) \/ SvrsRemove(rid)
    <3>1. /\ nops' = nops /\ nobj' = nobj /\ next' = next
          /\ \E l \in {"idle", "serve", "remove", "start"} :
               /\ pc' = [pc EXCEPT ![rid] = l]
               /\ l = "start" => next[rid] = "start"
               /\ pc[rid] \in {"write", "remove"}
      BY <2>8 DEF Written, SvrsRemove, Goto, relays, RelayInv
    <3>2. Owed(rid) \in {0, 1} /\ Owed(rid)' \in {0, Owed(rid)}
      BY <3>1 DEF Owed, RelayInv, PcInv
    <3>3. /\ pc'[rid] = "start" => next'[rid] = "start"
          /\ \A r \in Rid : r # rid => pc'[r] = pc[r] /\ next'[r] = next[r]
      BY <3>1 DEF PcInv, RelayInv
    <3> QED
      BY <2>1, <2>2, <3>1, <3>2, <3>3
  <2> QED
    BY <1>3, <2>3, <2>4, <2>5, <2>6, <2>7, <2>8 DEF Request
<1> QED
  BY <1>1, <1>2, <1>3, Steps DEF serving

BootInv == nboot \in 1 .. MaxBoot /\ listens \subseteq Tsp

LEMMA BootSteps == BootInv /\ [Next]_vars => BootInv'
<1> SUFFICES ASSUME BootInv, [Next]_vars PROVE BootInv'
  OBVIOUS
<1> USE TlsAssumption DEF BootInv
<1>1. nboot' \in 1 .. MaxBoot
  <2>1. CASE UNCHANGED tvars
    BY <2>1 DEF tvars
  <2>2. CASE GetCert
    BY <2>2 DEF GetCert, StatCert, StatKey, RemoveCert, RemoveKey, Generate, CreateCert, WriteCert,
       CreateKey, WriteKey, FileStep, BootGoto
  <2>3. CASE Restart
    BY <2>3 DEF Restart
  <2>4. CASE Ends
    BY <2>4, EndsDies
  <2> QED
    BY <2>1, <2>2, <2>3, <2>4, Steps, RequestsKeep
<1>2. listens' \subseteq Tsp
  BY RequestsKeep, ClientsKeep, EndsDies DEF Next, Boot, MuxServes, Ends, Dies, vars, control
<1> QED
  BY <1>1, <1>2

(* The tunnels: a half of a client is for one network, and a handler       *)
(* closes the ends of its own relay.                                       *)
CopyPc == {"off", "read", "write", "end"}
Dials == {"none", "accepted", "open", "refused"}
PipeInv ==
  /\ DOMAIN kind = Conn /\ \A c \in Conn : kind[c].net \in Net
  /\ ends \in [Conn -> SUBSET UNION {Own(s) : s \in Side}]
  /\ copy \in [Conn -> [Copies -> CopyPc]]
  /\ dial \in [Conn -> Dials]

LEMMA PipeInits == Init => PipeInv
  BY DEF Init, PipeInit, PipeInv, Off, Net, CopyPc, Dials

LEMMA EndCopyKeeps ==
  ASSUME PipeInv, NEW c \in Conn, NEW x \in Copies, EndCopy(c, x), UNCHANGED dial
  PROVE  PipeInv'
<1>1. Own(x[1]) \subseteq UNION {Own(s) : s \in Side}
  BY DEF Copies
<1>2. ends' \in [Conn -> SUBSET UNION {Own(s) : s \in Side}]
  BY <1>1 DEF EndCopy, PipeInv
<1>3. copy' \in [Conn -> [Copies -> CopyPc]]
  BY DEF EndCopy, PipeInv, CopyPc
<1> QED
  BY <1>2, <1>3 DEF EndCopy, PipeInv

LEMMA RunCopiesTyped ==
  ASSUME PipeInv, NEW c \in Conn, NEW s
  PROVE  RunCopies(c, s) \in [Conn -> [Copies -> CopyPc]]
  BY DEF RunCopies, PipeInv, CopyPc

LEMMA ClientPipes ==
  ASSUME PipeInv, NEW c \in Conn, Client(c)
  PROVE  PipeInv'
<1>1. ASSUME NEW rid \in Rid, NEW t \in Protocol, NEW net \in t.nets, ServeHTTP(c, rid, t, net)
      PROVE  PipeInv'
  <2>1. net \in Net
    BY TunnelAssumption
  <2>2. PICK server :
          kind' = [kind EXCEPT ![c] = [net |-> net, client |-> ClientOf(t, net).handle, server |-> server]]
    BY <1>1 DEF ServeHTTP
  <2>3. DOMAIN kind' = Conn /\ \A d \in Conn : kind'[d].net \in Net
    BY <2>1, <2>2 DEF PipeInv
  <2>4. /\ dial' = [dial EXCEPT ![c] = "accepted"] /\ ends' = ends
        /\ copy' = RunCopies(c, "client")
    BY <1>1 DEF ServeHTTP
  <2> QED
    BY <2>3, <2>4, RunCopiesTyped DEF PipeInv, Dials
<1>2. ASSUME NEW rid \in Rid, NEW t \in Protocol, NEW net \in t.nets, DialFails(c, rid, t, net)
      PROVE  PipeInv'
  BY <1>2 DEF DialFails, PipeInv, pvars, Dials
<1>3. CASE RemoteDials(c)
  <2>1. dial' = [dial EXCEPT ![c] = "open"] /\ kind' = kind
    BY <1>3 DEF RemoteDials
  <2>2. CASE copy' = RunCopies(c, "server") /\ UNCHANGED ends
    BY <2>1, <2>2, RunCopiesTyped DEF PipeInv, Dials
  <2>3. CASE /\ copy' = [copy EXCEPT ![c] = [x \in Copies |-> IF x[1] = "server" THEN "end" ELSE @[x]]]
             /\ ends' = [ends EXCEPT ![c] = @ \cup Own("server")]
    <3>1. "server" \in Side
      BY DEF Side
    <3> QED
      BY <2>1, <2>3, <3>1 DEF PipeInv, Dials, CopyPc
  <2> QED
    BY <1>3, <2>2, <2>3 DEF RemoteDials
<1>4. CASE Pipes(c)
  <2>1. dial' = dial
    BY <1>4 DEF Pipes, clients
  <2>2. ASSUME NEW x \in Copies, ReadFails(c, x) \/ WriteFails(c, x) PROVE PipeInv'
    BY <2>1, <2>2, EndCopyKeeps DEF ReadFails, WriteFails
  <2>3. ASSUME NEW s \in Side, HandlerReturns(c, s) PROVE PipeInv'
    BY <2>1, <2>3 DEF HandlerReturns, PipeInv
  <2>4. CASE PeerGoes(c)
    BY <2>1, <2>4 DEF PeerGoes, PipeInv
  <2>5. ASSUME NEW x \in Copies, Reads(c, x) \/ Writes(c, x) PROVE PipeInv'
    BY <2>1, <2>5 DEF Reads, Writes, PipeInv, CopyPc
  <2> QED
    BY <1>4, <2>2, <2>3, <2>4, <2>5 DEF Pipes, PipeStep, PipeEnds
<1>5. CASE CopyStops(c)
  <2>1. PICK d \in {"up", "down"} : EndCopy(c, <<"server", d>>)
    BY <1>5 DEF CopyStops
  <2>2. <<"server", d>> \in Copies
    BY DEF Copies, Side
  <2> QED
    BY <1>5, <2>1, <2>2, EndCopyKeeps DEF CopyStops, clients
<1> QED
  BY <1>1, <1>2, <1>3, <1>4, <1>5 DEF Client

LEMMA PipeSteps == PipeInv /\ [Next]_vars => PipeInv'
<1> SUFFICES ASSUME PipeInv, [Next]_vars PROVE PipeInv'
  OBVIOUS
<1>1. CASE UNCHANGED <<pvars, dial>>
  BY <1>1 DEF PipeInv, pvars
<1>2. ASSUME NEW c \in Conn, Client(c) PROVE PipeInv'
  BY <1>2, ClientPipes
<1>3. CASE Dies
  <2>1. "server" \in Side
    BY DEF Side
  <2>2. ends' \in [Conn -> SUBSET UNION {Own(s) : s \in Side}]
    BY <1>3, <2>1 DEF Dies, PipeInv
  <2>3. copy' \in [Conn -> [Copies -> CopyPc]]
    BY <1>3 DEF Dies, PipeInv, CopyPc
  <2>4. dial' \in [Conn -> Dials] /\ kind' = kind
    BY <1>3 DEF Dies, PipeInv, Dials
  <2> QED
    BY <2>2, <2>3, <2>4 DEF PipeInv
<1>4. ASSUME NEW rid \in Rid, Request(rid) PROVE UNCHANGED <<pvars, dial>>
  BY <1>4 DEF Request, PostAdd, NewRelay, CloseStopCh, Close, Serve, Locks, Unlocks, Written, SvrsRemove,
     StartsAgain, others, clients
<1> QED
  BY <1>1, <1>2, <1>3, <1>4, EndsDies DEF Next, Boot, MuxServes, Ends, vars, clients

-----------------------------------------------------------------------------
(* Theorems *)

(* What holds whatever the client of the API does, and what it takes a     *)
(* client that adds only rules that are not served for.                    *)
FilesAndRelays == FilesInv /\ PcInv /\ RelayInv /\ DeadHasCause
TunnelsInv == FilesAndRelays /\ MuxInv /\ WriteInv /\ OpsInv /\ BootInv /\ PipeInv

LEMMA FilesAndRelaysInvariant == Spec => []FilesAndRelays
<1> USE DEF FilesAndRelays
<1>1. Init => FilesAndRelays
  BY FilesInit, PcInit, RelayInit DEF Init, Rules, DeadHasCause
<1>2. FilesAndRelays /\ [Next]_vars => FilesAndRelays'
  <2> SUFFICES ASSUME FilesAndRelays, [Next]_vars PROVE FilesAndRelays'
    OBVIOUS
  <2>1. FilesInv'
    <3>1. CASE UNCHANGED tvars
      BY <3>1 DEF FilesInv, NoRemoval, PairMatches, Whole, tvars, files
    <3>2. CASE TlsNext \/ Stops
      BY <3>2, FilesSteps
    <3> QED
      BY <3>1, <3>2, Steps, RequestsKeep, EndsDies DEF TlsNext
  <2>2. PcInv'
    BY PcSteps DEF RelayInv
  <2> QED
    BY <2>1, <2>2, RelaySteps, DeadSteps
<1> QED
  BY <1>1, <1>2, PTL DEF Spec

LEMMA TunnelsInvariant ==
  ASSUME FreshAdds
  PROVE  Spec => []TunnelsInv
<1>1. Init => TunnelsInv
  <2> SUFFICES ASSUME Init PROVE TunnelsInv
    OBVIOUS
  <2>1. FilesAndRelays
    BY FilesInit, PcInit, RelayInit DEF Init, Rules, DeadHasCause, FilesAndRelays
  <2>2. WriteInv
    BY DEF Init, WriteInv
  <2>3. OpsInv
    BY TunnelAssumption DEF Init, Rules, OpsInv, Owed
  <2>4. BootInv
    BY TlsAssumption DEF Init, TlsInit, BootInv
  <2> QED
    BY <2>1, <2>2, <2>3, <2>4, MuxInit, PipeInits DEF TunnelsInv
<1>2. TunnelsInv /\ FilesAndRelays' /\ [Next]_vars => TunnelsInv'
  BY MuxSteps, WriteSteps, OpsSteps, BootSteps, PipeSteps DEF TunnelsInv, FilesAndRelays
<1> QED
  BY <1>1, <1>2, FilesAndRelaysInvariant, PTL DEF Spec

(* Theorem: a certificate and a key that can be read belong together,      *)
(* however often GetCert() was killed and run again, and whichever of its  *)
(* creations and writes failed, unless a removal failed.                   *)
THEOREM CertificateHasItsKey == Spec => []PairMatches
<1>1. FilesAndRelays => PairMatches
  BY DEF FilesAndRelays, FilesInv
<1> QED
  BY <1>1, FilesAndRelaysInvariant, PTL

(* Theorem: a TLS listener that gave up did so over files that one of four *)
(* named causes left, whatever the client of the API asks for.             *)
THEOREM DeadListenersExplained == Spec => []DeadHasCause
<1>1. FilesAndRelays => DeadHasCause
  BY DEF FilesAndRelays
<1> QED
  BY <1>1, FilesAndRelaysInvariant, PTL

(* Theorem: a path of a mux server leads to the registered relay or        *)
(* nowhere, and between requests to what that relay carries, for any       *)
(* number of rules whose goroutines add, edit, restart and delete them,    *)
(* when only rules that are not served are added.                          *)
THEOREM PathsLeadHome ==
  ASSUME FreshAdds
  PROVE  Spec => []MuxMatches
<1>1. TunnelsInv => MuxMatches
  <2> SUFFICES ASSUME TunnelsInv, NEW f \in Tsp, NEW net \in Net, NEW rid \in Rid
               PROVE  LET o == mux[<<ServerOf(f)[net].path, rid>>] IN
                        /\ o # 0 => o = svrs[rid]
                        /\ pc[rid] = "idle" =>
                             (o # 0 <=> svrs[rid] # 0 /\ Fam(rid) = f /\ net \in typ[rid].nets)
    BY DEF MuxMatches
  <2>1. HandlersOf(rid) /\ TodoOf(rid)
    BY DEF TunnelsInv, MuxInv
  <2>2. pc[rid] = "idle" => Pending(rid) = {} /\ On(rid)
    BY <2>1, PendingOfNone DEF TodoOf, On
  <2> QED
    BY <2>1, <2>2 DEF HandlersOf, Handler, Settled
<1> QED
  BY <1>1, TunnelsInvariant, PTL

(* Theorem: every variable has its type.  The bound on the objects of a    *)
(* rule is the number of requests, and only a rule whose goroutine is      *)
(* writing handlers holds a lock.                                          *)
THEOREM TunnelsTyped ==
  ASSUME FreshAdds
  PROVE  Spec => []TypeOK
<1>1. TunnelsInv => TypeOK
  <2> SUFFICES ASSUME TunnelsInv PROVE TypeOK
    OBVIOUS
  <2>1. TlsTypeOK
    BY DEF TunnelsInv, FilesAndRelays, FilesInv, BootInv, TlsTypeOK
  <2>2. /\ pc \in [Rid -> {"idle", "start", "serve", "close", "write", "remove"}]
        /\ next \in [Rid -> {"idle", "serve", "remove", "start"}]
        /\ typ \in [Rid -> Protocol] /\ lsn \in [Rid -> {"none", "open", "dead"}]
    BY DEF TunnelsInv, FilesAndRelays, PcInv, RelayInv
  <2>3. writing \in [Tsp -> SUBSET {rid \in Rid : pc[rid] = "write"}]
    BY DEF TunnelsInv, FilesAndRelays, WriteInv
  <2>4. nobj \in [Rid -> 0 .. MaxOps]
    <3>1. ASSUME NEW rid \in Rid PROVE nobj[rid] \in 0 .. MaxOps
      <4>1. nobj[rid] \in Nat /\ Owed(rid) \in {0, 1} /\ nobj[rid] + Owed(rid) <= nops
        BY DEF TunnelsInv, FilesAndRelays, RelayInv, OpsInv, Owed
      <4>2. nops \in Nat /\ nops <= MaxOps /\ MaxOps \in Nat
        BY TunnelAssumption DEF TunnelsInv, FilesAndRelays, OpsInv
      <4> QED
        BY <4>1, <4>2
    <3> QED
      BY <3>1 DEF TunnelsInv, FilesAndRelays, RelayInv
  <2>5. ASSUME NEW rid \in Rid PROVE svrs[rid] \in {0, nobj[rid]} /\ Len(todo[rid]) <= 2
    <3>1. todo[rid] \in Todos(rid)
      BY DEF TunnelsInv, FilesAndRelays, MuxInv, TodoOf
    <3>2. /\ Len(<<>>) = 0 /\ \A net, o : Len(<<Write(net, o)>>) = 1
          /\ \A o, q : Len(<<Write("tcp", o), Write("udp", q)>>) = 2
      OBVIOUS
    <3>3. Len(todo[rid]) \in {0, 1, 2}
      BY <3>1, <3>2 DEF Todos
    <3>4. svrs[rid] \in {0, nobj[rid]}
      BY DEF TunnelsInv, FilesAndRelays, RelayInv
    <3>5. 0 <= 2 /\ 1 <= 2 /\ 2 <= 2
      OBVIOUS
    <3> QED
      BY <3>3, <3>4, <3>5
  <2>6. ASSUME NEW p \in Path PROVE mux[p] \in 0 .. nobj[p[2]]
    <3>1. PICK f \in Tsp, net \in Net, rid \in Rid : p = <<ServerOf(f)[net].path, rid>>
      BY DEF Path, MuxPaths
    <3>2. mux[p] \in {0, svrs[rid]} /\ svrs[rid] \in {0, nobj[rid]} /\ nobj[rid] \in Nat
      BY <3>1 DEF TunnelsInv, FilesAndRelays, MuxInv, HandlersOf, Handler, RelayInv
    <3> QED
      BY <3>1, <3>2
  <2>7. ASSUME NEW c \in Conn
        PROVE  /\ kind[c].net \in Net
               /\ ends[c] \subseteq UNION {Own(s) : s \in Side}
               /\ copy[c] \in [Copies -> {"off", "read", "write", "end"}]
               /\ dial[c] \in {"none", "accepted", "open", "refused"}
    BY DEF TunnelsInv, FilesAndRelays, PipeInv, CopyPc, Dials
  <2> QED
    BY <2>1, <2>2, <2>3, <2>4, <2>5, <2>6, <2>7 DEF TypeOK, TunnelsInv, BootInv
<1> QED
  BY <1>1, TunnelsInvariant, PTL

(* What the two halves of a tunnel make of a path, with and without a mux  *)
(* server; the clients of a wss mux server do not even speak to it.        *)
LEMMA PathsAgree ==
  ASSUME NEW t \in Protocol, NEW net \in t.nets, ~(t.fam = "wss" /\ t.nets = Net /\ net = "udp")
  PROVE  /\ net \in Net /\ ClientOf(t, net).path = ServerOf(t.fam)[net].path
         /\ ~(t.fam = "wss" /\ t.fam \in Tsp) => ClientOf(t, net).tls = ServerOf(t.fam)[net].tls
<1>1. /\ t.fam \in {"ws", "wss", "h2"} /\ net \in {"tcp", "udp"}
      /\ t.nets \in {Net, {"tcp"}, {"udp"}}
  BY TunnelAssumption, NetsAre DEF Net
<1> USE DEF ClientOf, ServerOf, Half, Net
<1>2. CASE net = "tcp"
  BY <1>1, <1>2 DEF RunWsTunnelTcpClient, RunWssTunnelTcpClient, RunH2TunnelTcpClient, WsMuxTunnelServer,
     WssMuxTunnelServer, RunWsTunnelServer, RunWssTunnelServer, RunH2TunnelServer
<1>3. CASE net = "udp" /\ t.fam = "wss"
  <2>1. t.nets = {"udp"}
    BY <1>1, <1>3
  <2> QED
    BY <1>3, <2>1 DEF RunWssTunnelUdpClient, WssMuxTunnelServer, RunWssTunnelServer
<1>4. CASE net = "udp" /\ t.fam # "wss"
  BY <1>1, <1>4 DEF RunWsTunnelUdpClient, RunH2TunnelUdpClient, WsMuxTunnelServer, RunWsTunnelServer,
     RunH2TunnelServer
<1> QED
  BY <1>1, <1>2, <1>3, <1>4

(* Theorem: a client that dials a relay of its own protocol, which stands  *)
(* and which nobody is changing, is let in, for every choice of the        *)
(* families that have a mux server, with the exceptions that Meets makes:  *)
(* all clients of a wss mux server and the udp half of one client.         *)
THEOREM ClientsAreLetIn ==
  ASSUME FreshAdds
  PROVE  Spec => DialsMeet
<1>1. ASSUME TunnelsInv, NEW rid \in Rid, NEW t \in Protocol, NEW net \in t.nets, Meets(rid, t, net)
      PROVE  Found(rid, t, net) # 0
  <2>1. /\ pc[rid] = "idle" /\ svrs[rid] # 0 /\ typ[rid] = t /\ Fam(rid) = t.fam
        /\ svrs[rid] = nobj[rid]
    BY <1>1 DEF Meets, Fam, TunnelsInv, FilesAndRelays, RelayInv
  <2>2. /\ net \in Net /\ ClientOf(t, net).path = ServerOf(t.fam)[net].path
        /\ ClientOf(t, net).tls = ServerOf(t.fam)[net].tls
    BY <1>1, <2>1, PathsAgree DEF Meets, Muxed, Fam
  <2>3. Serves(t.fam, ClientOf(t, net))
    BY <2>2 DEF Serves
  <2>4. CASE t.fam \in Tsp
    <3>1. HandlersOf(rid) /\ TodoOf(rid)
      BY <1>1 DEF TunnelsInv, MuxInv
    <3>2. Pending(rid) = {} /\ On(rid)
      BY <2>1, <3>1, PendingOfNone DEF TodoOf, On
    <3>3. Handler(t.fam, net, rid) = svrs[rid]
      BY <2>1, <2>2, <2>4, <3>1, <3>2 DEF HandlersOf, Settled
    <3>4. t.fam \in listens
      BY <1>1, <2>1, <2>4 DEF Meets, Muxed, Fam
    <3> QED
      BY <2>1, <2>2, <2>3, <2>4, <3>3, <3>4 DEF Found, Handler
  <2>5. CASE t.fam \notin Tsp
    <3>1. lsn[rid] = "open"
      BY <1>1, <2>1, <2>5 DEF Meets, Muxed, Fam
    <3> QED
      BY <2>1, <2>2, <2>3, <2>5, <3>1 DEF Found
  <2> QED
    BY <2>4, <2>5
<1>2. TunnelsInv /\ [Next]_vars =>
        [\A c \in Conn, rid \in Rid, t \in Protocol : \A net \in t.nets :
           DialFails(c, rid, t, net) => ~Meets(rid, t, net)]_vars
  BY <1>1 DEF DialFails, Meets
<1> QED
  BY <1>2, TunnelsInvariant, PTL DEF Spec, DialsMeet

=============================================================================

----------------------------- MODULE MCTunnels -----------------------------
(***************************************************************************)
(* A muxed family and two that listen for themselves, one of them with     *)
(* TLS.  An instance follows either the control of two relays, with every  *)
(* fault of the files and no client let in, or a client's tunnel on one    *)
(* relay, whose process may be killed, with files that are good.  There a  *)
(* relay that carries udp alone over ws adds nothing to one with both.     *)
(* The second relay, when there is one, is muxed.  Only a wss relay looks  *)
(* at the files.                                                           *)
(***************************************************************************)
EXTENDS Tunnels, TLC

CONSTANTS r1, r2, c1

VARIABLE scope

P(fam, nets) == [fam |-> fam, nets |-> nets]
SomeProtocols == {P("ws", Net), P("ws", {"udp"}), P("wss", Net), P("wss", {"udp"}), P("h2", {"udp"})}

Scope == /\ scope = "control" => \A c \in Conn : dial[c] \in {"none", "refused"}
         /\ scope = "tunnel" => faults = {} /\ nboot = 1 /\ (nobj[r1] = 0 \/ typ[r1] # P("ws", {"udp"}))
         /\ faults # {} => svrs[r1] = 0 \/ Fam(r1) = "wss"
         /\ nobj[r2] = 0 \/ (scope = "control" /\ faults = {} /\ nboot = 1 /\ typ[r2].fam = "ws")

MCInit == /\ Init /\ scope \in {"control", "tunnel"}
          /\ scope = "tunnel" => key = Absent
MCNext == UNCHANGED scope /\ Next /\ Scope'
MCSpec == MCInit /\ [][MCNext]_<<vars, scope>> /\ TunnelFairness
=============================================================================

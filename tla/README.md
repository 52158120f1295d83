# A verification development of neko-relay

neko-relay forwards TCP and UDP traffic (plain, or through http, https, WebSocket and TLS tunnels)
by rules it is given over an HTTP API. These modules model the parts of it that hold state and run
concurrently: the registry of rules and the API handlers that change it, the TCP accept loop with
its limiter, the UDP accept loop with its sessions and buffers, the traffic counters, the http and
https relays, the tunnels with their mux servers, and the certificate files. TLC checks them on
small instances; TLAPS proves their safety properties for every instance.

## 1. The system

| Component | Source | State | Operations |
|---|---|---|---|
| Rule registry and API | `action.go`, `lib.go`, `rules/` | concurrent maps `Rules`, `Svrs`, `Traffic`; flag `syncing`; the sync file | `/add /edit /del /restart /sync /data`, `start stop restart getTF sync`, `Init` |
| Dynamic DNS | `lib.go:130-150` | a snapshot of `Rules` | every 30 s: resolve each rule, write `Raddr` and the rule |
| Relay object | `relay/relay.go` | `StopCh`, `TCPListen`, `UDPConn`, `Svr`, `ConnLimiter`, `Bucket`, `Traffic` | `NewRelay Serve OK Close Copy Copy_io acquireConn releaseConn` |
| TCP server | `relay/tcp.go` | accept loops, connections | `RunTCPServer AcceptAndHandleTCP TCPHandle` |
| UDP server | `relay/udp.go`, `relay/UDPConn.go` | session table, caches, `LPool` | `RunUDPServer AcceptAndHandleUDP UDPHandle`, `UDPConn.Read/Write/Close` |
| Traffic counters | `relay/traffic.go` | `Counter` under an RWMutex | `Add Total Reset`, `/traffic` |
| Tunnel mux, servers, clients | `relay/TunnelMuxServer.go`, `relay/*tunnel*` | `Handlers`, one http server per family | `AddHandler DelHandler ServeHTTP`, the handlers of either end |
| http relay, reverse proxy | `relay/http.go`, `relay/resversproxy.go` | the server, `maxLatencyWriter` | `RunHttpServer ServeHTTP copyResponse handleUpgradeResponse` |
| https relay | `relay/https.go` | the bytes of a ClientHello | `HttpsHandle` |
| Certificate files | `relay/tls.go` | two files | `GetCert CreateTLSFile` |
| The rest | `relay/reverse_proxy.go` (fake site), `stat/`, `config/`, `limits/`, `neko-relay.go`, `relay/udpp.go` (unused), build files | | |

**Interaction.** Every API request runs on a goroutine of net/http; `ddns()` has one of its own;
`main()` runs `GetCert()` first, and `sync()` over the sync file at start-up, when the API is open
already. They share the three maps and the flag, and nothing else orders them: each map operation is
atomic, no sequence of two is. `start()` makes a `Relay`, registers it and calls `Serve()`, which
makes a new `StopCh` and starts accept loops, an http server, or an entry of a mux server's
`Handlers`; `Close()` closes `StopCh`, shuts the http server down, closes the listeners and takes
the paths out of the mux. Loops and copies poll `StopCh`; they read the field anew each time. The
limiter is one channel of the relay, which the TCP and the UDP accept loop of a `tcp+udp` relay
share. A tunnel has a handler on the client's relay and one on the server's, each with two copies.

**What is hard.** Handlers overlap on one rule, and with `ddns()`; the flag `syncing` serves as
lock, as cancellation and as a stop signal; a handler can panic half-way (net/http recovers it, with
whatever it had done); the process can be killed between truncating and writing a file; a restart
replaces the fields an old loop still reads; slots are taken and given back on different goroutines;
errors of file operations are logged or dropped, and the code goes on; a write has no deadline;
buffers travel between a pool, a cache and three goroutines; two copies of a connection must both
notice its end, on both sides of a tunnel; a timer flushes a response its handler may have finished;
lengths from the network index a buffer.

**What makes each part correct.**
- Registry: no listener without an owner, no `Close()` of a closed relay, the three maps agree,
  `/data` tells the truth where it looks, a sync (start-up's too) leaves what it was asked for, all
  of it and nothing else, the file is a copy of the registry, every request is answered, `ddns()`
  keeps getting its turn.
- TCP: the relay is a counting limit to its users; no slot is lost or given back twice, waiting
  clients are served, loops and copies end when they should.
- UDP: a datagram arrives as it was sent, a client has one session, slots are where the code puts
  them, everything ends after `Close()`.
- Traffic: what is reported was counted, once, and bytes are lost in two known places only.
- Web relays: a response that looks whole is, headers go one hop, a stream is not held back,
  `Close()` and tunnels end, the name is found where it is.
- Tunnels: a path leads to the registered relay, clients meet servers of their own kind, a tunnel
  ends as a whole, certificate and key belong together.

## 2. The modules

| Module | What it is |
|---|---|
| `ControlPlane` | the registry, the API handlers, `sync()`, `ddns()`, the sync file, kill and restart |
| `MCControlPlane` | rules, requests, symmetry and view for TLC |
| `ControlPlaneTypes` | proofs for any client: types, and that the flag has a holder |
| `ControlPlaneSerial`, `ControlPlaneSync` | proofs for a serialising client: registry and sockets; status, syncs and the file |
| `TcpServer`, `MCTcpServer` | accept loops, limiter, handlers and connections of one relay |
| `ConnLimit` | the abstract limiter that `TcpServer` implements |
| `TcpServerProofs` | proofs about slots, limit and shutdown, and the refinement |
| `UdpServer`, `MCUdpServer` | accept loop, limiter, sessions, caches and buffers of one relay |
| `UdpServerProofs` | proofs about sessions, slots and buffers |
| `Traffic`, `TrafficProofs` | the counters, the copies that add to them, `/traffic`; proofs |
| `HttpRelay` | the http server, the reverse proxy and its requests, `Serve()` and `Close()` around them |
| `HttpsHello` | `HttpsHandle` on the bytes of a ClientHello |
| `MCWebRelays` | both web relays side by side, headers and ClientHellos for TLC |
| `HttpRelayProofs` | proofs about the http relay, and about the records and the search of the https relay |
| `TlsFiles` | `GetCert()` on two files, with kills and operations that fail |
| `TunnelPipe` | a tunnel once it stands: six handlers, four copies, three connections |
| `Tunnels`, `MCTunnels` | the process: `TlsFiles`, the requests on tunnel servers, the mux, dials, and `TunnelPipe` for what comes of them |
| `TunnelsProofs` | proofs about files, mux, TLS listeners, dials and types |

### ControlPlane

A step is one access to shared state. `pc[p]` is the next step of goroutine `p` and `ctx[p]` its
locals (request, rule id, rule, relay, counter, snapshot of `Rules`, what is left of `newRules`).
Label by label:

- `PostAdd`, `PostEdit`, `PostDel`, `PostRestart`, `PostSync`, `GetData` start a request and make
  its first access, as `action.go` does (`PostAdd` sets the rule, `PostDel` and `PostRestart`
  require one). `Parsed` is `ParseRule`: the address is looked up and `check()` applied; a request
  it refuses changes nothing.
- `StopLookup` ... `SvrsRemove` is `stop()` with `Relay.Close()` inside it: close `StopCh`, shut the
  http server down, close the TCP listener and the UDP socket, then `Svrs.Remove`. `Shutdown()`
  closes its listener at once and waits for requests at the label `closeTcp` (`InShutdown`).
  `RestartLookup` takes the same way through `Close()` and on to `Serve`. `ClosePanics` is `close()`
  on a nil or closed channel; the handler dies, the process lives, unless it was start-up.
- `GetTF`, `SetTF`, `SvrsSet`, `Serve`, `ListenTCP`, `ListenUDP` is `start()`: the relay is
  registered before it serves; `StartFails` is the early return. A failed listen writes nil over the
  field, as the assignment in `ListenTCP` does. Ports conflict only with sockets of the same
  network.
- `SyncEnter` ... `SyncWrites` is `sync()`: both loops, in any order of the map, the cancellation by
  the flag, the truncating write. `SyncSkips` is a rule that does not resolve or that `check()`
  refuses; the history local `req`, what the sync was asked for, loses it too. `WriteFails` is
  `WriteFile` returning an error before or after it truncated the file: it is logged, and the sync
  returns as ever.
- `GetData`, `DataAnswers`, `DataPanics` are `/data`, with its two snapshots.
- `DdnsWakes` ... `DdnsSleeps` is `ddns()`; `DdnsPanics` is its type assertion.
- `Kill` and `Reboot` lose memory and sockets and keep the file.

Abstractions: a protocol is what `Serve()`, `Close()` and `OK()` tell apart: the listeners it opens
(`OpensTcp`, `OpensUdp`), whether there is an `http.Server` to shut down (`HasServer`), and whether
its *name* has `tcp` or `udp` in it (`Named`), which is what `OK()` goes by. The eight values of
`Type` stand for the classes this gives; `other` opens nothing. Sleeps are just the gap between two
steps; a lookup picks any address of `IP`; addresses and remotes are names. `SyncEnter` covers both
branches of `lib.go:70-74`: writing FALSE to a flag that is FALSE changes nothing. `ratelimit`,
`Limit`, `Rport` (`cmp` compares it as part of the destination, `remote` here) are left out. Which
requests `Shutdown()` waits for is in `HttpRelay`, the paths of the mux are in `Tunnels`.

Three switches describe the API client and not the code. `Serial`: it waits for the answer of a
request on a rule before the next one on that rule (a sync touches all rules). `FreshAdds`: it adds
only rules that are not being served. `AfterBoot`: while start-up imports the file it sends nothing
but `GET /data`; the API is open by then (`neko-relay.go:85-88`), and a request that does not wait
overlaps the import, which may then panic and end the process. The code enforces none of the three;
where a property needs them, the run and the theorem say so. `registry_free` and `registry_live` run
with all three off.

### TcpServer and ConnLimit

One relay object, one control goroutine that serves, closes for good or closes and serves again. A
*generation* numbers the `StopCh`, the listener and the loop that one `Serve()` makes. A loop looks
at the current `StopCh` (`cur`) and takes the current `TCPListen` when it enters `Accept`, so that
loops of an older generation are modelled as they are. `acquireConn` blocks while the channel is
full. A connection waits in a backlog, is dialled, and is copied by two goroutines, each of which
checks `StopCh`, reads, writes. `late` counts the chunks passed on while the relay's `StopCh` is
closed: it is written, never read, and never reset. A copy that has not looked by the time a restart
puts an open `StopCh` in place goes on (`relay.go:257`), which no property forbids.

`udpHalf` counts the slots that the relay's UDP half has: it takes one when there is room
(`UdpTakes`), gives it back (`UdpReturns`) or keeps it. `UdpServer` has the same for the TCP half
(`tcpHalf`, `TcpTakes`, `TcpReturns`). Each half is the other's environment and owes nothing.

The relay is made with one of several handlers, `TCPHandle`, those of the three tunnel clients, or
`HttpsHandle`. They differ in three things, which `handle` records: which copy is the handler's own,
so that its return runs the deferred functions; whether the dial has a deadline; and whether the
slot is given back. A connection whose handler does not give its slot back ends as `kept`.

`ConnLimit` is what a user of the relay may rely on: a connection is taken while fewer than `Limit`
are served or kept, it is taken once, and what waits may be turned away. `ImplementsLimit` is its
specification with `served <- Active`, `kept <- Kept`, `over <- Over`: tokens, loops and generations
vanish. The slot of a loop that is about to accept has no counterpart there, which is why the
refinement needs `SlotsCounted`.

### UdpServer

One relay object from serving to closed. A datagram is its number, a buffer holds a number (0 for
bytes of anything else), and a slice in a cache is the buffer itself, as in Go. `LPool.Get` may
return a buffer of the pool or new memory, named after the goroutine it was made for. The accept
loop is modelled statement by statement: acquire, read, look up, send to the cache or make a
session, put the buffer back, start the handler. A slot is taken for every datagram and given back
once per session. `UDPConn.Read` copies what the buffer holds *when it reads*. The 16 s timer may
fire at any time. `WaitsForDeadSession` and `WaitsForLostSlot` name the two waits of the loop that
nothing need end, the second one for slots that sessions used up or the TCP half has.

### Traffic

`Copy_io` reads, calls `Add`, writes (`Copy_udp` would too, but only `udpp.go` calls it); the mutex
of the counter makes `Add`, `Total` and `Reset` one step each. `PostTraffic` takes the counters out
of `Traffic.Items()` and, for each, calls `Total` and, if asked, `Reset`; the two are separate steps
(`TotalToReset`, `Reset`). `getTF` and `TrafficRemove` are the two places where the map changes; a
copy keeps the counter of its relay when the rule is removed, and what it adds from then on nobody
reports (`Reportable`). `Serial` says that the API client has one resetting request under way at a
time: two would both report what neither has reset yet. `counted`, `delivered`, `billed` and `raced`
are history variables that no action reads. The counter has 64 bits for a number of bytes, so its
overflow is left out.

### HttpRelay

`ctl`, `cur`, `closed`, `svr`, `open` are the control goroutine, `StopCh` by number as in
`TcpServer`, `s.Svr` and the servers that accept. When `ListenTCP` fails, `s.Svr` stays the server
of the last time and the next `Close()` shuts that one down. `Shutdown()` waits, without a deadline,
for every request of its server that was not hijacked. A request goes from its connection through
`ServeHTTP` to the round trip, and then to one of three ends:
- `copyResponse`: `Copy_io` checks `StopCh`, reads, writes. The body has a length or is streamed;
  the writer flushes at once for a streamed one, and its timer (`timer[q]`, with `flushPending`) is
  armed for the header, may fire at any time and cannot be stopped once it has. `n[q]` counts the
  chunks read, written and shown to the client (-1: not even the header). io.EOF is an error to
  `Copy_io`, so that `ServeHTTP` ends with `ErrAbortHandler`, and a last chunk that comes together
  with it is dropped;
- `handleUpgradeResponse`: two copies, each of which checks `StopCh`, reads, writes, and a goroutine
  that closes the backend (`tunnel[q]`); only the upward copy is waited for. The 101 response goes
  to the client with the header the backend gave it, nothing removed;
- `errorHandler`.

A header is a map from names to sequences of values (`Get` is the first one, as in net/http), with
the names that `Connection` lists and those of the trailers that the transport took out of `Trailer`
and `ServeHTTP` announces again (`AddTrailer`); the operators `removeConnectionHeaders`,
`DelHopHeaders`, `AddUpgrade` and `AddForwarded` are applied in the order of `ServeHTTP`.
`client[q]` is what the client can tell: it waits, got a response that looks whole, was cut, got an
error, or left. The Director, `ModifyResponse` and the values of trailers are left out: this program
uses the first two for the URL only, or not at all.

### HttpsHello

The one module in which bytes are bytes, because the code's offsets are what can be wrong. The
record is read by four `Read` calls whose counts nobody looks at; it arrives in one or in two
pieces, and the part of a buffer that a `Read` does not fill stays zero. The search for the name is
one action per field, with the panic of an index beyond the end, which ends the process (nobody
recovers that goroutine). `short` records that some `Read` did not fill its buffer. Two things make
the handler panic: a ClientHello split between segments, which may also be forwarded with zeros, and
a record that is complete but whose lengths point beyond its end (`https.go:71-113`). The run has
both; `FindsServerName` is about well-formed records whose every `Read` was whole. Slots and the
accept loop are `TcpServer`'s.

A record in `Hello` is its bytes, the name of the server (or none), and `exts`, the offsets at which
its extensions begin. `WellFormed` says what makes such a record a ClientHello: the lengths of its
fields add up, the offsets follow from the lengths, and the name is in an extension of type 0. No
action reads `exts`.

### TlsFiles, TunnelPipe and Tunnels

`TlsFiles` has a step for each `Stat`, `Remove`, `Create` and `Write` of `GetCert()`; a certificate
or key is the number of the pair it was made with. Each operation but `Stat` may fail, and the next
one is made regardless, as in `tls.go:70-71, 103-109`: a file that cannot be removed stays, a
`Create` that fails leaves what was there, a `Write` that fails or is killed leaves a torn file.
`faults` is a history of these. Start-up goes on from what is there.

`TunnelPipe` is a chain `user - client relay - server relay - remote` of three connections. A copy
reads and writes in two steps; a write waits until its peer reads, and nothing ends the wait while
the peer lives (`Stuck`). A process closes the ends it holds, in `Copy()` (which closes both when it
ends) or in the deferred calls of the handler, once its own copy has ended. The handlers are records
with those two facts. That the peer of a UDP socket went away does not show, and a datagram is sent
without waiting.

`Tunnels` has the goroutine of an API request for each rule (`PostAdd`, and `CloseStopCh` for
`/del`, `/edit` and `/restart`, which differ in what comes after `Close()`), the maps of handlers
with `Lock`, write and `Unlock` as steps, and the dials of clients, which look the path up without
the lock. The unlocked lookup may find a write going on; the Go runtime may then end the process
(`LookupDies`), which has the effect of a kill. A relay of a family with a mux server registers the
ws handlers, others listen for themselves; a wss listener without a loadable pair is `dead`:
`ServeTLS` gave up on a goroutine whose error nobody sees. What a client dials follows `Serve()`,
the ws half of `wss_tunnel_client_tcp+udp` included, and whether it uses TLS must agree with the
server: the mux server of wss speaks plain http (`TunnelMuxServer.go:67`), so that the clients of
wss never meet it.

The API client of `Tunnels` has one request on a rule under way at a time: `pc`, `next` and `todo`
have one place per rule. That is `Serial` of `ControlPlane`, fixed here in the shape of the model.
`FreshAdds` is a switch as it is there; without it an `/add` may replace a muxed relay, whose paths
the old object keeps. No handler of `action.go` checks either.

## 3. The runs

| Run | Instance | Properties | Shows |
|---|---|---|---|
| `registry` | 2 rules, 2 handlers, 3 objects, 1 address, start-up from 3 files, 2 requests, 1 kill; `Serial`, `FreshAdds`, `AfterBoot` | `TypeOK NoOrphanListener NoDoubleClose MapsInStep StatusTrue SyncExact BackupExact` | a serialising client keeps registry, sockets, status and file together |
| `registry_free` | 1 rule, 2 handlers and start-up overlapping, 2 requests, any client | `SyncFlagOwned` | the flag always has a sync behind it |
| `registry_live` | 1 rule served by an `http.Server`, 2 handlers and start-up overlapping, 2 addresses, 2 requests, any client, fair | `Answered DdnsNotStarved` | requests end and `ddns()` runs, with panics and `ddns()` between any two steps |
| `tcp` | 2 connections and the UDP half on 1 slot, 2 generations, 2 handlers, fair | `SlotsCounted LateBounded ImplementsLimit Served LoopsEnd BothEnd` | slots, limit, shutdown and progress across a restart |
| `udp` | 1 client, 2 datagrams, 2 sessions, cache of 1, limit 1 or 2 shared with the TCP half, fair | `LaterIntact OneSession SlotsCounted ShutdownEnds` | which buffers are shared and which never, where slots go, and what is left after `Close()` |
| `traffic` | 1 rule removed and made again, 2 copies, 2 chunks, 2 reporters, 3 requests | `NeverBilledTwice LostInGapOrRemoval DeliveredCounted` | what `/traffic` reports, and where bytes are lost |
| `web` | 2 requests, one with up to 2 chunks, 2 calls of `Serve()`; 38 ClientHellos, 6 of them malformed, each in 1 or 2 pieces; fair | `TypeOK TruncationIsVisible OneHopOnly NoFlushAfterReturn StreamShown ShutdownEnds TunnelEnds FindsServerName ForwardedIntact` | responses, headers, timers, shutdown and tunnels of the http relay; the search of the https relay |
| `tunnels` | 2 rules, 1 tunnel, ws with a mux server, wss and h2 without, 2 requests, 2 starts, `FreshAdds`, fair | `TypeOK PairMatches MuxMatches DeadHasCause DialsMeet TunnelEnds` | paths, dials, tunnels and files, with kills at any step and file operations that fail |

Four runs look for a disagreement between the code and what the code says of itself, and find it
(`findings` in `PROJECT.json`): `ddns_panics` (`DdnsFindsSvr`, the type assertion of `lib.go:144`:
`/add` puts its rule into `Rules` before its relay into `Svrs`, and `ddns()` comes between),
`sync_lost` (`SyncTakenOver`, a sync that answers success, did nothing more and was not taken over),
`udp_corrupt` (`DatagramsIntact`, a pooled buffer overwritten while it waits in a cache), `http_cut`
(`CopiedBack`, a response that ended normally cut at the client). None of them needs fairness.

**What the passing properties except.** Some behaviours are in the models, and a property names them
as its exception or as the outcome it allows:
- `ddns()` writes its snapshot of a rule back, over an edit or a deletion (`lib.go:146`,
  `DdnsSetsRule`);
- a sync that panics half-way leaves the flag up (`lib.go:70`), which `DdnsNotStarved` allows;
- a `WriteFile` that fails leaves the old file or a torn one, and the sync answers success
  (`lib.go:113-117`);
- the loop of a closed `StopCh` goes on accepting after a restart (`tcp.go:20`), and so do the
  copies of its connections (`relay.go:257`); the limit holds over all of them;
- the UDP loop blocks on the cache of a session that is over (`udp.go:39`) and on slots that later
  datagrams used up (`udp.go:27`); in a `tcp+udp` relay each half may wait for ever for slots of the
  other (`tcp.go:24`), also after `Close()`;
- `HttpsHandle` and two of the tunnel clients' handlers never give their slot back (`https.go:138`);
- what a counter holds when `sync()` takes it out of the map is lost, and so is what is added
  between `Total` and `Reset` (`lib.go:86`, `action.go:49-54`);
- a ClientHello that is split ends the process, or is forwarded with zeros (`https.go:50`, `75`),
  and one whose lengths point beyond its end ends it as well;
- `Close()` ends a streamed response so that it looks whole (`relay.go:257-259`);
- a hop-by-hop header whose first value is empty is passed on with the rest of its values, and the
  header of a 101 response is passed on whole (`resversproxy.go:267-270`, `569-574`);
- after a switch of protocols, a backend that ends first leaves the client's half open until the
  client writes (`resversproxy.go:582`), and a write to a backend that does not read keeps the whole
  tunnel when the client has left (`relay.go:266`);
- the same write keeps a tunnel between relays (`Stuck`), and over ws and wss the server's handler
  waits on for a UDP remote that is silent, after its client has left (`ws_tunnel_server.go:55-67`);
- no client of a wss mux server meets it (`TunnelMuxServer.go:67`), and `wss_tunnel_client_tcp+udp`
  sends its UDP half to the ws server (`relay.go:155`);
- an `os.Remove` that fails may leave a new certificate beside an old key for good (`tls.go:70-71`);
- `Close()` hangs in `Shutdown()` as long as a backend or a client is silent (`relay.go:198`);
- `/data` reports every relay of UDP alone as failed, and every http or https relay and plain tunnel
  as working (`relay.go:185-188`);
- a lookup of the mux beside a write may end the process (`TunnelMuxServer.go:48`).

**Addresses that move.** `registry` has one address, so every lookup answers the same. With two, TLC
finds `SyncExact` and `BackupExact` violated: `ddns()` has a rule in hand, a sync removes or
replaces the rule, and `ddns()` puts the old one back (`lib.go:143-148`, the first exception above).
The two theorems therefore assume `AddressesStay`. No other theorem about the registry does, and
`registry_live` has two addresses.

**Bounds.** Two rules on one port make listens fail; a rule with a negative port passes `check()`
and fails in `NewRelay`; one rule is refused by `check()`, one has an unknown protocol. Two
overlapping handlers and start-up are three goroutines in the registry, the most that any of its
races needs: with any client they give a sync that cancels, one that is cancelled, and start-up's
import between them. `registry_live` takes objects, counters and handlers in a fixed order, lets its
second handler start when start-up is over, and lets addresses move for `ddns()` only and while
there is no sync file (`Tidy` in `MCControlPlane`, which keeps no fair action from happening). One
slot and two connections make the limiter block; two generations are a loop that is out of date and
one that is not. A cache of one datagram is full after one; two datagrams are the first and a later
one of a session, or two sessions that follow each other; a limit of 1 is used up by one datagram, a
limit of 2 by one session with both. Two requests beside each other let one hold `Shutdown()` up
while the other is answered; two chunks are one in the middle of a body and one that comes with its
end. The ClientHellos vary the length of the session id, the number of cipher suites, the extensions
before and after the name, and whether there is a name; the malformed ones end before or in the
middle of each field that the search steps over. In `tunnels` an instance follows either the relays
and the files, with every fault, or a tunnel (`Scope` in `MCTunnels`). Two rules write one mux map;
two requests are an add followed by an edit, a restart or a deletion; one kill and a restart meet
every step of `GetCert()`.

The named bounds are `MaxPort`, `MaxReq`, `MaxBoot` (registry), `MaxServe` (restarts), `MaxDgram`,
`MaxSession`, `CacheCap` (16 in the code), `MaxRead`, `MaxReport`, `MaxChunk`, `MaxOps` and
`MaxBoot` (tunnels). Deadlock is not checked: all instances stop when their bounded requests are
used up. Symmetry is used in safety runs only. The view `NoGarbage` identifies states that differ in
objects nothing refers to.

**Fairness.** Everywhere: goroutines that can go on do (the Go scheduler), and peers owe nothing.
- `ControlPlane`: lookups and listens return; `Shutdown()` need not (`Runs`), which both liveness
  properties except; requests, kills and restarts are not fair.
- `TcpServer`: loops and handlers are weakly fair; accept is strongly fair, as an `Accept` that
  finds a connection does not fail for ever; the control goroutine is fair except in deciding to
  close; a dial ends if it has a deadline; a copy whose socket was closed notices. A live connection
  may last for ever and the UDP half owes nothing, which is why `Served` and `LoopsEnd` except the
  case that all slots are with the two for good.
- `UdpServer`: the loop and the handlers go on, a `UDPConn.Read` ends within 16 s, a dial has a
  deadline, a write of a datagram does not wait; a read from the remote ends for certain only when
  its socket is closed. Nobody has to call `Close()`, and the TCP half owes nothing.
- `Traffic` has safety properties only, and no fairness.
- `HttpRelay`: handlers and timers go on; what waits for a client that left, or for a socket
  somebody closed, is told. A round trip, a read or a write of a live peer may wait for ever, which
  is what `ShutdownEnds` and `TunnelEnds` except.
- `Tunnels`: a read or a write of a broken connection returns, handlers return, the server's dial to
  the remote ends (`TCPTimeout`), a datagram is sent at once, and a write to the other relay returns
  when the copy there comes to its read again and again. A write to a user or a remote that lives
  owes nothing.

## 4. The proofs

Each theorem is about the specification of its module, for every value of the constants; the only
assumptions are those named in the modules: `ConstantsAssumption` (`Boot` is not a handler, `None`
is nothing else, `Absent` and `Torn` are no maps), `TcpAssumption`, `UdpAssumption`,
`TrafficAssumption`, `HttpAssumption`, `HelloAssumption`, `TlsAssumption` and `TunnelAssumption`,
which say that bounds are numbers and that parameters have their kind.

What a theorem assumes beyond that stands in its statement: `Serial`, `FreshAdds` and `AfterBoot`,
the client of section 2; `AddressesStay`, no lookup answers anything but what it answered first; and
that every record is `WellFormed`.

| Theorem | States |
|---|---|
| `TypeCorrect` (`ControlPlaneTypes`) | `Spec => []TypeOK`, any client |
| `FlagOwned` (`ControlPlaneTypes`) | `Spec => []SyncFlagOwned`, any client |
| `NoOrphans`, `NoDoubleCloses`, `MapsAgree` (`ControlPlaneSerial`) | `[]NoOrphanListener`, `[]NoDoubleClose`, `[]MapsInStep`, for `Serial`, `FreshAdds` and `AfterBoot` |
| `RulesResolved` (`ControlPlaneSync`) | `[]AllFine(rules)`: no rule that did not resolve or that `check()` refuses; any client |
| `StatusIsTrue` | `[]StatusTrue`, for the same client |
| `SyncIsExact`, `BackupIsExact` | `[]SyncExact`; `BackupExact`; for the same client and `AddressesStay` |
| `TcpTypes`, `NoSlotLost`, `LimitHolds`, `OneLateChunk` (`TcpServerProofs`) | `[]TypeOK`, `[]SlotsCounted`, `[]LimitRespected`, `[]LateBounded` |
| `LimitImplemented` | `Spec => ImplementsLimit`, the refinement of `ConnLimit` |
| `UdpTypes`, `OneSessionPerClient`, `SlotsOfDatagrams`, `LaterDatagramsIntact` (`UdpServerProofs`) | `[]TypeOK`, `[]OneSession`, `[]SlotsCounted`, `[]LaterIntact` |
| `TrafficTypes`, `CountedFirst`, `BilledOnce`, `NothingElseLost` (`TrafficProofs`) | `[]TypeOK` and `[]DeliveredCounted`, any client; `[]NeverBilledTwice` and `[]LostInGapOrRemoval`, for `Serial` |
| `HttpTypes`, `ShortIsSeen`, `TimerStopped`, `HopHeadersStay` (`HttpRelayProofs`) | `[]TypeOK`, `[]TruncationIsVisible`, `NoFlushAfterReturn`, `[]OneHopOnly` |
| `RecordPassesIntact`, `NameIsFound` | `[]ForwardedIntact`, any bytes; `[]FindsServerName`, well-formed records |
| `CertificateHasItsKey`, `DeadListenersExplained` (`TunnelsProofs`) | `[]PairMatches`, `[]DeadHasCause`, any client |
| `PathsLeadHome`, `TunnelsTyped`, `ClientsAreLetIn` | `[]MuxMatches`; `[]TypeOK`; `DialsMeet`; for `FreshAdds` |

*Registry, types.* `TypeOK` is not inductive: `relay[ctx[p].svr]` has a type only if the local is
set. `TypeInv` adds `HasLocals`, which says at which label which locals are set and which request
can be there, and the same for `ddns`. One lemma per action.

*Registry, flag.* A sync holds the flag from raising it until it lowers it or leaves. `FlagInv` says
the flag has a holder; a step that does not raise the flag keeps the holder holding (`StepHolds`),
and one that lets go lowers it or found it down.

*Registry, serialising client.* The properties are parts of one inductive invariant, `SerialInv`:
`Disjoint` (no two goroutines at work have a rule in common), `ProcInv` (what the goroutine at work
on a rule knows: the relay it closes is the registered one, which sockets are closed by now, and
which rules of a sync have no relay), `SvrInv` (a registered relay belongs to its rule and counter
and is open unless somebody is half-way through it) and `Owned` (every socket has a registered
relay). None of them is inductive without the others: `CloseStopCh` finds the channel open only
because nobody else touches the rule, and `SvrsSet` orphans nothing only because the rule had no
relay since its `stop()`. The frame lemmas say that a step that changes only the rules `R`
(`Elsewhere(R)`) keeps all of it for the other goroutines and rules, so that each action has to be
proved for itself alone. `ddns()` is in the specification: it changes addresses and puts rules back,
neither of which the invariant forbids.

*Registry, what may be served.* `FineInv` says that every rule a goroutine may put into `Rules`
without another look has resolved and passed `check()`: the rule of an edit, the snapshot of a sync
and what `ddns()` holds. It holds for any client.

*Registry, status.* `StatusTrue` speaks of moments without requests. `StatusInv` holds always: a
registered relay with a handle and a name that `OK()` knows listens, or a goroutine at work on its
rule is between closing the listener and opening it again (`HalfTcp`, in which `Shutdown()` waits
too). Its frame lemmas say that a step which leaves listeners alone and ends no such gap keeps it.

*Registry, sync.* `ExactInv` says where each rule stands at each label of a sync: not visited yet
and in the snapshot as it is in `Rules` (`Unvisited`), in hand (`InHand`), or done with, that is
gone or the one asked for (`Done`); in the second loop `Starts` says that what is there was asked
for and what is not is still in `newRules`. That none of the rules asked for is missed is `Given`:
one that has left `newRules` is in `Rules`, or on its way there with this sync. `StartedInv` says
that a rule in `Rules` has its relay, or a goroutine about to make or remove it, or a port that
`NewRelay` refuses. `Match` ties a relay to the rule it was made from, and with `Owned` a socket to
its rule. Start-up is a sync like any other. This stands on `SerialInv`, which keeps others off the
rules of a sync, and on `StillInv`, that `ddns()` holds no rule to put back. `BackupIsExact` follows
from `Loops` at the last two labels.

*TCP.* One invariant, `TcpInv`, carries the four safety theorems and the refinement. `Types` leaves
`tokens` an integer: that it never falls below zero is known only from `Slots`, which equates it
with the number of connections served or kept, loops about to accept and slots of the UDP half; the
lemmas `SlotTaken`, `SlotReturned`, `SlotReturnedByLoop` and `SlotHandedOver` do the counting.
`Generations` says that a loop starts with its `Serve()` and a `StopCh` is closed after it was made.
`Late` adds to `LateBounded` what makes it inductive: a direction that still reads or writes while
`StopCh` is closed (`Due`) has its late chunk of this `Close()` to come. In the refinement every
step but three is a stutter or turns connections away: an accept is `Take`, whose `Room` follows
from `Slots` because the accepting loop holds a slot itself; a failed dial and a returning handler
are `Finish`.

*UDP.* `Types` carries, beside the types, which locals are set where. `SessInv` adds for one session
per client that the table knows every connected session, and that the loop makes a session only for
a client the table has none for. `SlotInv` equates the tokens with what the TCP half has and
datagrams less sessions that are over; it needs `HandlerInv`, that sessions not yet made have no
handler. `BufInv` is about ownership: no buffer is at once with the loop, with a copy, in the pool
or in a cache as a later datagram, by `LoopOwns`, `CopyOwns` and `WaitingOwns`; the first datagram
of a session is what the invariant has to leave out.

*Traffic.* What a request has seen is between `Total` and `Reset` both billed and in the counter, so
neither property is inductive; `Balance` says what holds inside the gap (`InGap`) and outside it
(`Settled`), and `Alone` that one request is in it. `Settled` holds of removed counters too; what is
in one of those is lost all the same, so that the property speaks of the `Reportable` ones.
`DeliveredCounted` needs the sum of what the copies of a counter have between `Add` and `Write`.
`Underway` is that sum as a set, one pair of a copy and a number for each byte, so that its size
grows by a chunk with an `Add` and shrinks by it with a `Write`; `Delivery` says that delivered and
underway together are counted.

*http.* `HttpInv` is `ControlInv` (a `StopCh` is closed by the `Close()` that follows its
`Serve()`), `RequestInv`, `TunnelInv`, `ClientInv` (what each answer the client may have got implies
about the request) and `HeaderInv` (a header passed on is one of `Outgoing` or `Returned`).
`RequestInv` has the two facts the theorems turn on: a handler that returns from a copy without an
error found its own `StopCh` closed (`StopInv`), and one that has ended has no flush pending
(`TimerInv`). `HopHeadersStay` is then a lemma about operators: `Connection` lists its names until
it is deleted, and what `DelHopHeaders` leaves of a name has an empty first value.

*https.* `GotInv` says that while every `Read` filled its buffer the record is the prefix of the
client's bytes that has been taken, which gives `RecordPassesIntact` for any bytes at all. `WalkInv`
says where `current` is at each label: at the offset that `WellFormed` names for the field, and in
the list of extensions at one of `exts`, with only extensions of other types before it (`Passed`).
The offsets are part of the record, so that no induction over the bytes is needed.

*Tunnels.* `TunnelsInv` is `FilesInv` (what is known of both files at each step of `main()`, given
the faults so far), `PcInv` (nothing is served before `GetCert()` has returned), `RelayInv` (a
goroutine that closes or serves works on the registered object), `DeadHasCause`, `MuxInv` (a path is
what the registry says once the writes that `todo` still holds are done), `WriteInv` (who has the
lock has something left to write), `OpsInv` (an object was paid for by a request, `Owed` counts the
one still to be made), `BootInv` and `PipeInv` (the types of the pipe). The first four need nothing
of the client (`FilesAndRelays`); `MuxInv` needs `FreshAdds`, without which an `/add` takes the
relay of a path out of the registry. `ClientsAreLetIn` adds `PathsAgree`, a lemma about operators:
what either half of a tunnel makes of a path is the same in every family but where `Meets` says
otherwise.

*Left to TLC:* liveness (`Answered`, `DdnsNotStarved`, `Served`, `LoopsEnd`, `BothEnd`,
`ShutdownEnds` of `UdpServer` and of `HttpRelay`, `StreamShown`, `TunnelEnds` of `HttpRelay` and of
`Tunnels`), which is out of the prover's reach, as are `ENABLED` and induction over data. Every
invariant and every action property that a passing run checks is a theorem.

## 5. Plan

Done: every component that keeps state is modelled, and the safety properties of all of them are
proved. What would add most next:

1. An abstract registry (a map from rule to what is served) that `ControlPlane` implements for a
   serialising client; `SerialInv`, `ExactInv` and `StartedInv` hold what the refinement needs.
2. The UDP relay serving again after `Close()`: two accept loops on one session table.

## 6. What is not modelled

- `relay/reverse_proxy.go`, the site that answers where no tunnel does: it passes a request to
  net/http/httputil with another Host and keeps no state.
- `relay/udpp.go`: nothing calls it.
- `stat/`: reads the system through a library and returns numbers.
- `config/`, `limits/`: records; their values are constants of the models. Speed limits wrap a
  reader and only delay it. `cmp` ignores a change of `Limit` (`lib.go:65`), so that a sync leaves
  the old one in force.
- `neko-relay.go`: flags (`fake_url` among them), the configuration file, gin's routing and the key
  of the API. Its two steps with state, `GetCert()` and `Init()`, are in `Tunnels` and
  `ControlPlane`.
- The UDP relay serving again after `Close()`, the Director's rewriting of a URL, `ModifyResponse`,
  the values of trailers, the contents of a certificate, and the site that `GetCert()` asks for its
  address (with no timeout).
- Build files.

------------------------------- MODULE NetStack -------------------------------
(***************************************************************************)
(* The network stack task (net.rs): poll_loop, the DHCP lease, the TCP     *)
(* probe and the TLS probe with its pump between the socket and rustls.    *)
(*                                                                         *)
(* An iteration of poll_loop holds the NET lock: iface.poll, the check of  *)
(* the TCP probe, pump_tls and the DHCP event, in that order.  The network *)
(* changes the sockets only inside iface.poll, as often as it likes.       *)
(* Bytes are counted in units; smoltcp, rustls and the peer are external.  *)
(***************************************************************************)
EXTENDS Integers, FiniteSets

CONSTANTS
    Leases,     \* records [ip, router]; router may be None
    Hello,      \* units of the client's first flight
    Flight,     \* units of the server's flight
    Finished,   \* units of the client's last flight
    TxCap,      \* capacity of the socket's send buffer
    MaxEvents,  \* bound: DHCP events
    None, DhcpSocket

ASSUME NetAssumption ==
    /\ {Hello, Flight, Finished, TxCap} \subseteq Nat \ {0} /\ MaxEvents \in Nat

Handles == 0 .. MaxEvents + 2   \* what SocketSet hands out; 0 is the DHCP socket

VARIABLES
    at,             \* where the iteration is
    sockets,        \* the SocketSet
    configured, addr, route,
    tcp_handle, tcp_ok,
    tls_tcp_handle,
    tls,            \* TlsState, or None
    tls_ok,
    peer,           \* per socket: units received from us, units sent to us
    oks, connects,  \* how often each sentinel was printed, each probe connected
    events          \* DHCP events so far

lease == <<configured, addr, route>>
tcp == <<tcp_handle, tcp_ok>>
session == <<tls_tcp_handle, tls, tls_ok>>
counts == <<oks, connects, events>>
netVars == <<at, sockets, lease, tcp, session, peer, counts>>

SocketRec == [state : {"SynSent", "Established", "CloseWait", "Closed"}, rx : Int, tx : Int]
TlsRec ==
    [at : {"hello", "blocked", "finished", "traffic", "failed"},
     incoming : Int, outgoing : Int, encoded : Int, handshake_done : BOOLEAN]

ASSUME NoneAssumption ==
    /\ None \notin Handles /\ None # DhcpSocket
    /\ None \notin SocketRec /\ DhcpSocket \notin SocketRec /\ None \notin TlsRec

NewSocket == [state |-> "SynSent", rx |-> 0, tx |-> 0]
NewTls == [at |-> "hello", incoming |-> 0, outgoing |-> 0, encoded |-> 0, handshake_done |-> FALSE]
NewPeer == [got |-> 0, sent |-> 0]

(* init: the DHCP socket and nothing else.                                  *)
NetInit ==
    /\ at = "iface_poll"
    /\ sockets = [h \in Handles |-> IF h = 0 THEN DhcpSocket ELSE None]
    /\ configured = FALSE /\ addr = None /\ route = None
    /\ tcp_handle = None /\ tcp_ok = FALSE
    /\ tls_tcp_handle = None /\ tls = None /\ tls_ok = FALSE
    /\ peer = [h \in Handles |-> NewPeer]
    /\ oks = [tcp |-> 0, tls |-> 0] /\ connects = [tcp |-> 0, tls |-> 0]
    /\ events = 0

IsSocket(h) == sockets[h] \notin {None, DhcpSocket}
InState(h, st) == IsSocket(h) /\ sockets[h].state = st

-----------------------------------------------------------------------------
(* The network as iface.poll brings it to a socket; external.               *)
Socket(h, st, new) ==
    /\ at = "iface_poll" /\ InState(h, st)
    /\ sockets' = [sockets EXCEPT ![h] = new]
    /\ UNCHANGED <<at, lease, tcp, session, counts>>

SynAck(h) == Socket(h, "SynSent", [sockets[h] EXCEPT !.state = "Established"]) /\ UNCHANGED peer
Reset(h) == Socket(h, "SynSent", [sockets[h] EXCEPT !.state = "Closed"]) /\ UNCHANGED peer
PeerCloses(h) == Socket(h, "Established", [sockets[h] EXCEPT !.state = "CloseWait"]) /\ UNCHANGED peer

SegmentOut(h) ==
    /\ Socket(h, "Established", [sockets[h] EXCEPT !.tx = @ - 1])
    /\ sockets[h].tx > 0
    /\ peer' = [peer EXCEPT ![h].got = @ + 1]

(* The server answers once it has the client's first flight.                *)
SegmentIn(h) ==
    /\ Socket(h, "Established", [sockets[h] EXCEPT !.rx = @ + 1])
    /\ h = tls_tcp_handle /\ peer[h].got >= Hello /\ peer[h].sent < Flight
    /\ peer' = [peer EXCEPT ![h].sent = @ + 1]

-----------------------------------------------------------------------------
(* After iface.poll: ARSENAL_TCP_OK when the probe is Established.          *)
TcpCheck ==
    /\ at = "iface_poll" /\ at' = "pump_tls"
    /\ IF tcp_handle # None /\ ~tcp_ok /\ InState(tcp_handle, "Established")
       THEN tcp_ok' = TRUE /\ oks' = [oks EXCEPT !.tcp = @ + 1]
       ELSE UNCHANGED <<tcp_ok, oks>>
    /\ UNCHANGED <<sockets, lease, tcp_handle, session, peer, connects, events>>

Least(a, b) == IF a < b THEN a ELSE b

(* What the send loops of pump_tls get into the socket.                     *)
Accepted == Least(tls.outgoing, TxCap - sockets[tls_tcp_handle].tx)

(* n units from the socket to incoming, the accepted ones to the socket;    *)
(* left is what outgoing keeps.                                             *)
Move(n, left) ==
    /\ sockets' = [sockets EXCEPT ![tls_tcp_handle].tx = @ + Accepted, ![tls_tcp_handle].rx = @ - n]
    /\ tls' = [tls EXCEPT !.outgoing = left, !.incoming = @ + n]

Pumping ==
    /\ tls_tcp_handle # None /\ tls # None
    /\ ~tls.handshake_done
    /\ InState(tls_tcp_handle, "Established")

(* pump_tls: nothing to pump.                                               *)
PumpIdle ==
    /\ at = "pump_tls" /\ ~Pumping
    /\ at' = "dhcp"
    /\ UNCHANGED <<sockets, lease, tcp, session, peer, counts>>

PumpInWith(n, left) ==
    /\ at = "pump_tls" /\ Pumping
    /\ Move(n, left)
    /\ at' = "drive_rustls"
    /\ UNCHANGED <<lease, tcp, tls_tcp_handle, tls_ok, peer, counts>>

(* Mutants of PumpIn: all of outgoing is drained, sent or not; the socket   *)
(* is not read.                                                             *)
PumpInDrainsAll == PumpInWith(sockets[tls_tcp_handle].rx, 0)
PumpInNoRecv == PumpInWith(0, tls.outgoing - Accepted)

(* Phase 1: all of the socket's bytes into incoming, outgoing as far as the *)
(* socket takes it.                                                         *)
PumpIn == PumpInWith(sockets[tls_tcp_handle].rx, tls.outgoing - Accepted)

(* One round of drive_rustls with what process_tls_records returns.         *)
Drive(state, new, stop) ==
    /\ at = "drive_rustls" /\ tls.at = state
    /\ tls' = new
    /\ at' = IF stop THEN "flush" ELSE at
    /\ UNCHANGED <<sockets, lease, tcp, tls_tcp_handle, tls_ok, peer, counts>>

(* EncodeTlsData appends n units to outgoing; TransmitTlsData marks them    *)
(* done.  An encode error leaves outgoing as it was and stops.              *)
Encode(state, n, next) ==
    Drive(state, [tls EXCEPT !.outgoing = @ + n, !.encoded = @ + n, !.at = next], FALSE)
EncodeHello == Encode("hello", Hello, "blocked")
EncodeFinished == Encode("finished", Finished, "traffic")
EncodeFails == \E state \in {"hello", "finished"} : Drive(state, tls, TRUE)

BlockedHandshake == Drive("blocked", tls, TRUE) /\ tls.incoming < Flight
TakeFlight ==
    /\ Drive("blocked", [tls EXCEPT !.incoming = @ - Flight, !.at = "finished"], FALSE)
    /\ tls.incoming >= Flight

(* A flight that rustls rejects: the error now and on every later call.     *)
RecordError ==
    \/ Drive("blocked", [tls EXCEPT !.at = "failed"], TRUE) /\ tls.incoming >= Flight
    \/ Drive("failed", tls, TRUE)

WriteTraffic == Drive("traffic", [tls EXCEPT !.handshake_done = TRUE], TRUE)

(* Phase 3, and when the handshake is complete for the first time           *)
(* ARSENAL_TLS_OK; the socket is removed.                                   *)
PumpOutWith(done, handle) ==
    /\ at = "flush" /\ at' = "dhcp"
    /\ IF done
       THEN /\ sockets' = [sockets EXCEPT ![tls_tcp_handle] = None]
            /\ tls_tcp_handle' = handle /\ tls' = None /\ tls_ok' = TRUE
            /\ oks' = [oks EXCEPT !.tls = @ + 1]
       ELSE /\ Move(0, tls.outgoing - Accepted)
            /\ UNCHANGED <<tls_tcp_handle, tls_ok, oks>>
    /\ UNCHANGED <<lease, tcp, peer, connects, events>>

(* Mutants of PumpOut: the handle stays although the socket is gone; the    *)
(* sentinel is printed for every session.                                   *)
PumpOutKeepsHandle == PumpOutWith(tls.handshake_done /\ ~tls_ok, tls_tcp_handle)
PumpOutAgain == PumpOutWith(tls.handshake_done, None)

PumpOut == PumpOutWith(tls.handshake_done /\ ~tls_ok, None)

-----------------------------------------------------------------------------
(* dhcp.poll returns no event.                                              *)
NoEvent ==
    /\ at = "dhcp" /\ at' = "iface_poll"
    /\ UNCHANGED <<sockets, lease, tcp, session, peer, counts>>

(* A lease: the address is replaced, the route if the lease has a router;   *)
(* the probes start when the interface was not configured.                  *)
Configure(l) ==
    /\ at = "dhcp" /\ events < MaxEvents /\ events' = events + 1
    /\ addr' = l.ip
    /\ route' = IF l.router = None THEN route ELSE l.router
    /\ configured' = TRUE
    /\ at' = IF configured THEN "iface_poll" ELSE "start_tcp"
    /\ UNCHANGED <<sockets, tcp, session, peer, oks, connects>>

(* A lost lease.                                                            *)
Deconfigure ==
    /\ at = "dhcp" /\ events < MaxEvents /\ events' = events + 1
    /\ addr' = None /\ route' = None /\ configured' = FALSE
    /\ at' = "iface_poll"
    /\ UNCHANGED <<sockets, tcp, session, peer, oks, connects>>

(* SocketSet::add takes the first free place.                               *)
Free == {h \in Handles : sockets[h] = None}
FreeHandle == CHOOSE h \in Free : \A i \in Free : h <= i
AddSocket ==
    /\ sockets' = [sockets EXCEPT ![FreeHandle] = NewSocket]
    /\ peer' = [peer EXCEPT ![FreeHandle] = NewPeer]

(* start_tcp_smoke; connect may be refused.                                 *)
StartTcp ==
    /\ at = "start_tcp" /\ at' = "start_tls"
    /\ \/ /\ tcp_handle = None
          /\ AddSocket
          /\ tcp_handle' = FreeHandle
          /\ connects' = [connects EXCEPT !.tcp = @ + 1]
       \/ UNCHANGED <<sockets, peer, tcp_handle, connects>>
    /\ UNCHANGED <<lease, tcp_ok, session, oks, events>>

(* start_tls_smoke; connect may be refused, and the client may fail to be   *)
(* constructed when the handle has been stored already.                     *)
StartTls ==
    /\ at = "start_tls" /\ at' = "iface_poll"
    /\ \/ /\ tls_tcp_handle = None
          /\ AddSocket
          /\ tls_tcp_handle' = FreeHandle
          /\ tls' \in {tls, NewTls}
          /\ connects' = [connects EXCEPT !.tls = @ + 1]
       \/ UNCHANGED <<sockets, peer, tls_tcp_handle, tls, connects>>
    /\ UNCHANGED <<lease, tcp, tls_ok, oks, events>>

-----------------------------------------------------------------------------
Task ==
    \/ TcpCheck \/ PumpIdle \/ PumpIn \/ PumpOut
    \/ EncodeHello \/ EncodeFinished \/ BlockedHandshake \/ TakeFlight \/ WriteTraffic
    \/ EncodeFails \/ RecordError
    \/ NoEvent \/ StartTcp \/ StartTls

NetNext ==
    \/ Task
    \/ Deconfigure \/ \E l \in Leases : Configure(l)
    \/ \E h \in Handles : SynAck(h) \/ Reset(h) \/ PeerCloses(h) \/ SegmentOut(h) \/ SegmentIn(h)

(* poll_loop keeps iterating, encode does not fail for ever, and the        *)
(* network delivers segments.                                               *)
NetFairness ==
    /\ WF_netVars(Task) /\ SF_netVars(EncodeHello) /\ SF_netVars(EncodeFinished)
    /\ SF_netVars(\E h \in Handles : SegmentOut(h)) /\ SF_netVars(\E h \in Handles : SegmentIn(h))

NetSpec == NetInit /\ [][NetNext]_netVars
NetFairSpec == NetSpec /\ NetFairness

-----------------------------------------------------------------------------
(* Every handle names a live socket of its own and no socket is without a   *)
(* handle: sockets.get never panics on a removed handle, and losing and     *)
(* regaining the lease leaks none.                                          *)
HandlesMatchSockets ==
    /\ {h \in Handles : IsSocket(h)} = {tcp_handle, tls_tcp_handle} \ {None}
    /\ tcp_handle # None => tcp_handle # tls_tcp_handle

(* The bytes rustls has encoded are in outgoing, in the socket or with the  *)
(* peer: the short sends of pump_tls lose and repeat nothing.               *)
BytesConserved ==
    tls_tcp_handle # None /\ tls # None
    => tls.encoded = tls.outgoing + sockets[tls_tcp_handle].tx + peer[tls_tcp_handle].got

(* A sentinel is printed once, whichever of several sessions completes, and *)
(* the TCP probe connects once, however often the lease is lost and granted *)
(* again.                                                                   *)
ProbesOnce == oks.tcp <= 1 /\ oks.tls <= 1 /\ connects.tcp <= 1

(* A TLS session on an established connection completes, however small the  *)
(* send buffer, unless the connection is lost or rustls rejects the flight. *)
TlsCompletes == Pumping ~> (~Pumping \/ tls.at = "failed")
=============================================================================

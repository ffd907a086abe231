----------------------------- MODULE PeerAddress -----------------------------
(***************************************************************************)
(* How fetch_blockchain_info() turns a peer's "host:port" address into the *)
(* address of the peer's status endpoint:                                  *)
(*                                                                         *)
(*   let peer_ip = peer.address.split(':').next().unwrap_or(&peer.address);*)
(*   let url = format!("http://{}:24101/blockchain/info", peer_ip);        *)
(*                                                                         *)
(* An address is a sequence of characters over a small alphabet; the two   *)
(* port numbers are single tokens.  The reference is the address's own     *)
(* structure: it is built from a host and a port, and the status address   *)
(* must be that host with the fixed status port (spec 4.2, 5).             *)
(***************************************************************************)
EXTENDS Naturals, SequencesExt

CONSTANTS
    Hosts,   \* host parts a peer address can carry, as character sequences
    Ports    \* P2P port parts, as character sequences

\* The fixed status port of the chain-status API.
StatusPort == "24101"

\* A peer address as the directory or the addnode list gives it.
Address(host, port) == host \o << ":" >> \o port

\* split(':').next(): the text before the first ':'.  A split always yields
\* a first piece, so unwrap_or never applies.
StatusHost(a) ==
    LET k == SelectInSeq(a, LAMBDA ch : ch = ":")
    IN  IF k = 0 THEN a ELSE SubSeq(a, 1, k - 1)

\* format!("http://{}:24101/..", peer_ip): host and port of the request.
StatusAddress(a) == StatusHost(a) \o << ":", StatusPort >>

VARIABLE peer   \* the peer whose status address is derived

Init == peer \in [host : Hosts, port : Ports]

Next == UNCHANGED peer

Spec == Init /\ [][Next]_peer

(***************************************************************************)
(* The spec (4.2, 5) says the status query goes to the host extracted from *)
(* the peer's "host:port" address, paired with the fixed status port and  *)
(* never with the peer's own port: for every address built from a host    *)
(* and a port, the derived status address is exactly that host and 24101. *)
(***************************************************************************)
StatusAddressFromHost ==
    StatusAddress(Address(peer.host, peer.port)) = peer.host \o << ":", StatusPort >>

=============================================================================

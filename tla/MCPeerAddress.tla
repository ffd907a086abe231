---------------------------- MODULE MCPeerAddress ----------------------------
(* Model-checking instance of PeerAddress: every host name or IPv4-like    *)
(* host of up to three characters, the bracketed IPv6 literals [::],       *)
(* [::1] and [1::], and ports of one or two digits.                        *)
EXTENDS PeerAddress

\* Host names and dotted IPv4 addresses.
MCNameHosts == BoundedSeq({"a", "1", "."}, 3) \ {<< >>}

\* Bracketed IPv6 literals.
MCIPv6Hosts == { << "[" >> \o s \o << "]" >> :
                   s \in { << ":", ":" >>, << ":", ":", "1" >>, << "1", ":", ":" >> } }

MCHosts == MCNameHosts \cup MCIPv6Hosts

MCPorts == BoundedSeq({"2", "4"}, 2) \ {<< >>}
=============================================================================

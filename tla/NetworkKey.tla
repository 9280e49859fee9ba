------------------------------ MODULE NetworkKey ------------------------------
(***************************************************************************)
(* network_key of src/src/limiter.rs: what RateLimiter::by_network meters a *)
(* peer by.                                                                 *)
(***************************************************************************)
EXTENDS Naturals, Sequences

\* IpAddr: two 16-bit halves, or eight 16-bit segments.
Ones      == 65535
Segments  == 0..Ones
Addresses == [v4 : [1..2 -> Segments]] \cup [v6 : [1..8 -> Segments]]

Zeros(n) == [i \in 1..n |-> 0]

\* Ipv6Addr::to_ipv4_mapped: ::ffff:a.b.c.d holds a.b.c.d.
IsMapped(ip) == "v6" \in DOMAIN ip /\ SubSeq(ip.v6, 1, 6) = Zeros(5) \o <<Ones>>

Prefix(ip, n) == [v6 |-> SubSeq(ip.v6, 1, n) \o Zeros(8 - n)]

(* Deliberately wrong variants of network_key.                              *)

\* A v4-mapped address is masked as any other IPv6 address.
MaskedUnmapped(ip) == IF "v4" \in DOMAIN ip THEN ip ELSE Prefix(ip, 4)

\* Every IPv6 address is a network of its own.
Unmasked(ip) == IF IsMapped(ip) THEN [v4 |-> SubSeq(ip.v6, 7, 8)] ELSE ip

\* IPv4 as it is, also when it comes mapped; IPv6 by its /64 prefix.
network_key(ip) ==
  CASE "v4" \in DOMAIN ip -> ip
    [] IsMapped(ip)       -> [v4 |-> SubSeq(ip.v6, 7, 8)]
    [] OTHER              -> Prefix(ip, 4)
=============================================================================

------------------------------- MODULE Subnets -------------------------------
(***************************************************************************)
(* The address arithmetic of core/ipam.py: five consecutive /24 networks   *)
(* 10.x.y.0/24 per slot, and the static addresses of the containers on     *)
(* them.  A network is the pair <<x, y>>, an address the triple <<x, y, h>>;*)
(* the dotted text of the code is in one-to-one correspondence with both.  *)
(***************************************************************************)
EXTENDS Integers

MAX_SLOTS == 7987

\* Positions in the quintuple that derive_subnets returns.
Nets == 0..4

\* derive_subnets for base_index < MAX_SLOTS (ValueError beyond).
Subnet(base_index, i) ==
  LET g == base_index * 5
  IN  <<100 + ((g + i) \div 256), (g + i) % 256>>

\* The order of the quintuple: isolated, core_proxy, dns, egress, ipc.
Isolated == 0
CoreProxy == 1
Dns == 2
Egress == 3
Ipc == 4

\* derive_static_ips: container, network, last octet.
StaticHosts ==
  {<<"core", Isolated, 3>>, <<"core", CoreProxy, 3>>, <<"core", Ipc, 3>>,
   <<"proxy", CoreProxy, 254>>,
   <<"dnsdist", Isolated, 56>>, <<"dnsdist", Dns, 56>>,
   <<"coredns", Dns, 53>>, <<"coredns", Egress, 53>>,
   <<"admin", Ipc, 2>>,
   <<"db_postgres", Isolated, 54>>,
   <<"mcp_firecrawl", CoreProxy, 55>>, <<"mcp_firecrawl", Dns, 55>>,
   <<"mcp_firecrawl", Isolated, 55>>}

StaticIp(base_index, h) == LET s == Subnet(base_index, h[2]) IN <<s[1], s[2], h[3]>>

-----------------------------------------------------------------------------
(* Properties of one slot, for every slot the ledger can hand out. *)

Slots == 0..(MAX_SLOTS - 1)

\* The networks of a slot lie in 10.100.0.0 - 10.255.255.0.
InRange(base_index) ==
  \A i \in Nets : Subnet(base_index, i) \in (100..255) \X (0..255)

\* A network names its slot and its place in the quintuple: the slot of a
\* network can be computed back, so no two slots share a network.
Recovers(base_index) ==
  \A i \in Nets : LET s == Subnet(base_index, i)
                      n == (s[1] - 100) * 256 + s[2]
                  IN  n \div 5 = base_index /\ n % 5 = i

\* No two containers of one instance have the same address on a network, and
\* none has the network's, the gateway's or the broadcast address.
AddressesApart(base_index) ==
  \A h, k \in StaticHosts :
    /\ h # k => StaticIp(base_index, h) # StaticIp(base_index, k)
    /\ h[3] \in 2..254
=============================================================================

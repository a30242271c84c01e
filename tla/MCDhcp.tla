-------------------------------- MODULE MCDhcp --------------------------------
(***************************************************************************)
(* Small instances of Dhcp for TLC.                                        *)
(***************************************************************************)
EXTENDS Dhcp, TLC

CONSTANTS v1, v2, g1, g2

\* Two servers announce two gateways.
MCServers  == {v1, v2}
MCGateways == {g1, g2}
MCGwOf     == v1 :> g1 @@ v2 :> g2

\* One server announces one gateway.
MCOneServer  == {v1}
MCOneGateway == {g1}
MCOneGwOf    == v1 :> g1

\* No definition tells one address from another.
AddrSymmetry == Permutations(Addrs)

=============================================================================

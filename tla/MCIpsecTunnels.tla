---------------------------- MODULE MCIpsecTunnels --------------------------
(***************************************************************************)
(* Gateways for IpsecTunnels: two peers behind local addresses of their    *)
(* own, of which one may have none; two behind the same local address.     *)
(***************************************************************************)
EXTENDS IpsecTunnels

Peer(n, l, r) == [name |-> n, local |-> l, remote |-> r]

OwnAddresses ==
    { <<Peer("A", "l1", "r1"), Peer("B", "l2", "r2")>>,
      <<Peer("A", "l1", "r1"), Peer("B", Missing, "r2")>>,
      <<Peer("A", Missing, "r1"), Peer("B", "l2", "r2")>> }
SharedAddress == { <<Peer("A", "l1", "r1"), Peer("B", "l1", "r2")>> }
=============================================================================

--------------------------- MODULE MCPeerService ---------------------------
(***************************************************************************)
(* Nodes 1 and 2 dial each other, over connections that work, and 3 dials  *)
(* 2 over one that may fail.  The nodes speak different versions and offer *)
(* different features.                                                     *)
(***************************************************************************)
EXTENDS PeerService, TLC

H(n, min, max, offered, required) ==
    [nonce |-> n, chain_id |-> "main", min |-> min, max |-> max,
     offered |-> offered, required |-> required]

MCNode == 1..3
MCHello == << H(1, 1, 2, {"blocks", "txs"}, {"blocks"}),
              H(2, 1, 3, {"blocks", "later"}, {}),
              H(3, 1, 1, {"blocks"}, {"blocks"}) >>
MCDialer == <<1, 2, 3>>
MCAcceptor == <<2, 1, 2>>
MCCoolable == {<<2, 3>>}
=============================================================================

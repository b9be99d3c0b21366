----------------------------- MODULE MCMempool -----------------------------
(***************************************************************************)
(* Transactions 6, 7 and 14 depend on 5, 8 and 9 conflict, 10 has          *)
(* the best fee rate, 11 spends a coinbase that a reorganization can       *)
(* remove, 12 an output its parent does not have.  15 to 19 break one rule *)
(* each: an input twice, a refused spend, a size, a value, a null input;   *)
(* the coinbases 20 and 21 forget the founder and pay too much.            *)
(***************************************************************************)
EXTENDS Mempool

Pays(v) == [value |-> v, founder |-> FALSE]
Founder == [value |-> 4, founder |-> TRUE]
Null == <<NullPoint>>
Table == <<
    [in |-> Null, out |-> <<Founder, Pays(2), Pays(2)>>, height |-> 1, bytes |-> 1],
    [in |-> Null, out |-> <<Pays(2)>>, height |-> 2, bytes |-> 1],
    [in |-> Null, out |-> <<Pays(1)>>, height |-> 2, bytes |-> 1],
    [in |-> Null, out |-> <<Pays(1)>>, height |-> 3, bytes |-> 1],
    [in |-> <<<<1, 1>>>>, out |-> <<Pays(1), Pays(1), Pays(1)>>, height |-> 0, bytes |-> 1],
    [in |-> <<<<5, 1>>>>, out |-> <<Pays(1)>>, height |-> 0, bytes |-> 1],
    [in |-> <<<<5, 2>>, <<6, 1>>>>, out |-> <<Pays(1)>>, height |-> 0, bytes |-> 2],
    [in |-> <<<<1, 2>>>>, out |-> <<Pays(1)>>, height |-> 0, bytes |-> 2],
    [in |-> <<<<1, 2>>>>, out |-> <<Pays(2)>>, height |-> 0, bytes |-> 1],
    [in |-> <<<<1, 3>>>>, out |-> <<Pays(0)>>, height |-> 0, bytes |-> 1],
    [in |-> <<<<2, 1>>>>, out |-> <<Pays(2)>>, height |-> 0, bytes |-> 1],
    [in |-> <<<<5, 4>>>>, out |-> <<Pays(1)>>, height |-> 0, bytes |-> 1],
    [in |-> <<<<7, 1>>>>, out |-> <<Pays(0)>>, height |-> 0, bytes |-> 1],
    [in |-> <<<<5, 3>>>>, out |-> <<Pays(0)>>, height |-> 0, bytes |-> 1],
    [in |-> <<<<1, 3>>, <<1, 3>>>>, out |-> <<Pays(4)>>, height |-> 0, bytes |-> 1],
    [in |-> <<<<1, 2>>>>, out |-> <<Pays(1)>>, height |-> 0, bytes |-> 1],
    [in |-> <<<<1, 3>>>>, out |-> <<Pays(1)>>, height |-> 0, bytes |-> 5],
    [in |-> <<<<1, 2>>>>, out |-> <<Pays(3)>>, height |-> 0, bytes |-> 1],
    [in |-> <<<<1, 3>>, NullPoint>>, out |-> <<Pays(1)>>, height |-> 0, bytes |-> 1],
    [in |-> Null, out |-> <<Pays(4), Pays(2)>>, height |-> 1, bytes |-> 1],
    [in |-> Null, out |-> <<Pays(3)>>, height |-> 2, bytes |-> 1],
    [in |-> Null, out |-> <<Pays(0)>>, height |-> 4, bytes |-> 1],
    [in |-> Null, out |-> <<Pays(0)>>, height |-> 3, bytes |-> 1] >>

MCTx == DOMAIN Table
MCInputs == [t \in MCTx |-> Table[t].in]
MCOutputs == [t \in MCTx |-> Table[t].out]
MCWitness == [t \in MCTx |-> Table[t].height]
MCBytes == [t \in MCTx |-> Table[t].bytes]
MCUnverified == {<<16, 1>>}
MCBlock == {<<1>>, <<2>>, <<3>>, <<4>>, <<4, 5>>, <<23, 5, 6>>, <<4, 9>>, <<22>>, <<22, 5>>,
            <<22, 8>>, <<22, 6>>, <<22, 11>>, <<23, 6, 5>>, <<23, 5, 5>>, <<23, 8>>,
            <<23, 15>>, <<23, 16>>, <<23, 17>>, <<23, 18>>, <<23, 19>>, <<5>>, <<20>>, <<21>>}
MCBadRoot == {<<23, 8>>}

=============================================================================

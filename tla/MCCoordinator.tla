---------------------------- MODULE MCCoordinator ----------------------------
(***************************************************************************)
(* Two WASM contracts that pay from their execution balances, a target     *)
(* nothing is dispatched to, and a transaction that is paid natively.      *)
(***************************************************************************)
EXTENDS Coordinator

Kinds == [a \in Address |->
            CASE a = "o" -> "oregon" [] a = "x" -> "evm" [] OTHER -> "wasm"]

Keys(slot) == 1
Lengths(value) == 1
Ratios == [d \in ResourceDomain |-> [num |-> 1, den |-> IF d = "evm" THEN 1 ELSE 2]]
Costs == [read |-> 1, copy |-> 1, write |-> 1, byte |-> 0, delete |-> 1,
          event |-> 1, call |-> 1]

To(target, value, read_only) ==
  [target |-> target, value |-> value, read_only |-> read_only]
Calls == {To("w", 1, FALSE), To("v", 1, FALSE), To("v", 0, TRUE), To("x", 0, FALSE)}

Slots == {<<"wasm", a, "k">> : a \in {"w", "v"}}
           \cup {Balance(a) : a \in Address} \cup {Total}
Contents ==
  [s \in Slots |-> CASE s = Balance("w") -> {5} [] s = Balance("v") -> {1}
                     [] s = Total -> {6} [] OTHER -> {}]

Cap(kind, payer, sequence) ==
  [kind |-> kind, payer |-> payer, commitment |-> "c", amount |-> 20,
   sequence |-> sequence, authorization |-> "a"]
Terms(weight) == [base |-> 1, max_fee |-> 1, priority |-> 0, max_weight |-> weight]
Tx(id, kind, payer, target, weight) ==
  [txid |-> id, capability |-> Cap(kind, payer, id), target |-> target,
   terms |-> Terms(weight), read_only |-> FALSE]

Requests ==
  {Tx(1, "execution", "w", "w", 4), Tx(2, "execution", "v", "v", 1),
   Tx(2, "native", "o", "w", 1), Tx(3, "execution", "w", "x", 3)}
=============================================================================

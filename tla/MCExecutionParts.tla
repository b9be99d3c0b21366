-------------------------- MODULE MCExecutionParts --------------------------
(***************************************************************************)
(* Five parts of execution that share no state: the journal, the weight    *)
(* meter, the escrow book, the state tree and the fee market.  A behaviour *)
(* belongs to one part and the others stay as they began.                  *)
(***************************************************************************)
EXTENDS Journal, WeightMeter, EscrowBook, SparseMerkle, FeeMarket

VARIABLE part

(* Journal: two keys of one domain, one of another and one of a domain the  *)
(* journal does not have; values of one and of too many bytes.              *)
Slots == {<<"wasm", "a">>, <<"wasm", "b">>, <<"accounting", "a">>, <<"evm", "a">>}
Values == {{}, {1}, {9}}
Lengths(value) == CHOOSE v \in value : TRUE
Keys(slot) == 1
States == {[s \in Slots |-> {}]}

(* Meter: ratios below, at and above one.                                   *)
Ratios == "native" :> [num |-> 1, den |-> 1] @@ "evm" :> [num |-> 2, den |-> 3]
            @@ "wasm" :> [num |-> 5, den |-> 2]

(* Escrow: three funding sources, one of them offered with two amounts and  *)
(* two authorizations; terms whose cap binds, whose cap does not, and that  *)
(* charge nothing.                                                          *)
Cap(source, amount, auth) ==
  [kind |-> "native", payer |-> "p", commitment |-> source, amount |-> amount,
   sequence |-> 0, authorization |-> auth]

Capabilities == {Cap("x", 6, 0), Cap("x", 12, 0), Cap("x", 12, 1), Cap("y", 12, 0),
                 Cap("z", 12, 0)}

T(base, max_fee, priority, max_weight) ==
  [base |-> base, max_fee |-> max_fee, priority |-> priority,
   max_weight |-> max_weight]

AllTerms == {T(1, 3, 1, 4), T(2, 3, 2, 2), T(0, 0, 0, 1), T(3, 3, 0, 3)}

(* Tree: three levels and three keys, two that part at the last level and   *)
(* one that parts from them at the first.                                   *)
Paths == "a" :> <<0, 1, 0>> @@ "b" :> <<0, 1, 1>> @@ "c" :> <<1, 0, 0>>

OneWrite == [key : Key, value : Option(TreeValue)]

(* Single writes, pairs of the two near keys, the same key twice, and a     *)
(* list longer than a write set may be.                                     *)
Lists ==
  LET on(k) == {w \in OneWrite : w.key = k}
      drop(k) == [key |-> k, value |-> {}]
  IN {<<w>> : w \in OneWrite} \cup {<<x, w>> : w \in on("a"), x \in on("b")}
       \cup {<<drop("a"), drop("a")>>, <<drop("a"), drop("b"), drop("c")>>}

Init ==
  /\ part \in {"journal", "meter", "escrow", "tree", "fees"}
  /\ JournalInit /\ MeterInit /\ BookInit /\ TreeInit
  /\ IF part = "fees" THEN FeeInit ELSE base_fee = MinBaseFee /\ consumed = 0

Next ==
  /\ UNCHANGED part
  /\ \/ part = "journal" /\ JournalNext
          /\ UNCHANGED <<meter_vars, book_vars, tree_vars, fee_vars>>
     \/ part = "meter" /\ MeterNext
          /\ UNCHANGED <<journal_vars, book_vars, tree_vars, fee_vars>>
     \/ part = "escrow" /\ BookNext
          /\ UNCHANGED <<journal_vars, meter_vars, tree_vars, fee_vars>>
     \/ part = "tree" /\ TreeNext
          /\ UNCHANGED <<journal_vars, meter_vars, book_vars, fee_vars>>
     \/ part = "fees" /\ FeeNext
          /\ UNCHANGED <<journal_vars, meter_vars, book_vars, tree_vars>>

Spec ==
  Init /\ [][Next]_<<part, journal_vars, meter_vars, book_vars, tree_vars, fee_vars>>
=============================================================================

---------------------------- MODULE MCChainParts ----------------------------
(***************************************************************************)
(* Four parts below the chain state that share no state: opening the       *)
(* store, the execution reserve, the rules for headers, and the encodings. *)
(* A behaviour belongs to one part and the others stay as they began.      *)
(***************************************************************************)
EXTENDS StoreOpen, Reserve, HeaderRules, Records

VARIABLE part

ThreeTips == {[id |-> "a", height |-> "1"], [id |-> "b", height |-> "2"],
              [id |-> "c", height |-> "2"]}

(* Ledgers to begin with: empty, an ordinary output, and outputs that carry *)
(* the program of the reserve, one of them or two.                          *)
Native(n, program) ==
  <<"native", n>> :> [amount |-> 1, creation_height |-> 0, is_coinbase |-> FALSE,
                      program |-> program]

MCNatives == {<<>>, Native(1, "Ordinary"),
              Native(1, "Ordinary") @@ Native(2, "Reserve"),
              Native(1, "Reserve") @@ Native(2, "Reserve")}

(* The polynomial of the factor, scaled to a radix of 16.                   *)
Coefficients == <<2849, 58, 1>>

(* Limits that lengths of one, two and three bytes can reach and pass.      *)
Small == [inputs |-> 1, witness |-> 1, item |-> 1, outputs |-> 0, program |-> 1,
          transactions |-> 2, items |-> 2, record |-> 5]

EachLimit ==
  [k \in Kind |->
     CASE k = "transaction" -> [Small EXCEPT !.item = 2, !.outputs = 1]
       [] k \in {"inventory", "get_headers", "headers"} -> [Small EXCEPT !.items = 4]
       [] k = "utxo" -> [Small EXCEPT !.program = 4]
       [] k = "undo" -> [Small EXCEPT !.program = 0]
       [] k = "block" -> [Small EXCEPT !.witness = 0]
       [] OTHER -> Small]

Init ==
  /\ part \in {"store", "reserve", "headers", "records"}
  /\ IF part = "store" THEN StoreInit
     ELSE disk = Keys([schema |-> {"1.1"}]) /\ pc = "open" /\ plan = <<>> /\ crashes = 0
  /\ IF part = "reserve" THEN ReserveInit
     ELSE entries = <<>> /\ undos = <<>> /\ past = <<>> /\ flows = <<>>
  /\ HeaderInit
  /\ IF part = "records" THEN RecordInit ELSE kind = "headers" /\ bytes = <<>>

Next ==
  /\ UNCHANGED part
  /\ \/ part = "store" /\ StoreNext /\ UNCHANGED <<reserve_vars, header_vars, record_vars>>
     \/ part = "reserve" /\ ReserveNext /\ UNCHANGED <<store_vars, header_vars, record_vars>>
     \/ part = "headers" /\ HeaderNext /\ UNCHANGED <<store_vars, reserve_vars, record_vars>>
     \/ part = "records" /\ Feed /\ UNCHANGED <<store_vars, reserve_vars, header_vars>>

(* Where another part moves, the store is open and stays so.                *)
Spec ==
  /\ Init /\ [][Next]_<<part, store_vars, reserve_vars, header_vars, record_vars>>
  /\ WF_store_vars(Open) /\ WF_store_vars(WriteNext) /\ WF_store_vars(Opened)
=============================================================================

------------------------------ MODULE Reserve ------------------------------
(***************************************************************************)
(* The execution reserve: one output of the ledger that holds all money    *)
(* of contracts (crate oregon-utxo, reserve.rs).  A transition replaces    *)
(* the live output by one with the new balance, or by none; its undo       *)
(* record brings the old output back.                                      *)
(*                                                                         *)
(* The outpoint of a reserve is <<"reserve", parts>>, because its txid is  *)
(* the hash of the parts of the transition, the previous outpoint and the  *)
(* height among them; native outputs are <<"native", n>>.                  *)
(***************************************************************************)
EXTENDS Integers, FiniteSets, Sequences, FiniteSetsExt, Functions, TLC

CONSTANTS
    MAX_SUPPLY, U64_MAX,
    Amount,       \* the amounts, deposits, withdrawals and fees of a proposal
    Natives,      \* the ledgers to begin with
    MAX_STEPS     \* bound: transitions in force at once

ASSUME ReserveAssumption ==
    /\ MAX_SUPPLY \in Nat /\ U64_MAX \in Nat /\ MAX_SUPPLY <= U64_MAX
    /\ Amount \subseteq Nat

VARIABLES
    entries,      \* UtxoState: outpoint -> entry
    undos,        \* the ReserveUndoV1 of the transitions in force
    past,         \* the entries before each of them (history)
    flows         \* their deposits, withdrawals and fees (history)

reserve_vars == <<entries, undos, past, flows>>

\* An option's value, and the first of the checks <<condition, error>> that fails.
The(option) == CHOOSE x \in option : TRUE
FirstError(checks) ==
    LET failing == {i \in DOMAIN checks : checks[i][1]}
    IN  IF failing = {} THEN "none" ELSE checks[Min(failing)][2]

live_reserves(es) == {o \in DOMAIN es : es[o].program = "Reserve"}

\* ReserveTransitionV1::new: its error and the transition.  parts.previous is a
\* set of at most one snapshot.
NewTransition(parts) ==
    LET before == IF parts.previous = {} THEN 0 ELSE The(parts.previous).amount
        deposited == before + parts.deposit
        new == deposited - parts.withdrawal - parts.fee
    IN  [error |-> FirstError(<<
            <<\E p \in parts.previous : p.amount = 0, "InvalidPreviousSnapshot">>,
            <<deposited > U64_MAX, "ArithmeticOverflow">>,
            <<deposited < parts.withdrawal, "ArithmeticUnderflow">>,
            <<deposited - parts.withdrawal < parts.fee, "ArithmeticUnderflow">>,
            <<new # parts.balance, "ExecutionBalanceMismatch">>,
            <<\E p \in parts.previous : p.amount > MAX_SUPPLY, "AmountOutOfRange">>,
            <<new > MAX_SUPPLY, "AmountOutOfRange">> >>),
         previous |-> parts.previous,
         new_key |-> IF new = 0 THEN {} ELSE {<<"reserve", parts>>},
         new_amount |-> new,
         height |-> parts.height]

ReserveEntry(t) ==
    [amount |-> t.new_amount, creation_height |-> t.height, is_coinbase |-> FALSE,
     program |-> "Reserve"]

\* Mutant: a snapshot is accepted although no reserve is live.
MatchesByOutpoint(es, t) ==
    \A o \in live_reserves(es) : \E p \in t.previous : p.outpoint = o

\* The live output is the one the transition expects.
MatchesLive(es, t) ==
    IF t.previous = {} THEN live_reserves(es) = {}
    ELSE /\ live_reserves(es) # {}
         /\ \A o \in live_reserves(es) : \E p \in t.previous :
                p.outpoint = o /\ p.amount = es[o].amount

Succeeded(es, t) ==
    Restrict(es, DOMAIN es \ live_reserves(es)) @@ [o \in t.new_key |-> ReserveEntry(t)]

apply_reserve_transition_v1(es, t) ==
    [error |-> FirstError(<<
        <<Cardinality(live_reserves(es)) > 1, "MultipleLiveReserves">>,
        <<~ MatchesLive(es, t), "PreviousReserveMismatch">>,
        <<t.new_key \cap DOMAIN es # {}, "OutputCollision">> >>),
     es |-> Succeeded(es, t),
     undo |-> [previous |-> Restrict(es, live_reserves(es)),
               created |-> [o \in t.new_key |-> ReserveEntry(t)]]]

UndoMatches(es, undo) ==
    /\ Restrict(es, live_reserves(es)) = undo.created
    /\ DOMAIN undo.previous \cap DOMAIN es = {}

undo_reserve_transition_v1(es, undo) ==
    [error |-> IF UndoMatches(es, undo) THEN "none" ELSE "UndoMismatch",
     es |-> Restrict(es, DOMAIN es \ DOMAIN undo.created) @@ undo.previous]

-----------------------------------------------------------------------------
(* The transitions a block may propose: from the live output, or from a    *)
(* snapshot that is out of date.                                           *)

Snapshot(es, o) == [outpoint |-> o, amount |-> es[o].amount]
Snapshots ==
    {{}} \cup
    UNION {{{Snapshot(es, o)} : o \in live_reserves(es)} :
              es \in {entries} \cup {past[i] : i \in DOMAIN past}}
Parts ==
    [height : {Len(undos) + 1}, previous : Snapshots, deposit : Amount,
     withdrawal : Amount, fee : Amount, balance : Amount]

ReserveInit == entries \in Natives /\ undos = << >> /\ past = << >> /\ flows = << >>

Apply ==
    /\ Len(undos) < MAX_STEPS
    /\ \E parts \in Parts :
          LET t == NewTransition(parts)
              r == apply_reserve_transition_v1(entries, t)
          IN  /\ t.error = "none" /\ r.error = "none"
              /\ entries' = r.es
              /\ undos' = Append(undos, r.undo)
              /\ past' = Append(past, entries)
              /\ flows' = Append(flows, <<parts.deposit, parts.withdrawal, parts.fee>>)

Undo ==
    /\ undos # << >>
    /\ LET r == undo_reserve_transition_v1(entries, undos[Len(undos)])
       IN  /\ r.error = "none"
           /\ entries' = r.es
           /\ undos' = SubSeq(undos, 1, Len(undos) - 1)
           /\ past' = SubSeq(past, 1, Len(past) - 1)
           /\ flows' = SubSeq(flows, 1, Len(flows) - 1)

ReserveNext == Apply \/ Undo

ReserveSpec == ReserveInit /\ [][ReserveNext]_reserve_vars

-----------------------------------------------------------------------------
(* Correctness. *)

\* The money of the pool: the balances of the live reserve outputs.
PoolOf(es) == SumFunctionOnSet([o \in DOMAIN es |-> es[o].amount], live_reserves(es))

Abstract == INSTANCE ReservePool WITH
    amounts <- [i \in 1 .. Len(past) + 1 |->
                   PoolOf(IF i <= Len(past) THEN past[i] ELSE entries)]

\* The live reserve outputs behave as one amount of money, which transitions
\* change by what they state and an undo sets back (apply_reserve_transition_v1,
\* undo_reserve_transition_v1; the specification ReservePool).
ImplementsPool == Abstract!Spec

=============================================================================

------------------------------- MODULE Records -------------------------------
(***************************************************************************)
(* The encodings whose bytes are hashed into ids, sent to peers or stored: *)
(* transactions and blocks (oregon-primitives), the lists of the wire      *)
(* protocol (oregon-protocol), the UTXO and undo records of the store      *)
(* (oregon-storage).  Writers and readers are separate, as in the code,    *)
(* and built from the lengths and the Decoder of encoding.rs.              *)
(*                                                                         *)
(* A byte has Base values and a length takes 1, 2 or 3 bytes after its     *)
(* marker, instead of 256 values and 2, 4 or 8.  A field of fixed width is *)
(* one byte, and neighbouring fields that nobody checks are one field.     *)
(* The input arrives byte by byte for as long as its reader asks for more, *)
(* and once beyond.  A value is the sequence of its fields.                *)
(***************************************************************************)
EXTENDS Integers, SequencesExt

CONSTANTS Base,        \* values of a byte
          Kind,        \* the encodings under study
          Limits,      \* the limits of each kind
          Content,     \* bytes offered as content nobody interprets
          MaxAmount    \* MAX_SUPPLY_BASE_UNITS

ASSUME ContentAssumption ==
  /\ Base \in Nat /\ Base > 3
  /\ {0, 1} \subseteq Content /\ Content \subseteq 0..(Base - 1)
  /\ MaxAmount \in 0..(Base - 1)

VARIABLES kind, bytes

record_vars == <<kind, bytes>>

Version == 1

-----------------------------------------------------------------------------
(* Lengths.  FirstOf(w) is the smallest value that needs w bytes.           *)
Digits(n, w) == [i \in 1..w |-> (n \div Base^(i - 1)) % Base]

Number(digits) == FoldLeft(LAMBDA sum, i : sum + digits[i] * Base^(i - 1), 0,
                           [i \in DOMAIN digits |-> i])

FirstOf(w) == IF w = 1 THEN Base - 3 ELSE Base^(w - 1)

write_varint(n) ==
  IF n < FirstOf(1) THEN <<n>>
  ELSE LET w == CHOOSE w \in 1..3 : n >= FirstOf(w) /\ (w = 3 \/ n < FirstOf(w + 1))
       IN <<Base - 4 + w>> \o Digits(n, w)

write_list(items, Write(_)) ==
  write_varint(Len(items)) \o FlattenSeq([i \in DOMAIN items |-> Write(items[i])])

write_bytes(content) == write_varint(Len(content)) \o content

-----------------------------------------------------------------------------
(* The Decoder: input, offset, the fields read so far, the first error, and *)
(* whether the byte missing at the end is content or has a meaning.         *)
Decoder(input) == [input |-> input, offset |-> 0, out |-> <<>>, err |-> "none", want |-> "none"]

Ok(d) == d.err = "none"
Fail(d, error) == [d EXCEPT !.err = error]
WithField(d, n, field) == [d EXCEPT !.out = Append(SubSeq(@, 1, Len(@) - n), field)]

(* The ? operator: the next step is taken only without an error.            *)
Then(d, Next(_)) == IF Ok(d) THEN Next(d) ELSE d

Field(d) == Last(d.out)

read_bytes(d, n, want) ==
  IF ~Ok(d) THEN d
  ELSE IF d.offset + n > Len(d.input)
  THEN [d EXCEPT !.err = "UnexpectedEof", !.want = want]
  ELSE [d EXCEPT !.offset = @ + n, !.out = Append(@, SubSeq(d.input, d.offset + 1, d.offset + n))]

(* A field of fixed width, and one with a check on its value.               *)
read_fixed(d, want) ==
  LET byte(e) == WithField(e, 1, Field(e)[1]) IN Then(read_bytes(d, 1, want), byte)

Opaque(d) == read_fixed(d, "content")

Checked(d, legal, error) ==
  LET test(e) == IF Field(e) \in legal THEN e ELSE Fail(e, error)
  IN Then(read_fixed(d, "meaning"), test)

(* Mutant: a value may be written longer than necessary.                    *)
AnyVarint(d) ==
  LET value(e) == WithField(e, 2, Number(Field(e)))
      digits(m) == IF Field(m) < Base - 3 THEN m
                   ELSE Then(read_bytes(m, Field(m) - (Base - 4), "meaning"), value)
  IN Then(read_fixed(d, "meaning"), digits)

(* read_varint refuses a form longer than the value needs.                  *)
read_varint(d) ==
  LET value(e) == IF Number(Field(e)) < FirstOf(Len(Field(e)))
                  THEN Fail(e, "NonCanonicalVarInt")
                  ELSE WithField(e, 2, Number(Field(e)))
      digits(m) == IF Field(m) < Base - 3 THEN m
                   ELSE Then(read_bytes(m, Field(m) - (Base - 4), "meaning"), value)
  IN Then(read_fixed(d, "meaning"), digits)

read_len(d, max) ==
  LET test(e) == IF Field(e) > max THEN Fail(e, "LengthLimitExceeded") ELSE e
  IN Then(read_varint(d), test)

read_vec(d, max) ==
  LET unlength(e) == WithField(e, 2, Field(e))
      content(l) == Then(read_bytes(l, Field(l), "content"), unlength)
  IN Then(read_len(d, max), content)

(* Read applied with no fields yet; what it read becomes one field.         *)
Nested(d, Read(_)) ==
  LET under(e) == [e EXCEPT !.out = Append(d.out, @)]
      inside(e) == under(Read([e EXCEPT !.out = <<>>]))
  IN Then(d, inside)

read_list(d, max, Read(_)) ==
  LET under(e) == [e EXCEPT !.out = Append(d.out, @)]
      items(l) == under(FoldLeft(LAMBDA x, i : Nested(x, Read), [l EXCEPT !.out = <<>>],
                                 [i \in 1..Field(l) |-> i]))
  IN Then(read_len(d, max), items)

finish(d) == IF Ok(d) /\ d.offset < Len(d.input) THEN Fail(d, "TrailingBytes") ELSE d

-----------------------------------------------------------------------------
(* Transaction: version, inputs (outpoint and sequence; witness), outputs   *)
(* (value; locking program), lock time.                                     *)
encode_input(i) == <<i[1]>> \o write_list(i[2], write_bytes)
encode_output(o) == <<o[1]>> \o write_bytes(o[2])
encode_transaction(t) ==
  <<t[1]>> \o write_list(t[2], encode_input) \o write_list(t[3], encode_output) \o <<t[4]>>

decode_transaction(d, lim) ==
  LET only(e) == [e EXCEPT !.out = Last(@)]
      item(e) == Then(read_vec(e, lim.item), only)
      input(e) == read_list(Opaque(e), lim.witness, item)
      output(e) == read_vec(Checked(e, 0..MaxAmount, "AmountAboveMaximum"), lim.program)
  IN Opaque(read_list(read_list(Checked(d, {Version}, "InvalidVersion"),
                                lim.inputs, input), lim.outputs, output))

(* Block: header, transactions.                                             *)
encode_block(b) == <<b[1]>> \o write_list(b[2], encode_transaction)

decode_block(d, lim) ==
  LET transaction(e) == decode_transaction(e, lim)
      some(b) == IF b.out[2] = <<>> THEN Fail(b, "EmptyBlockTransactions") ELSE b
  IN Then(read_list(Opaque(d), lim.transactions, transaction), some)

-----------------------------------------------------------------------------
(* Messages: Inv and GetData, GetHeaders, Headers.                          *)
encode_inventory(m) == LET item(x) == x IN write_list(m[1], item)

decode_inventory(d, lim) ==
  LET item(e) == Opaque(Checked(e, {1, 2}, "UnknownInventoryKind"))
  IN read_list(d, lim.items, item)

encode_get_headers(m) ==
  LET hash(x) == x
  IN write_list(m[1], hash) \o (IF m[2] = <<>> THEN <<0>> ELSE <<1>> \o m[2])

decode_get_headers(d, lim) ==
  LET unflag(e) == WithField(e, 2, Field(e))
      stop(flag) == IF Field(flag) = 0 THEN WithField(flag, 1, <<>>)
                    ELSE Then(Nested(flag, Opaque), unflag)
  IN Then(Checked(read_list(d, lim.items, Opaque), {0, 1}, "InvalidStopFlag"), stop)

encode_headers(m) == LET header(x) == x IN write_list(m[1], header)

decode_headers(d, lim) == read_list(d, lim.items, Opaque)

-----------------------------------------------------------------------------
(* Stored records: a UTXO entry (version, value, height, coinbase flag,     *)
(* locking program), and a block's undo (version, spent, created).          *)
encode_utxo_entry(u) == <<u[1], u[2], u[3], u[4]>> \o write_bytes(u[5])

decode_utxo_entry(d, lim) ==
  LET value(e) == Checked(Checked(e, {Version}, "CorruptData"), 0..MaxAmount, "CorruptData")
      flag(e) == Checked(Opaque(e), {0, 1}, "CorruptData")
  IN read_vec(flag(value(d)), lim.program)

StrictlySorted(points) == \A i \in 1..(Len(points) - 1) : points[i][1] < points[i + 1][1]

Outpoints(spent) == [i \in DOMAIN spent |-> <<spent[i][1]>>]

(* encode_block_undo and decode_block_undo refuse the same lists; the       *)
(* reader's checks point by point are made at its end.                      *)
UndoOk(spent, created) ==
  /\ StrictlySorted(Outpoints(spent)) /\ StrictlySorted(created)
  /\ ToSet(Outpoints(spent)) \cap ToSet(created) = {}

encode_block_undo(u) ==
  LET spent(s) == <<s[1]>> \o write_bytes(encode_utxo_entry(s[2]))
      created(o) == o
  IN <<u[1]>> \o write_list(u[2], spent) \o write_list(u[3], created)

(* An entry is cut out by its length and read to its own end.               *)
decode_block_undo(d, lim) ==
  LET whole(cut, entry) ==
        IF Ok(entry) THEN WithField(cut, 1, entry.out) ELSE Fail(cut, "CorruptData")
      parse(cut) == whole(cut, finish(decode_utxo_entry(Decoder(Field(cut)), lim)))
      record(e) == Then(read_vec(Opaque(e), lim.record), parse)
      valid(u) == IF UndoOk(u.out[2], u.out[3]) THEN u ELSE Fail(u, "CorruptData")
  IN Then(read_list(read_list(Checked(d, {Version}, "CorruptData"), lim.items, record),
                    lim.items, Opaque), valid)

-----------------------------------------------------------------------------
(* The values each kind is written from: what the types and limits allow.   *)
Strings(max) == BoundedSeq(Content, max)

Transactions(lim) ==
  {Version}
    \X BoundedSeq(Content \X BoundedSeq(Strings(lim.item), lim.witness), lim.inputs)
    \X BoundedSeq((0..MaxAmount) \X Strings(lim.program), lim.outputs)
    \X Content

Hashes(max) == BoundedSeq({<<c>> : c \in Content}, max)

Entries(lim) ==
  {Version} \X (0..MaxAmount) \X Content \X {0, 1} \X Strings(lim.program)

Values(k) ==
  LET lim == Limits[k]
  IN CASE k = "transaction" -> Transactions(lim)
       [] k = "block" ->
            Content \X (BoundedSeq(Transactions(lim), lim.transactions) \ {<<>>})
       [] k = "inventory" -> {<<s>> : s \in BoundedSeq({1, 2} \X Content, lim.items)}
       [] k = "get_headers" -> Hashes(lim.items) \X Strings(1)
       [] k = "headers" -> {<<s>> : s \in Hashes(lim.items)}
       [] k = "utxo" -> Entries(lim)
       [] k = "undo" ->
            {u \in {Version} \X BoundedSeq(Content \X Entries(lim), lim.items)
                   \X Hashes(lim.items) : UndoOk(u[2], u[3])}

Encode(k, v) ==
  CASE k = "transaction" -> encode_transaction(v)
    [] k = "block" -> encode_block(v)
    [] k = "inventory" -> encode_inventory(v)
    [] k = "get_headers" -> encode_get_headers(v)
    [] k = "headers" -> encode_headers(v)
    [] k = "utxo" -> encode_utxo_entry(v)
    [] k = "undo" -> encode_block_undo(v)

Decode(k, input) ==
  LET d == Decoder(input)
      lim == Limits[k]
  IN finish(CASE k = "transaction" -> decode_transaction(d, lim)
              [] k = "block" -> decode_block(d, lim)
              [] k = "inventory" -> decode_inventory(d, lim)
              [] k = "get_headers" -> decode_get_headers(d, lim)
              [] k = "headers" -> decode_headers(d, lim)
              [] k = "utxo" -> decode_utxo_entry(d, lim)
              [] k = "undo" -> decode_block_undo(d, lim))

-----------------------------------------------------------------------------
RecordInit == kind \in Kind /\ bytes = <<>>

Offer(d) ==
  /\ d.err \in {"UnexpectedEof", "none"}
  /\ \E b \in IF d.want = "meaning" THEN 0..(Base - 1) ELSE Content :
       bytes' = Append(bytes, b)

Feed == Offer(Decode(kind, bytes)) /\ UNCHANGED kind

RecordSpec == RecordInit /\ [][Feed]_record_vars

-----------------------------------------------------------------------------
Writings == [k \in Kind |-> {<<Encode(k, v), v>> : v \in Values(k)}]
Beginnings == [k \in Kind |-> UNION {{SubSeq(w[1], 1, n) : n \in 0..Len(w[1])} : w \in Writings[k]}]

AgreesWithWriter(d) ==
  /\ Ok(d) => <<bytes, d.out>> \in Writings[kind]
  /\ d.err \notin {"UnexpectedEof", "none"} => bytes \notin Beginnings[kind]
  /\ \A w \in Writings[kind] : w[1] = bytes => Ok(d) /\ d.out = w[2]

(* There is one encoding: bytes that are accepted are those the writer      *)
(* makes of the value read, so the hash of a value is the hash of the bytes *)
(* it came in (txid and block_id encode again what was decoded).  And what  *)
(* is written is read back as the value it was: no beginning of an encoding *)
(* is refused, and none is the beginning of another, which a block relies   *)
(* on for its transactions and a restart for its records.                   *)
UniqueEncoding == AgreesWithWriter(Decode(kind, bytes))
=============================================================================

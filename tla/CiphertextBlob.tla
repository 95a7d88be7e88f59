--------------------------- MODULE CiphertextBlob ---------------------------
(***************************************************************************)
(* The ciphertext blob and its parser, _parse_ciphertext_unowned of        *)
(* mongocrypt-ctx-decrypt.c.  A blob is a sequence of bytes laid out as    *)
(*                                                                         *)
(*     fle_blob_subtype (1) key_uuid (16) original_bson_type (1) data (>0) *)
(*                                                                         *)
(* The parser hands out views into the buffer: which bytes each field      *)
(* covers is all there is to it, so a buffer here carries at every         *)
(* position but the first a byte that tells the position, and every first  *)
(* byte of interest is tried with every length.                            *)
(***************************************************************************)
EXTENDS Integers, Sequences

CONSTANTS MaxLen,       \* longest buffer handed to the parser
          FirstBytes    \* values of the first byte that are tried

VARIABLES in,           \* the buffer: _mongocrypt_buffer_t *in
          ciphertext    \* the parser's result, Unparsed before the call

Unparsed == [ok |-> FALSE, status |-> "unparsed"]

\* The buffers tried: a first byte, then position-telling bytes.
Buffer(len, first) == [i \in 1..len |-> IF i = 1 THEN first ELSE i % 256]
Buffers == {Buffer(len, b) : len \in 0..MaxLen, b \in FirstBytes}

Rejected(why) == [ok |-> FALSE, status |-> why]

\* The view of n bytes that starts offset bytes into the buffer.
View(buf, offset, n) == SubSeq(buf, offset + 1, offset + n)

\* The parser with its two literals named: the smallest length accepted and
\* the offset the data starts at.  The length is tested first, then the
\* subtype; the fields are views at the running offset.
ParseWith(buf, smallest, dataAt) ==
    IF Len(buf) < smallest THEN Rejected("too small")
    ELSE IF buf[1] \notin {1, 2} THEN Rejected("blob subtype")
    ELSE [ok |-> TRUE, status |-> "ok", blob_subtype |-> buf[1],
          key_id |-> View(buf, 1, 16), original_bson_type |-> buf[18],
          data |-> View(buf, dataAt, Len(buf) - dataAt)]

\* Fault: a buffer without any data byte is let through.
ParseAcceptsEmptyData(buf) == ParseWith(buf, 18, 18)

\* Fault: the offset is not advanced past the original type.
ParseDataFromType(buf) == ParseWith(buf, 19, 17)

\* _parse_ciphertext_unowned: at least 19 bytes, data from offset 1 + 16 + 1.
ParseCiphertextUnowned(buf) == ParseWith(buf, 19, 1 + 16 + 1)

-----------------------------------------------------------------------------
vars == <<in, ciphertext>>

Init == in \in Buffers /\ ciphertext = Unparsed

Parse ==
    /\ ciphertext = Unparsed
    /\ ciphertext' = ParseCiphertextUnowned(in)
    /\ UNCHANGED in

Next == Parse

Spec == Init /\ [][Next]_vars

-----------------------------------------------------------------------------
(* The wire format as the specification gives it, written the other way    *)
(* round: how a blob is put together from its fields.                      *)

Serialize(c) ==
    <<c.blob_subtype>> \o c.key_id \o <<c.original_bson_type>> \o c.data

\* A buffer is a blob when it is a subtype of 1 or 2, 16 bytes of key, a
\* type byte and n > 0 bytes of data.
WireFormat(buf) ==
    \E n \in 1..MaxLen : Len(buf) = 1 + 16 + 1 + n /\ buf[1] \in {1, 2}

\* _parse_ciphertext_unowned accepts a buffer exactly when it is a blob of
\* the wire format: subtype 1 or 2, a key of 16 bytes, a type byte and at
\* least one byte of data.  The literal 19 of the length test is what the
\* three offsets add up to, plus one.
AcceptsExactlyWireFormat ==
    ciphertext # Unparsed => (ciphertext.ok <=> WireFormat(in))

\* The views _parse_ciphertext_unowned hands out tile the buffer: put
\* together in the order of the wire format they are the buffer again, no
\* byte read twice and none skipped, the key 16 bytes long.
FieldsTileTheBuffer ==
    ciphertext.ok => /\ Serialize(ciphertext) = in
                     /\ Len(ciphertext.key_id) = 16
                     /\ ciphertext.blob_subtype \in {1, 2}

=============================================================================

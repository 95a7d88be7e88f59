---------------------------- MODULE MCDecryptCtx ----------------------------
(* DecryptCtx for TLC: what callers hand to the decryption inits, beside   *)
(* encryption contexts that use the same key.                              *)
EXTENDS DecryptCtx, MCEncryptCtx

\* Documents: none, unreadable, without ciphertexts, with two keys (one of
\* them twice, in an array and in a document of that array), with a blob
\* that does not parse after one that does, and with a payload the crypto
\* collaborator refuses.  The key vault of MCOneKeyVault has k1 and not k2.
Doc(doc) == [data |-> TRUE, bson |-> TRUE, doc |-> doc]

MCDecryptDocs ==
    { [Doc(<< >>) EXCEPT !.data = FALSE],
      [Doc(<< >>) EXCEPT !.bson = FALSE],
      Doc(<<Plain(v1)>>),
      Doc(<<Ciphertext(k1, v1), Array(<<Plain(v1), Document(<<Ciphertext(k2, v1)>>),
                                        Ciphertext(k1, v1)>>)>>),
      Doc(<<Document(<<Ciphertext(k1, v1)>>), Malformed>>),
      Doc(<<Ciphertext(k2, v1), Array(<<Corrupt(k1)>>)>>) }

\* Messages: none, unreadable, without "v", a "v" that is no binary, and
\* ciphertexts that parse (under either key), do not parse, do not decrypt.
Msg(v) == [data |-> TRUE, bson |-> TRUE, v |-> v]

MCDecryptMessages ==
    { [Msg(Nil) EXCEPT !.data = FALSE],
      [Msg(Nil) EXCEPT !.bson = FALSE],
      Msg(Nil), Msg(Plain(v1)),
      Msg(Ciphertext(k1, v1)), Msg(Ciphertext(k2, v1)), Msg(Malformed),
      Msg(Corrupt(k1)) }

MCOneKeyVault == {k1}

\* The encryption contexts beside them: explicit under either key, and
\* automatic with a marked command that names the key the vault does not
\* have and, by its alternate name, the one it has.
MCEitherKeyOpts == MCContendedOpts \cup {[NoOpts EXCEPT !.key_id = k2, !.algorithm = TRUE]}

MCMissingKeyReply == { Marked("document", <<Marking(k2, v1), Array(<<Marking(n1, v1)>>)>>) }

MCDecryptOpts == { NoOpts, [NoOpts EXCEPT !.key_id = k1] }

\* The encryption contexts beside them encrypt explicitly under k1.
MCExplicitOpts == { [NoOpts EXCEPT !.key_id = k1, !.algorithm = TRUE] }

\* Two decryption contexts that need the same key.
MCSameKeyDocs == { Doc(<<Ciphertext(k1, v1)>>) }

=============================================================================

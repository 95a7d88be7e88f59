----------------------------- MODULE DecryptCtx -----------------------------
(***************************************************************************)
(* The decryption contexts of mongocrypt-ctx-decrypt.c, beside the         *)
(* encryption contexts of EncryptCtx in one engine: automatic decryption   *)
(* of a document and explicit decryption of one wrapped value.  A          *)
(* decryption context collects the keys of its ciphertexts at init, goes   *)
(* through the same key states as an encryption context, on the same key   *)
(* cache, and replaces ciphertexts by plaintexts in finalize.  The calls   *)
(* that differ by kind (wait_done, next_dependent_ctx_id, finalize,        *)
(* cleanup) go through the function table the init installed.              *)
(***************************************************************************)
EXTENDS EncryptCtx

CONSTANTS DecryptDocs,      \* what a caller may pass to automatic decryption
          DecryptMessages,  \* what a caller may pass to explicit decryption
          DecryptOpts       \* option sets a caller may have set before init

-----------------------------------------------------------------------------
(* Blobs.  A binary value of subtype 6 that starts like a ciphertext is a  *)
(* ciphertext the parser accepts (CiphertextBlob), one it refuses, or one  *)
(* whose payload the crypto collaborator refuses.                          *)

Malformed  == Ciphertext(Nil, Nil)
Corrupt(k) == Ciphertext(k, Nil)

Blobs == {Ciphertext(k, v) : k \in KeyIds, v \in Values \cup {Nil}} \cup {Malformed}

\* _parse_ciphertext_unowned accepts the blob.
Parses(x) == x.key_uuid # Nil

\* The leaves of the documents handed to decryption.
DecryptValues == Blobs \cup {Plain(v) : v \in Values}

DecryptMessage == [data : BOOLEAN, bson : BOOLEAN, v : DecryptValues \cup {Nil}]

\* The buffer is turned into a document without a look at the result.  Of
\* a buffer that is no document the traversal finds nothing, or something
\* that is no ciphertext blob.
Read(d)    == IF d.bson THEN {d.doc} ELSE {<< >>, <<Malformed>>}
Wrapped(m) == IF m.bson THEN {m.v} ELSE {Nil, Malformed}

\* struct _mongocrypt_ctx_decrypt_t, with the parent's fields.
NewDecryptCtx(noblock) ==
    [state |-> "ERROR", status |-> "ok", type |-> "NONE", explicit |-> FALSE,
     cache_noblock |-> noblock, kb |-> EmptyBroker, original_doc |-> Nil,
     unwrapped_doc |-> Nil, decrypted_doc |-> Nil, replies |-> 0]

NoOptsAllowed == OptsSpec("prohibited", "prohibited", "prohibited", "prohibited")

\* The call goes through the function table of a decryption context.
Decrypts(c) == c \in Live /\ ctx[c].type = "DECRYPT"

-----------------------------------------------------------------------------
(* Init: the keys of the ciphertexts go to the broker.                     *)

\* Fault: the key is taken without asking the key cache who fetches it.
CollectCiphertextWithoutCache(b, x, id) ==
    IF b.status = "ok" /\ x.t = "ciphertext" /\ Parses(x) /\ b.kb[x.key_uuid] = NoEntry
    THEN [b EXCEPT !.kb[x.key_uuid] = Entry("added", id)] ELSE b

\* Fault: only the first key of a document is collected.
CollectFirstKeyOnly(b, x, id) ==
    IF b.status = "ok" /\ x.t = "ciphertext" /\ Parses(x) /\ b.kb = EmptyBroker
    THEN BrokerAdd(b, x.key_uuid, id) ELSE b

\* _collect_key_from_ciphertext, as the traversal calls it on each value:
\* the traversal skips what is no ciphertext and stops at the first failure.
CollectKeyFromCiphertext(b, x, id) ==
    CASE b.status # "ok" \/ x.t # "ciphertext" -> b
      [] b.status = "ok" /\ x.t = "ciphertext" /\ ~Parses(x) ->
           [b EXCEPT !.status = "malformed-input"]
      [] OTHER -> BrokerAdd(b, x.key_uuid, id)

\* Fault: a failed collection forgets the keys it had added.
CollectedForgetsKeys(r, b, id) ==
    IF b.status # "ok" THEN Fail(r, b.status)
    ELSE StateFromKeyBroker([r EXCEPT !.kb = b.kb], id)

\* The end of both inits: a failed collection fails the context, with the
\* keys added before the failure still in its broker; otherwise the state
\* follows the broker.
Collected(r, b, id) ==
    IF b.status # "ok" THEN Fail([r EXCEPT !.kb = b.kb], b.status)
    ELSE StateFromKeyBroker([r EXCEPT !.kb = b.kb], id)

\* mongocrypt_ctx_decrypt_init, with the creation of the context.
DecryptInit(doc, o, noblock) ==
    LET c  == nextId
        r0 == NewDecryptCtx(noblock)
        r  == [r0 EXCEPT !.type = "DECRYPT", !.original_doc = doc,
                         !.state = "NOTHING_TO_DO"]
    IN  /\ c \in Ctxs
        /\ nextId' = c + 1
        /\ \/ /\ ~(CtxInitOk(o, NoOptsAllowed) /\ doc.data)
              /\ Put(c, Fail(r0, "client-misuse"))
              /\ UNCHANGED <<cache_collinfo, cache_keys, sleep>>
           \/ /\ CtxInitOk(o, NoOptsAllowed) /\ doc.data
              /\ \E seen \in Read(doc) :
                    LET b == FoldLeft(LAMBDA acc, x :
                                        CollectKeyFromCiphertext(acc, x, c),
                                      BrokerOf(r), Leaves(seen))
                    IN  /\ Put(c, Collected(r, b, c))
                        /\ SetCaches(cache_collinfo, b.cache, sleep)

\* mongocrypt_ctx_explicit_decrypt_init, with the creation of the context.
ExplicitDecryptInit(msg, o, noblock) ==
    LET c  == nextId
        r0 == NewDecryptCtx(noblock)
        r  == [r0 EXCEPT !.explicit = TRUE, !.type = "DECRYPT",
                         !.original_doc = msg]
    IN  /\ c \in Ctxs
        /\ nextId' = c + 1
        /\ \/ /\ ~(CtxInitOk(o, NoOptsAllowed) /\ msg.data)
              /\ Put(c, Fail(r0, "client-misuse"))
              /\ UNCHANGED <<cache_collinfo, cache_keys, sleep>>
           \/ /\ CtxInitOk(o, NoOptsAllowed) /\ msg.data
              /\ \E v \in Wrapped(msg) :
                    LET unwrapped == [r EXCEPT !.unwrapped_doc = v]
                        b == CollectKeyFromCiphertext(BrokerOf(r), v, c)
                    IN  IF v = Nil \/ v.t # "ciphertext"
                        THEN /\ Put(c, Fail(r, "malformed-input"))
                             /\ UNCHANGED <<cache_collinfo, cache_keys, sleep>>
                        ELSE /\ Put(c, Collected(unwrapped, b, c))
                             /\ SetCaches(cache_collinfo, b.cache, sleep)

-----------------------------------------------------------------------------
(* WAITING.                                                                *)

\* _wait_done: the broker looks at the key cache, and a blocking caller
\* sleeps while the broker still depends on others.  The context's state
\* is left as it is, unless check_cache_and_wait fails ("waits" is whether
\* it succeeds).
DecryptWaitDone(c, waits) ==
    LET r == ctx[c]
        b == CheckCache(BrokerOf(r), c)
    IN  /\ Decrypts(c) /\ r.state = "WAITING"
        /\ sleep[c] \in {"awake", "woken"}
        /\ UNCHANGED nextId
        /\ \/ ~waits /\ WaitFailed(c)
           \/ /\ waits
              /\ Put(c, [r EXCEPT !.kb = b.kb])
              /\ SetCaches(cache_collinfo, b.cache,
                           IF Awaited(b.kb, c) # {} /\ ~r.cache_noblock
                           THEN [sleep EXCEPT ![c] = "keys"] ELSE Awake(c))

\* _next_dependent_ctx_id: the broker is asked, which changes nothing.
DecryptNextDependentCtxId(c) == NextCtxId(ctx[c].kb, c)

-----------------------------------------------------------------------------
(* READY: finalize replaces ciphertexts by plaintexts.                     *)

\* Fault: what the crypto collaborator refused is handed out as plaintext.
ReplaceIgnoresDecryptionFailure(kb, x) ==
    CASE ~Parses(x) -> [status |-> "malformed-input", out |-> Nil]
      [] Parses(x) /\ ~DecryptedKey(kb, x.key_uuid) ->
           [status |-> "ok", out |-> Nil]
      [] OTHER -> [status |-> "ok", out |-> Plain(x.v)]

\* _replace_ciphertext_with_plaintext.  A key the broker does not have is
\* no failure: the callback returns without writing a value.
ReplaceCiphertextWithPlaintext(kb, x) ==
    CASE ~Parses(x) -> [status |-> "malformed-input", out |-> Nil]
      [] Parses(x) /\ ~DecryptedKey(kb, x.key_uuid) ->
           [status |-> "ok", out |-> Nil]
      [] Parses(x) /\ DecryptedKey(kb, x.key_uuid) /\ x.v = Nil ->
           [status |-> "collaborator-error", out |-> Nil]
      [] OTHER -> [status |-> "ok", out |-> Plain(x.v)]

\* The transforming traversal: what is no ciphertext passes through, a
\* ciphertext is replaced by what the callback wrote, or left in place.
Transformed(kb, x) ==
    LET res == ReplaceCiphertextWithPlaintext(kb, x)
    IN  IF x.t = "ciphertext" /\ res.out # Nil THEN res.out ELSE x

\* _finalize of an automatic context: the first ciphertext the callback
\* fails on, in the order of the walk, fails the context.
DecryptFinalizeAuto(r) ==
    {LET failed == SelectSeq(Leaves(doc), LAMBDA x :
                      /\ x.t = "ciphertext"
                      /\ ReplaceCiphertextWithPlaintext(r.kb, x).status # "ok")
     IN  IF failed # << >>
         THEN Fail(r, ReplaceCiphertextWithPlaintext(r.kb, failed[1]).status)
         ELSE [r EXCEPT !.state = "DONE",
                        !.decrypted_doc = Transform(doc,
                            [x \in DecryptValues |-> Transformed(r.kb, x)])]
       : doc \in Read(r.original_doc)}

\* _finalize of an explicit context: the value appended is the one the
\* callback wrote, and whatever the unwritten value reads as when the key
\* is not there.
DecryptFinalizeExplicit(r) ==
    LET res == ReplaceCiphertextWithPlaintext(r.kb, r.unwrapped_doc)
    IN  IF res.status # "ok" THEN {Fail(r, res.status)}
        ELSE {[r EXCEPT !.decrypted_doc = d, !.state = "DONE"] :
                d \in IF res.out = Nil THEN Indeterminate ELSE {<<res.out>>}}

DecryptFinalize(c) ==
    /\ Decrypts(c) /\ Called(c, "READY")
    /\ \E r \in (IF ctx[c].explicit THEN DecryptFinalizeExplicit(ctx[c])
                                     ELSE DecryptFinalizeAuto(ctx[c])) : Update(c, r)

-----------------------------------------------------------------------------
(* The engine: contexts of both kinds.  The key states and the destruction *)
(* of a context are those of EncryptCtx.                                   *)

DecryptCreate ==
    \E o \in DecryptOpts, noblock \in NoBlockModes :
        \/ \E doc \in DecryptDocs : DecryptInit(doc, o, noblock)
        \/ \E msg \in DecryptMessages : ExplicitDecryptInit(msg, o, noblock)

DecryptStep(c, waits) == DecryptWaitDone(c, waits) \/ DecryptFinalize(c)

EngineNext ==
    Next \/ DecryptCreate \/ \E c \in Ctxs, waits \in BOOLEAN : DecryptStep(c, waits)

EngineSpec == Init /\ [][EngineNext]_vars

\* The callers of decryption contexts are the callers of EncryptCtx.
EngineFairSpec ==
    /\ EngineSpec
    /\ \A c \in Ctxs : /\ WF_vars(Step(c, TRUE) \/ DecryptStep(c, TRUE))
                       /\ WF_vars(Finished(c) /\ Destroy(c))

-----------------------------------------------------------------------------
\* The records of decryption contexts whose decrypted document is d.
DecryptRecords(d) ==
    [state : CtxStates, status : ErrorKinds \cup {"ok"},
     type : {"NONE", "DECRYPT"}, explicit : BOOLEAN, cache_noblock : BOOLEAN,
     kb : Brokers, original_doc : DecryptDocs \cup DecryptMessage \cup {Nil},
     unwrapped_doc : Blobs \cup {Nil},
     decrypted_doc : {x \in {d} : x = Nil \/ x \in Indeterminate
                                         \/ ValuesIn(x) \subseteq DecryptValues},
     replies : {0}]

EngineTypeOK ==
    /\ Live \subseteq 1..(nextId - 1) /\ nextId \in 1..(MaxCtx + 1)
    /\ \A c \in Live : \/ Decrypts(c) /\ ctx[c] \in DecryptRecords(ctx[c].decrypted_doc)
                       \/ ~Decrypts(c) /\ ctx[c] \in
                             CtxRecords \cup DecryptRecords(Nil)
    /\ \A c \in Live : ctx[c].type = "NONE" => ctx[c].state = "ERROR"
    /\ \A ns \in Namespaces :
          cache_collinfo[ns] \in Pairs(CollinfoReply, Ctxs)
    /\ \A k \in KeyRefs : cache_keys[k] \in Pairs(KeyIds, Ctxs)
    /\ sleep \in [Ctxs -> {"awake", "collinfo", "keys", "woken"}]

-----------------------------------------------------------------------------
(* Properties.                                                             *)

\* A document with the ciphertexts under the given keys replaced by their
\* plaintexts, and everything else where it was.
RECURSIVE DecryptedUnder(_, _)
DecryptedUnder(keys, doc) ==
    [i \in DOMAIN doc |->
        CASE Holds(doc[i]) -> [doc[i] EXCEPT !.kids = DecryptedUnder(keys, @)]
          [] doc[i].t = "ciphertext" /\ doc[i].key_uuid \in keys -> Plain(doc[i].v)
          [] OTHER -> doc[i]]

\* "With a missing key, exactly the ciphertext values requiring that key
\* remain in place": in the document an automatic decryption context hands
\* out, the ciphertexts left are those whose key the vault does not have.
\* The missing-key branch of _replace_ciphertext_with_plaintext is taken
\* for no other: the keys mongocrypt_ctx_decrypt_init collected, in
\* embedded documents and arrays too, are all the keys _finalize looks up,
\* and a key of the vault is decrypted in the broker by the time the
\* context is READY, whether this context fetched it, copied it from the
\* key cache or took the fetch over from a context that was destroyed.
OnlyMissingKeysStayEncrypted ==
    \A c \in Live :
        (Decrypts(c) /\ ~ctx[c].explicit /\ ctx[c].state = "DONE"
           /\ ctx[c].original_doc.bson) =>
            ctx[c].decrypted_doc = DecryptedUnder(VaultKeys, ctx[c].original_doc.doc)

-----------------------------------------------------------------------------
(* What the specification says and the code does not do.                    *)

\* "For WAITING, the caller either blocks (wait_done) or repeatedly queries
\* next_dependent_ctx_id to run the owning context first": an encryption
\* context whose caller drives it comes to an end, also when the contexts
\* it shares the key cache with decrypt.  _wait_done of a decryption
\* context lets the broker look at the key cache, which takes over the
\* fetch an owner gave up, and returns without setting the state from the
\* broker: the context stays in WAITING as the owner of a key no call
\* fetches, and every context that needs the key waits with it.
EncryptionFinishesBesideDecryption ==
    \A c \in Ctxs : []<>((c \in Live /\ Encrypts(c)) => Finished(c))

=============================================================================

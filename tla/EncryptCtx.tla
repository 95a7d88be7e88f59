----------------------------- MODULE EncryptCtx -----------------------------
(***************************************************************************)
(* The encryption contexts of mongocrypt-ctx-encrypt.c: automatic          *)
(* encryption of a command (schema discovery through the shared collinfo   *)
(* cache, marking, key collection, replacement of markings by ciphertexts) *)
(* and explicit encryption of one wrapped value.  Any number of contexts   *)
(* up to MaxCtx run concurrently, each driven by its own caller thread;    *)
(* they meet in the engine's two caches.  One action is one call of the    *)
(* context API; a call that sleeps on a cache's condition is two steps.    *)
(***************************************************************************)
EXTENDS KeyBroker, Traverse

CONSTANTS MaxCtx,           \* contexts the engine creates (ids 1..MaxCtx)
          MaxReplies,       \* reply documents a caller feeds per state
          Namespaces,       \* <<db, coll>> pairs that auto encryption names
          Schemas,          \* JSON schemas
          Values,           \* plaintext payloads
          CollinfoReplies,  \* what the database may answer to listCollections
          MarkingReplies,   \* what the marking service may answer
          Messages,         \* what a caller may pass to explicit encryption
          EncryptOpts,      \* option sets a caller may have set before init
          NoBlockModes      \* values of cache_noblock callers choose

VARIABLES ctx,              \* the live contexts: id -> struct
          nextId,           \* the engine's next context id
          cache_collinfo,   \* engine cache: namespace -> collinfo pair
          cache_keys,       \* engine cache: key identifier -> material pair
          sleep             \* per caller thread: awake, asleep on a cache, woken

vars == <<ctx, nextId, cache_collinfo, cache_keys, sleep>>

Ctxs == 1..MaxCtx
Live == DOMAIN ctx

CtxStates == {"ERROR", "NOTHING_TO_DO", "NEED_MONGO_COLLINFO",
              "NEED_MONGO_MARKINGS", "NEED_MONGO_KEYS", "NEED_KMS",
              "WAITING", "READY", "DONE"}

ErrorKinds == {"client-misuse", "malformed-input", "policy",
               "key-unavailable", "collaborator-error"}

-----------------------------------------------------------------------------
(* Documents (Traverse).  What the contexts tell apart in a leaf is whether *)
(* it is a marking, a ciphertext or anything else, which key it names and  *)
(* what it carries.                                                        *)

Plain(v)      == [t |-> "plain", v |-> v]
Marking(k, v) == [t |-> "marking", ok |-> TRUE, has_alt_name |-> k \in AltNames,
                  key |-> k, v |-> v]
BadMarking    == [t |-> "marking", ok |-> FALSE, has_alt_name |-> FALSE,
                  key |-> Nil, v |-> Nil]
Ciphertext(uuid, v) == [t |-> "ciphertext", key_uuid |-> uuid, v |-> v]

DocValues == {Plain(v) : v \in Values} \cup {BadMarking}
             \cup {Marking(k, v) : k \in KeyRefs, v \in Values}
             \cup {Ciphertext(k, v) : k \in KeyIds, v \in Values}

\* What reading a buffer that was never filled may yield.
Indeterminate == {<< >>, <<[t |-> "indeterminate", v |-> Nil]>>}

\* The replies and messages a caller hands in.
CollinfoReply == [bson : BOOLEAN, type : {"collection", "view"},
                  validator : {"none", "document", "scalar"},
                  schema : Schemas \cup {Nil}]
MarkingReply  == [bson : BOOLEAN, schemaRequiresEncryption : BOOLEAN,
                  hasEncryptedPlaceholders : BOOLEAN,
                  result : {"none", "document", "scalar"},
                  doc : {m.doc : m \in MarkingReplies}]
Message       == [data : BOOLEAN, bson : BOOLEAN, v : Values \cup {Nil}]
CtxOpts       == [masterkey : BOOLEAN, local_schema : Schemas \cup {Nil},
                  key_id : KeyIds \cup {Nil}, key_alt_name : AltNames \cup {Nil},
                  iv : BOOLEAN, algorithm : BOOLEAN]

-----------------------------------------------------------------------------
(* struct _mongocrypt_ctx_t and _mongocrypt_ctx_encrypt_t.  The fields     *)
(* "replies" counts the documents fed in the current state: it belongs to  *)
(* the caller, and bounds the model.                                       *)

NewCtx(o, noblock) ==
    [state |-> "ERROR", status |-> "ok", type |-> "NONE", explicit |-> FALSE,
     cache_noblock |-> noblock, key_id |-> o.key_id,
     key_alt_name |-> o.key_alt_name, kb |-> EmptyBroker,
     ns |-> Nil, waiting_for_collinfo |-> FALSE, collinfo_state |-> "pending",
     collinfo_owner |-> NoCtx, list_collections_filter |-> Nil,
     schema |-> Nil, original_cmd |-> Nil, marked_cmd |-> Nil,
     encrypted_cmd |-> Nil, replies |-> 0]

\* _mongocrypt_ctx_fail_w_msg, and _mongocrypt_ctx_fail after a callee set
\* the status: the context carries the error and is in the error state.
Fail(r, kind) == [r EXCEPT !.state = "ERROR", !.status = kind]

\* _mongocrypt_ctx_init: the options set must fit the kind's options spec.
Meets(isSet, spec) == (spec = "required" => isSet) /\ (spec = "prohibited" => ~isSet)

CtxInitOk(o, spec) ==
    /\ Meets(o.masterkey, spec.masterkey)
    /\ Meets(o.local_schema # Nil, spec.schema)
    /\ Meets(o.key_id # Nil \/ o.key_alt_name # Nil, spec.key_descriptor)
    /\ Meets(o.iv, spec.iv)
    /\ Meets(o.algorithm, spec.algorithm)

OptsSpec(schema, key, iv, algorithm) ==
    [masterkey |-> "prohibited", schema |-> schema, key_descriptor |-> key,
     iv |-> iv, algorithm |-> algorithm]

\* The kind and the function table are set once _mongocrypt_ctx_init passed.
TypeAfterInit(o, spec) == IF CtxInitOk(o, spec) THEN "ENCRYPT" ELSE "NONE"

\* The call goes through the function table of an encryption context.
Encrypts(c) == c \in Live /\ ctx[c].type = "ENCRYPT"

\* _mongocrypt_ctx_state_from_key_broker.
StateFromKeyBroker(r, id) ==
    LET phase == BrokerPhase(r.kb, id)
    IN  IF phase = "ERROR" THEN Fail(r, IF r.status = "ok"
                                        THEN "collaborator-error" ELSE r.status)
        ELSE [r EXCEPT !.state = phase, !.replies = 0]

\* The broker of a context beside the key cache, for chained broker calls.
BrokerOf(r) == [kb |-> r.kb, cache |-> cache_keys, status |-> "ok"]

-----------------------------------------------------------------------------
(* Writing the state back.  A change of a cache wakes every thread asleep  *)
(* on that cache's condition.                                              *)

Put(c, r) == ctx' = [x \in Live \cup {c} |-> IF x = c THEN r ELSE ctx[x]]

\* A call that touches nothing but its own context.
Update(c, r) == Put(c, r) /\ UNCHANGED <<nextId, cache_collinfo, cache_keys, sleep>>

SetCaches(collinfo, keys, s) ==
    /\ cache_collinfo' = collinfo
    /\ cache_keys' = keys
    /\ sleep' = [x \in Ctxs |->
          IF \/ s[x] = "collinfo" /\ collinfo # cache_collinfo
             \/ s[x] = "keys" /\ keys # cache_keys
          THEN "woken" ELSE s[x]]

Awake(c) == [sleep EXCEPT ![c] = "awake"]

\* A call on context c in state st by a caller that is not inside a call.
Called(c, st) == c \in Live /\ ctx[c].state = st /\ sleep[c] = "awake"

-----------------------------------------------------------------------------
(* NEED_MONGO_COLLINFO: the schema of the collection, through the cache.   *)

\* _set_schema_from_collinfo: views and validators that are no document are
\* refused; a collinfo without a validator leaves the schema as it was.
SetSchemaFromCollinfo(r, ci) ==
    CASE ci.type = "view"           -> Fail(r, "policy")
      [] ci.validator = "scalar"    -> Fail(r, "malformed-input")
      [] ci.validator = "document"  -> [r EXCEPT !.schema = ci.schema]
      [] OTHER                      -> r

\* _try_collinfo_from_cache, after the cache answered with the pair of the
\* namespace.  What the context remembers of the pair:
Seen(r, pair) ==
    [r EXCEPT !.collinfo_owner = pair.owner,
              !.collinfo_state = IF pair.state = "done" THEN "done" ELSE "pending",
              !.waiting_for_collinfo = FALSE]

\* a published collinfo is used,
UseCollinfo(r, pair) ==
    LET read == SetSchemaFromCollinfo(Seen(r, pair), pair.value)
    IN  IF read.status # "ok" THEN read
        ELSE [read EXCEPT !.state = "NEED_MONGO_MARKINGS"]

\* a pair of our own is fetched, a pair of another context is waited for.
FetchCollinfo(r, pair) == [Seen(r, pair) EXCEPT !.state = "NEED_MONGO_COLLINFO"]
AwaitCollinfo(r, pair) == [Seen(r, pair) EXCEPT !.state = "WAITING",
                                               !.waiting_for_collinfo = TRUE]

\* Fault: every context that finds no published collinfo fetches it.
CollinfoOutcomeNoOwnerTest(c, r, pair) ==
    IF pair.state = "done" THEN UseCollinfo(r, pair) ELSE FetchCollinfo(r, pair)

\* Fault: waiting_for_collinfo is not reset before the cache is asked.
CollinfoOutcomeNoReset(c, r, pair) ==
    CASE pair.state = "done" ->
           [UseCollinfo(r, pair) EXCEPT
              !.waiting_for_collinfo = r.waiting_for_collinfo]
      [] pair.state # "done" /\ pair.owner = c -> FetchCollinfo(r, pair)
      [] OTHER -> AwaitCollinfo(r, pair)

CollinfoOutcome(c, r, pair) ==
    CASE pair.state = "done" -> UseCollinfo(r, pair)
      [] pair.state # "done" /\ pair.owner = c -> FetchCollinfo(r, pair)
      [] OTHER -> AwaitCollinfo(r, pair)

\* Fault: the cache is read and no pair is created.
TryCollinfoWithoutCreate(c, r) ==
    /\ Put(c, CollinfoOutcome(c, r, cache_collinfo[r.ns]))
    /\ SetCaches(cache_collinfo, cache_keys, Awake(c))

TryCollinfoFromCache(c, r) ==
    LET cache == GetOrCreate(cache_collinfo, r.ns, c)
    IN  /\ Put(c, CollinfoOutcome(c, r, cache[r.ns]))
        /\ SetCaches(cache, cache_keys, Awake(c))

\* mongocrypt_ctx_encrypt_init, with the creation of the context.
EncryptInit(ns, o, noblock) ==
    LET c  == nextId
        spec == OptsSpec("optional", "prohibited", "prohibited", "prohibited")
        r  == [NewCtx(o, noblock) EXCEPT !.ns = ns, !.type = TypeAfterInit(o, spec)]
        ok == /\ CtxInitOk(o, spec)
              /\ ns \in Namespaces
              /\ ~o.masterkey /\ o.key_id = Nil /\ ~o.algorithm /\ ~o.iv
    IN  /\ c \in Ctxs
        /\ nextId' = c + 1
        /\ IF ok /\ o.local_schema = Nil THEN TryCollinfoFromCache(c, r)
           ELSE /\ Put(c, IF ok THEN [r EXCEPT !.schema = o.local_schema,
                                               !.state = "NEED_MONGO_MARKINGS"]
                                 ELSE Fail(r, "client-misuse"))
                /\ UNCHANGED <<cache_collinfo, cache_keys, sleep>>

\* Fault: the filter carries the whole namespace.
MongoOpCollinfoWholeNs(c) ==
    /\ Called(c, "NEED_MONGO_COLLINFO")
    /\ Update(c, [ctx[c] EXCEPT !.list_collections_filter = ctx[c].ns])

\* _mongo_op_collinfo: the listCollections filter names the collection.
MongoOpCollinfo(c) ==
    /\ Called(c, "NEED_MONGO_COLLINFO")
    /\ Update(c, [ctx[c] EXCEPT !.list_collections_filter = ctx[c].ns[2]])

\* Fault: the reply is looked at first, and only a good one is cached.
MongoFeedCollinfoValidatesFirst(c, reply) ==
    LET r    == [ctx[c] EXCEPT !.replies = @ + 1]
        read == IF reply.bson THEN SetSchemaFromCollinfo(r, reply)
                              ELSE Fail(r, "malformed-input")
    IN  /\ Called(c, "NEED_MONGO_COLLINFO")
        /\ ctx[c].replies < MaxReplies
        /\ Put(c, read)
        /\ SetCaches(IF read.status = "ok" THEN AddCopy(cache_collinfo, r.ns, reply)
                                           ELSE cache_collinfo, cache_keys, sleep)
        /\ UNCHANGED nextId

\* _mongo_feed_collinfo: the reply is cached before it is looked at.
MongoFeedCollinfo(c, reply) ==
    LET r      == [ctx[c] EXCEPT !.replies = @ + 1]
        cached == reply.bson /\ MayAddCopy(cache_collinfo, r.ns, c)
    IN  /\ Called(c, "NEED_MONGO_COLLINFO")
        /\ ctx[c].replies < MaxReplies
        /\ Put(c, CASE ~reply.bson -> Fail(r, "malformed-input")
                    [] reply.bson /\ ~cached -> Fail(r, "collaborator-error")
                    [] OTHER -> SetSchemaFromCollinfo(r, reply))
        /\ SetCaches(IF cached THEN AddCopy(cache_collinfo, r.ns, reply)
                               ELSE cache_collinfo, cache_keys, sleep)
        /\ UNCHANGED nextId

\* _mongo_done_collinfo.
MongoDoneCollinfo(c) ==
    /\ Called(c, "NEED_MONGO_COLLINFO")
    /\ Update(c, [ctx[c] EXCEPT !.replies = 0,
                                !.state = IF ctx[c].schema = Nil
                                          THEN "NOTHING_TO_DO"
                                          ELSE "NEED_MONGO_MARKINGS"])

-----------------------------------------------------------------------------
(* NEED_MONGO_MARKINGS: the marked command, and the keys its markings name. *)

\* _mongo_op_markings: the body of the marking query is the schema.
MongoOpMarkings(c) == ctx[c].schema

\* Fault: the key is taken without asking the key cache who fetches it.
CollectWithoutCache(b, v, id) ==
    IF b.status = "ok" /\ v.t = "marking" /\ v.ok /\ b.kb[v.key] = NoEntry
    THEN [b EXCEPT !.kb[v.key] = Entry("added", id)] ELSE b

\* Fault: a marking that names its key by alternate name adds no key.
CollectIdsOnly(b, v, id) ==
    IF b.status = "ok" /\ v.t = "marking" /\ v.ok /\ ~v.has_alt_name
    THEN BrokerAdd(b, v.key, id) ELSE b

\* _collect_key_from_marking, as the traversal calls it on each value: the
\* traversal skips what is no marking and stops at the first failure.
CollectKeyFromMarking(b, v, id) ==
    CASE b.status # "ok" \/ v.t # "marking" -> b
      [] b.status = "ok" /\ v.t = "marking" /\ ~v.ok ->
           [b EXCEPT !.status = "malformed-input"]
      [] OTHER -> BrokerAdd(b, v.key, id)

\* _mongo_feed_markings.  The traversal runs once: b is the broker, beside
\* the key cache, after it.
MongoFeedMarkings(c, reply) ==
    /\ Called(c, "NEED_MONGO_MARKINGS")
    /\ ctx[c].replies < MaxReplies
    /\ \E b \in {FoldLeft(LAMBDA acc, v : CollectKeyFromMarking(acc, v, c),
                           BrokerOf(ctx[c]), Leaves(reply.doc))} :
        LET r      == [ctx[c] EXCEPT !.replies = @ + 1]
            noop   == ~(reply.schemaRequiresEncryption /\ reply.hasEncryptedPlaceholders)
            stored == reply.bson /\ ~noop /\ reply.result = "document"
            marked == [r EXCEPT !.marked_cmd = reply.doc, !.kb = b.kb]
        IN  /\ Put(c, CASE stored /\ b.status = "ok" -> marked
                        [] stored /\ b.status # "ok" -> Fail(marked, b.status)
                        [] reply.bson /\ noop -> r
                        [] OTHER -> Fail(r, "malformed-input"))
            /\ SetCaches(cache_collinfo, IF stored THEN b.cache ELSE cache_keys, sleep)
            /\ UNCHANGED nextId

\* _mongo_done_markings.
MongoDoneMarkings(c) ==
    /\ Called(c, "NEED_MONGO_MARKINGS")
    /\ Update(c, StateFromKeyBroker(ctx[c], c))

-----------------------------------------------------------------------------
(* NEED_MONGO_KEYS and NEED_KMS: the owner fetches and publishes its keys.  *)

\* mongocrypt_ctx_mongo_op: the filter names the keys the context fetches.
MongoOpKeys(c) ==
    /\ Called(c, "NEED_MONGO_KEYS")
    /\ Update(c, [ctx[c] EXCEPT !.kb = RequestKeys(@, c)])

\* mongocrypt_ctx_mongo_feed: a key document of the vault arrives.
MongoFeedKeys(c, key) ==
    /\ Called(c, "NEED_MONGO_KEYS")
    /\ key \in VaultKeys
    /\ \E k \in KeyRefs : KeyUuid(k) = key /\ ctx[c].kb[k] = Entry("requested", c)
    /\ Update(c, [ctx[c] EXCEPT !.kb = KeyDocArrived(@, key, c)])

\* The keys a context asked the vault for and has no answer to yet.
Unanswered(c) == {k \in KeyRefs : ctx[c].kb[k] = Entry("requested", c)}

\* mongocrypt_ctx_mongo_done.  The driver signals done when it has fed
\* every document the vault answered with.
MongoDoneKeys(c) ==
    /\ Called(c, "NEED_MONGO_KEYS")
    /\ \A k \in Unanswered(c) : KeyUuid(k) \notin VaultKeys
    /\ Update(c, StateFromKeyBroker([ctx[c] EXCEPT !.kb = KeyDocsDone(@, c)], c))

KmsDone(c, ok) ==
    LET b == KmsDecrypted(BrokerOf(ctx[c]), ok)
    IN  /\ Called(c, "NEED_KMS")
        /\ Put(c, StateFromKeyBroker([ctx[c] EXCEPT !.kb = b.kb,
                                                    !.status = b.status], c))
        /\ SetCaches(cache_collinfo, b.cache, sleep)
        /\ UNCHANGED nextId

-----------------------------------------------------------------------------
(* WAITING: another context fetches what this one needs.                   *)

\* Fault: the state is not set again after the broker looked at the cache.
WaitKeysNoStateFromBroker(r, b, c) == [r EXCEPT !.kb = b.kb]

\* _wait_done, waiting for keys: after the broker looked at the key cache
\* the state follows the broker.
WaitKeys(r, b, c) == StateFromKeyBroker([r EXCEPT !.kb = b.kb], c)

\* _mongocrypt_ctx_fail after a wait on a cache failed: the caches are as
\* they were, the caller is back from the call.
WaitFailed(c) ==
    /\ Put(c, Fail(ctx[c], "collaborator-error"))
    /\ SetCaches(cache_collinfo, cache_keys, Awake(c))

\* Fault: a blocking caller sleeps on the key cache before the broker
\* looked at it, as it does on the collinfo cache.
WaitOnKeysSleepsFirst(c, waits) ==
    \/ /\ ~ctx[c].cache_noblock /\ sleep[c] = "awake"
       /\ sleep' = [sleep EXCEPT ![c] = "keys"]
       /\ UNCHANGED <<ctx, cache_collinfo, cache_keys>>
    \/ /\ sleep[c] = IF ctx[c].cache_noblock THEN "awake" ELSE "woken"
       /\ \E b \in {CheckCache(BrokerOf(ctx[c]), c)} :
             /\ Put(c, WaitKeys(ctx[c], b, c))
             /\ SetCaches(cache_collinfo, b.cache, Awake(c))

\* _wait_done, waiting for keys: the broker looks at the key cache, and a
\* blocking caller sleeps only while the broker still depends on others.
\* "waits" is whether check_cache_and_wait succeeds.
WaitOnKeys(c, waits) ==
    /\ sleep[c] \in {"awake", "woken"}
    /\ \/ ~waits /\ WaitFailed(c)
       \/ /\ waits
          /\ \E b \in {CheckCache(BrokerOf(ctx[c]), c)} :
               \E next \in {WaitKeys(ctx[c], b, c)} :
                  /\ Put(c, next)
                  /\ SetCaches(cache_collinfo, b.cache,
                               IF next.state = "WAITING" /\ ~ctx[c].cache_noblock
                               THEN [sleep EXCEPT ![c] = "keys"] ELSE Awake(c))

\* _wait_done.  Waiting for a collinfo, a blocking caller first sleeps on
\* the cache's condition and looks at the cache when woken; a non-blocking
\* caller looks at once.  "waits" is whether the wait on the cache
\* succeeds: a wait that fails, on the way in or on the way out, fails the
\* context.
WaitDone(c, waits) ==
    /\ Encrypts(c) /\ ctx[c].state = "WAITING"
    /\ UNCHANGED nextId
    /\ \/ /\ ctx[c].waiting_for_collinfo /\ ~ctx[c].cache_noblock
          /\ \/ /\ waits /\ sleep[c] = "awake"
                /\ sleep' = [sleep EXCEPT ![c] = "collinfo"]
                /\ UNCHANGED <<ctx, cache_collinfo, cache_keys>>
             \/ /\ ~waits /\ sleep[c] \in {"awake", "woken"}
                /\ WaitFailed(c)
       \/ /\ ctx[c].waiting_for_collinfo /\ waits
          /\ sleep[c] = IF ctx[c].cache_noblock THEN "awake" ELSE "woken"
          /\ TryCollinfoFromCache(c, ctx[c])
       \/ ~ctx[c].waiting_for_collinfo /\ WaitOnKeys(c, waits)

\* _next_dependent_ctx_id: the remembered owner of the collinfo is handed
\* out once; for keys the broker is asked, which changes nothing.
NextDependentCtxId(c) ==
    /\ Encrypts(c) /\ Called(c, "WAITING")
    /\ ctx[c].waiting_for_collinfo
    /\ Update(c, [ctx[c] EXCEPT !.collinfo_owner = NoCtx])

-----------------------------------------------------------------------------
(* READY: finalize replaces markings by ciphertexts.                       *)

\* _marking_to_bson_value: the crypto collaborator encrypts under the key
\* the marking names, looked up by name or by id as the marking says.
CanEncrypt(kb, m) ==
    /\ m.ok
    /\ m.key \in (IF m.has_alt_name THEN AltNames ELSE KeyIds)
    /\ DecryptedKey(kb, m.key)

MarkingToBsonValue(m) == Ciphertext(KeyUuid(m.key), m.v)

Markings(doc) == {m \in ToSet(Leaves(doc)) : m.t = "marking"}

\* _replace_marking_with_ciphertext, as the transforming traversal calls it.
ReplaceMarkings(doc) ==
    Transform(doc, [v \in DocValues |->
                      IF v.t = "marking" THEN MarkingToBsonValue(v) ELSE v])

\* _finalize of an automatic context: the marked command is transformed.
\* A context that was told there is nothing to encrypt never stored one,
\* and transforms whatever the unset buffer reads as.
FinalizeAuto(r) ==
    IF r.marked_cmd = Nil
    THEN {[r EXCEPT !.encrypted_cmd = d, !.state = "DONE"] : d \in Indeterminate}
    ELSE IF \A m \in Markings(r.marked_cmd) : CanEncrypt(r.kb, m)
    THEN {[r EXCEPT !.encrypted_cmd = ReplaceMarkings(r.marked_cmd),
                    !.state = "DONE"]}
    ELSE {Fail(r, "key-unavailable")}

\* _finalize of an explicit context: a marking is made up from the options
\* (always from key_id) and the wrapped value.  A failed encryption returns
\* with the status set and the state as it was.
FinalizeExplicit(r) ==
    LET marking == [Marking(r.key_id, r.original_cmd.v) EXCEPT
                      !.has_alt_name = FALSE]
    IN  IF r.original_cmd.v = Nil THEN {Fail(r, "malformed-input")}
        ELSE IF CanEncrypt(r.kb, marking)
        THEN {[r EXCEPT !.encrypted_cmd = <<MarkingToBsonValue(marking)>>,
                        !.state = "DONE"]}
        ELSE {[r EXCEPT !.status = "key-unavailable"]}

Finalize(c) ==
    /\ Encrypts(c) /\ Called(c, "READY")
    /\ \E r \in (IF ctx[c].explicit THEN FinalizeExplicit(ctx[c])
                                     ELSE FinalizeAuto(ctx[c])) : Update(c, r)

-----------------------------------------------------------------------------
(* Explicit encryption, and the end of a context.                          *)

\* mongocrypt_ctx_explicit_encrypt_init, with the creation of the context.
\* The key is asked of the broker before the message is looked at.
ExplicitEncryptInit(msg, o, noblock) ==
    LET c == nextId
        spec == OptsSpec("prohibited", "required", "optional", "required")
        r == [NewCtx(o, noblock) EXCEPT !.explicit = CtxInitOk(o, spec),
                                        !.type = TypeAfterInit(o, spec)]
        b == BrokerAdd(BrokerOf(r), IF o.key_alt_name # Nil THEN o.key_alt_name
                                                           ELSE o.key_id, c)
        keyed == [r EXCEPT !.kb = b.kb, !.original_cmd = msg]
        ok == CtxInitOk(o, spec) /\ msg.data
    IN  /\ c \in Ctxs
        /\ nextId' = c + 1
        /\ Put(c, CASE ~ok -> Fail(r, "client-misuse")
                    [] ok /\ b.status # "ok" -> Fail(r, b.status)
                    [] ok /\ b.status = "ok" /\ msg.bson /\ msg.v # Nil ->
                         StateFromKeyBroker(keyed, c)
                    [] OTHER -> Fail(keyed, "malformed-input"))
        /\ SetCaches(cache_collinfo, IF ok THEN b.cache ELSE cache_keys, sleep)

\* Fault: cleanup leaves the cache alone.
CleanupKeepsPending(c) == cache_collinfo

\* _cleanup: the pending collinfo pairs of the context leave the cache.
Cleanup(c) == RemoveByOwner(cache_collinfo, c)

\* _cleanup of a decryption context: its buffers go, no cache is touched.
DecryptCleanup(c) == cache_collinfo

\* mongocrypt_ctx_destroy: the cleanup of the context's kind, and the
\* broker gives up its pending keys.
Destroy(c) ==
    /\ c \in Live /\ sleep[c] = "awake"
    /\ ctx' = Restrict(ctx, Live \ {c})
    /\ SetCaches(IF Encrypts(c) THEN Cleanup(c) ELSE DecryptCleanup(c),
                 RemoveByOwner(cache_keys, c), sleep)
    /\ UNCHANGED nextId

-----------------------------------------------------------------------------
Init ==
    /\ ctx = << >>
    /\ nextId = 1
    /\ cache_collinfo = EmptyCache(Namespaces)
    /\ cache_keys = EmptyCache(KeyRefs)
    /\ sleep = [c \in Ctxs |-> "awake"]

\* The calls of a caller on its context; "waits" is whether the wait of
\* wait_done succeeds.
Step(c, waits) ==
    \/ MongoOpCollinfo(c)
    \/ \E reply \in CollinfoReplies : MongoFeedCollinfo(c, reply)
    \/ MongoDoneCollinfo(c)
    \/ \E reply \in MarkingReplies : MongoFeedMarkings(c, reply)
    \/ MongoDoneMarkings(c)
    \/ MongoOpKeys(c)
    \/ \E key \in KeyIds : MongoFeedKeys(c, key)
    \/ MongoDoneKeys(c)
    \/ \E ok \in BOOLEAN : KmsDone(c, ok)
    \/ WaitDone(c, waits)
    \/ NextDependentCtxId(c)
    \/ Finalize(c)

Create ==
    \E o \in EncryptOpts, noblock \in NoBlockModes :
        \/ \E ns \in Namespaces \cup {Nil} : EncryptInit(ns, o, noblock)
        \/ \E msg \in Messages : ExplicitEncryptInit(msg, o, noblock)

Next == Create \/ \E c \in Ctxs : (\E waits \in BOOLEAN : Step(c, waits)) \/ Destroy(c)

Spec == Init /\ [][Next]_vars

\* A caller drives its context until it is finished and then destroys it;
\* nothing obliges it to start a context or to abandon one half way, and
\* nothing makes a wait on a cache fail.
Finished(c) == c \in Live /\ ctx[c].state \in {"DONE", "ERROR", "NOTHING_TO_DO"}

Fairness ==
    \A c \in Ctxs : WF_vars(Step(c, TRUE)) /\ WF_vars(Finished(c) /\ Destroy(c))

FairSpec == Spec /\ Fairness

-----------------------------------------------------------------------------
CtxRecords ==
    [state : CtxStates, status : ErrorKinds \cup {"ok"},
     type : {"NONE", "ENCRYPT"}, explicit : BOOLEAN,
     cache_noblock : BOOLEAN, key_id : KeyIds \cup {Nil},
     key_alt_name : AltNames \cup {Nil}, kb : Brokers,
     ns : Namespaces \cup {Nil}, waiting_for_collinfo : BOOLEAN,
     collinfo_state : {"pending", "done"}, collinfo_owner : Ctxs \cup {NoCtx},
     list_collections_filter : {ns[2] : ns \in Namespaces} \cup {Nil},
     schema : Schemas \cup {Nil}, original_cmd : Message \cup {Nil},
     marked_cmd : {m.doc : m \in MarkingReplies} \cup {Nil},
     encrypted_cmd : {ReplaceMarkings(m.doc) : m \in MarkingReplies}
                        \cup {<<Ciphertext(k, v)>> : k \in KeyIds, v \in Values}
                        \cup Indeterminate \cup {Nil},
     replies : 0..MaxReplies]

TypeOK ==
    /\ Live \subseteq 1..(nextId - 1) /\ nextId \in 1..(MaxCtx + 1)
    /\ \A c \in Live : ctx[c] \in CtxRecords
    /\ \A ns \in Namespaces :
          cache_collinfo[ns] \in Pairs(CollinfoReply, Ctxs)
    /\ \A k \in KeyRefs : cache_keys[k] \in Pairs(KeyIds, Ctxs)
    /\ sleep \in [Ctxs -> {"awake", "collinfo", "keys", "woken"}]

-----------------------------------------------------------------------------
(* Properties.                                                             *)

Auto(c) == Encrypts(c) /\ ~ctx[c].explicit

\* The listCollections round trip for a namespace is made by one context
\* at a time, the one the cache names as owner of the pending pair: however
\* inits, feeds, waits and destroys of contexts on the same namespace
\* interleave, _try_collinfo_from_cache never lets a second one fetch.
SingleFetcher ==
    \A c \in Live : ctx[c].state = "NEED_MONGO_COLLINFO" =>
        /\ cache_collinfo[ctx[c].ns] \in {Pending(c)} \cup
              {Done(v) : v \in CollinfoReply}
        /\ \A d \in Live \ {c} :
              ~(ctx[d].state = "NEED_MONGO_COLLINFO" /\ ctx[d].ns = ctx[c].ns)

\* The contexts of a namespace agree with its cache: _mongo_feed_collinfo
\* publishes the reply before _set_schema_from_collinfo looks at it, so the
\* schema a context goes on with is the one of the published collinfo, and
\* a collinfo that failed its fetcher (a view) is there to fail, in the same
\* way, every context that waited for it or comes after it.
ThroughCache(c) ==
    Auto(c) /\ (ctx[c].collinfo_state = "done" \/ ctx[c].collinfo_owner = c)

PastSchema(r) ==
    \/ r.state \in {"NEED_MONGO_MARKINGS", "NEED_MONGO_KEYS", "NEED_KMS", "READY", "DONE"}
    \/ r.state = "WAITING" /\ ~r.waiting_for_collinfo

ContextsAgreeWithCache ==
    \A c \in Live : ThroughCache(c) =>
        LET pair == cache_collinfo[ctx[c].ns]
            read == SetSchemaFromCollinfo([state |-> "WAITING", status |-> "ok",
                                           schema |-> Nil], pair.value)
        IN  (PastSchema(ctx[c]) \/ ctx[c].status = "policy") =>
               /\ pair.state = "done"
               /\ read.status = ctx[c].status
               /\ read.status = "ok" => read.schema = ctx[c].schema

\* A key is fetched from the key vault and the KMS by one context at a
\* time: a broker entry that the context is fetching itself (added by
\* _collect_key_from_marking or by explicit init, or taken over in
\* _wait_done) is the pending pair of the key cache, owned by that context.
OneFetchPerKey ==
    \A c \in Live, k \in KeyRefs :
        ( /\ ctx[c].kb[k].status \in {"added", "requested", "kms-pending"}
          /\ ctx[c].kb[k].owner = c ) => cache_keys[k] = Pending(c)

\* No pending pair outlives its owner: when a context is destroyed, in any
\* state, _cleanup and the broker take its pending pairs out of the caches,
\* so that a context waiting for the pair can take the fetch over.
PendingOwnerIsLive ==
    /\ \A ns \in Namespaces : cache_collinfo[ns].state = "pending" =>
          Auto(cache_collinfo[ns].owner) /\ ctx[cache_collinfo[ns].owner].ns = ns
    /\ \A k \in KeyRefs : cache_keys[k].state = "pending" =>
          /\ cache_keys[k].owner \in Live
          /\ ctx[cache_keys[k].owner].kb[k].owner = cache_keys[k].owner

\* When an automatic context is READY, _finalize finds the decrypted key of
\* every marking of the marked command, however deep in embedded documents
\* and arrays, unless the key vault has no such key: _mongo_feed_markings
\* collected the key of each marking, by id or by name, and the broker
\* reports readiness only when every key of the vault among them, fetched
\* by this context or by another, is decrypted.
ReadyHasKeys ==
    \A c \in Live :
        (Auto(c) /\ ctx[c].state = "READY" /\ ctx[c].marked_cmd # Nil) =>
            \A m \in ValuesIn(ctx[c].marked_cmd) :
                (m.t = "marking" /\ KeyUuid(m.key) \in VaultKeys) =>
                    CanEncrypt(ctx[c].kb, m)

\* A context never returns to an earlier phase of its protocol (schema,
\* markings, keys, ready, finished): a context that waits, for a collinfo
\* or for keys, resumes in the phase it waits in.  _wait_done chooses the
\* cache to look at by waiting_for_collinfo, which _try_collinfo_from_cache
\* must have reset by the time the context waits for keys.
Phase(r) ==
    CASE r.state = "NEED_MONGO_COLLINFO" -> 1
      [] r.state = "WAITING" -> IF r.waiting_for_collinfo THEN 1 ELSE 3
      [] r.state = "NEED_MONGO_MARKINGS" -> 2
      [] r.state \in {"NEED_MONGO_KEYS", "NEED_KMS"} -> 3
      [] r.state = "READY" -> 4
      [] OTHER -> 5

PhaseMonotone ==
    [][\A c \in Live \cap DOMAIN ctx' : Phase(ctx'[c]) >= Phase(ctx[c])]_vars

Waiting(c) == c \in Live /\ ctx[c].state = "WAITING"

\* Every context comes to an end: a caller that keeps driving its context
\* sees it DONE, NOTHING_TO_DO or ERROR, whatever the other callers do with
\* theirs, unless it destroys the context before.  No context is kept, by
\* the contexts it depends on or that depend on it, in a round of fetching,
\* waiting and taking over; no blocking caller sleeps in _wait_done on a
\* key that was published, or given up, before it went to sleep.  (A
\* context that is not there has come to its end, so "from any moment on,
\* eventually" is "again and again".)
ContextsFinish == \A c \in Ctxs : []<>(c \in Live => Finished(c))

-----------------------------------------------------------------------------
(* What the specification says and the code does not do.                    *)

\* "A present done entry advances directly to NEED_MONGO_MARKINGS (or
\* NOTHING_TO_DO if the schema is empty)": the marking query always has a
\* schema to send.  _mongo_done_collinfo sees to it for the context that
\* fetched the collinfo; _try_collinfo_from_cache does not.
MarkingsNeedSchema ==
    \A c \in Live : ctx[c].state = "NEED_MONGO_MARKINGS" => MongoOpMarkings(c) # Nil

\* "No-op encrypt ... drives the context to READY with finalize returning
\* the original command unchanged": what _finalize hands out is a command
\* the context was given, with its markings replaced.
FinalizeReturnsCommand ==
    \A c \in Live : (Auto(c) /\ ctx[c].state = "DONE") =>
        \E cmd \in {ctx[c].original_cmd, ctx[c].marked_cmd} \ {Nil} :
            ctx[c].encrypted_cmd = ReplaceMarkings(cmd)

\* "Every failing operation sets the context status and drives the state
\* machine to ERROR": a context whose status is an error is in ERROR.  The
\* explicit branch of _finalize returns a failed encryption as it is.
FailureMeansError ==
    \A c \in Live : ctx[c].status # "ok" => ctx[c].state = "ERROR"

\* "Dependents wake and copy": with blocking callers too, a context that
\* waits for a collinfo resumes.  _wait_done sleeps on the cache's
\* condition without looking whether the pair changed since the context
\* last saw it.
BlockingWaitersResume == \A c \in Ctxs : Waiting(c) ~> ~Waiting(c)

\* "The caller ... repeatedly queries next_dependent_ctx_id to run the
\* owning context first": the id a context waiting for a collinfo hands
\* out names the owner of the pending pair, unless the pair is published
\* and nothing is left to run.  _next_dependent_ctx_id hands out the owner
\* _try_collinfo_from_cache remembered, whatever became of it since.
DependentIdNamesOwner ==
    \A c \in Live :
        (ctx[c].state = "WAITING" /\ ctx[c].waiting_for_collinfo
                                  /\ ctx[c].collinfo_owner # NoCtx) =>
            cache_collinfo[ctx[c].ns] \in
                {Pending(ctx[c].collinfo_owner)} \cup {Done(v) : v \in CollinfoReply}

\* "Published done entries persist", for the contexts that took their
\* schema from them: the collinfo published for a namespace stays as it is.
\* A caller "feeds zero or more replies", and _mongo_feed_collinfo hands
\* every one of them to the cache, the second over the first.
PublishedCollinfoPersists ==
    [][\A ns \in Namespaces : cache_collinfo[ns].state = "done" =>
          cache_collinfo'[ns] = cache_collinfo[ns]]_vars

=============================================================================

# TLA+ models of the libmongocrypt context state machine

This directory holds TLA+ specifications of the client-side encryption engine
whose contexts are implemented in `src/src/mongocrypt-ctx-encrypt.c`,
`src/src/mongocrypt-ctx-decrypt.c` and `src/src/mongocrypt-ctx-private.h`, the
TLC configurations that check them, and `PROJECT.json`, which maps every
definition to the lines of code it models and lists the runs, the seeded
faults that each property detects, the findings and the hazards.

## 1. The system

A *context* is one encryption or decryption request. It performs no I/O: the
caller reads the context's state, asks it for an operation to send to the
database or the KMS, feeds the replies back, and signals that it is done; the
context then chooses its next state. Many contexts run at once, each on the
caller's thread; they meet in two engine-wide caches.

| Part | Code | State | Operations |
|---|---|---|---|
| Context base | `mongocrypt-ctx-private.h` | `state`, `status`, `id`, `cache_noblock`, options, key broker | init with an options spec, fail, state from key broker, destroy |
| Encryption context | `mongocrypt-ctx-encrypt.c` | `explicit`, `ns`, `waiting_for_collinfo`, `collinfo_state`, `collinfo_owner`, filter, schema, original / marked / encrypted command | two inits, op/feed/done for collinfo and markings, `wait_done`, `next_dependent_ctx_id`, `finalize`, `cleanup` |
| Decryption context | `mongocrypt-ctx-decrypt.c` | `explicit`, original / unwrapped / decrypted document | two inits, `wait_done`, `next_dependent_ctx_id`, `finalize`, `cleanup` |
| Ciphertext blob parser | `mongocrypt-ctx-decrypt.c` | none | `_parse_ciphertext_unowned` |
| Key broker | not among the sources | entries: status, owner | add by id or name, cache check, fetch steps, readiness |
| Key vault | the database, through the caller | the keys it has a document of | answers the owner's filter |
| Collinfo cache, key cache | not among the sources | pairs: absent / pending(owner) / done(value), a condition | get_or_create, add_copy, remove_by_owner, wait |
| Traversal engine | not among the sources | none | visit, transform |
| Crypto, BSON, KMS codec, logging, data key context | not among the sources | | |

How the parts interact:

* An automatic encryption context needs the collection's schema. It asks the
  collinfo cache; the first context to ask for a namespace owns the pending
  pair and runs `listCollections` (NEED_MONGO_COLLINFO), every other context is
  its dependent and goes to WAITING. The owner's feed publishes the reply;
  its destruction removes a pair that is still pending.
* The marking reply names keys; each goes to the context's key broker, which
  asks the key cache in the same way: owner fetches (NEED_MONGO_KEYS,
  NEED_KMS), dependents wait.
* `wait_done` looks at the cache again, at once (`cache_noblock`) or after
  sleeping on the cache's condition.
* `finalize` replaces each marking by a ciphertext under its key.

What makes it hard: the caches are shared by concurrently driven contexts;
ownership is handed over when an owner is destroyed at any point; contexts
fail half way through an operation that already touched a cache; a blocking
waiter sleeps on a condition that may already have been signalled; the two
paths to a schema (fetch, cache hit) must agree.

What each part must guarantee: one fetcher per cache key; no pending pair
without a live owner; a waiting context resumes; a context that is READY can
be finalized; states do not regress; a failure is visible as ERROR; the output
is the command with its markings replaced.

## 2. Modules

| Module | Models | Source of its definitions |
|---|---|---|
| `Cache` | the pair discipline of both caches, as operators on a function from keys to pairs | the specification (marked `spec_modelled`) |
| `KeyBroker` | a broker as a function from key references to entries, with the key cache passed through `[kb, cache, status]` records | the specification |
| `EncryptCtx` | the encryption contexts and the engine state they share; one action per API call | `mongocrypt-ctx-encrypt.c`, `mongocrypt-ctx-private.h` |
| `MCEncryptCtx` | the finite inputs for TLC | |
| `DecryptCtx` | the decryption contexts, as further actions on the variables of `EncryptCtx`: the engine with contexts of both kinds | `mongocrypt-ctx-decrypt.c`, `mongocrypt-ctx-private.h` |
| `MCDecryptCtx` | the finite inputs of the decryption inits | |
| `CiphertextBlob` | `_parse_ciphertext_unowned` over byte sequences | `mongocrypt-ctx-decrypt.c` |
| `Traverse` | the traversal engine over documents with embedded documents and arrays: `Leaves` (visit in document order), `Transform` (copy with the matched leaves replaced) | the specification |
| `CacheDiscipline` | what either cache promises the contexts that use it: one fetcher per key, published once, a fetch given up when its owner leaves | the specification |
| `EngineRefinesCache` | the two refinement mappings from the engine to `CacheDiscipline`, one for the collinfo cache and one for the key cache | |

`EncryptCtx` extends `KeyBroker` (which extends `Cache`) and `Traverse`: the
component modules are libraries of operators, and the module that owns the variables composes
them, as the C code composes the structs. `DecryptCtx` extends `EncryptCtx`
and adds the actions of decryption contexts to its next-state relation
(`EngineNext`): both kinds share the engine's id counter, the key cache, the
key states and `Destroy`, and tell their own `wait_done`, `finalize` and
`cleanup` apart by the kind the init stored (`Encrypts`, `Decrypts`), as the
code does through the function table.

### State

| Variable | Code |
|---|---|
| `ctx` | the live contexts, id -> the fields of `_mongocrypt_ctx_t` and `_mongocrypt_ctx_encrypt_t` that the control flow reads (`kb` is the context's broker) |
| `nextId` | the engine's id counter: ids are assigned in order and never reused |
| `cache_collinfo`, `cache_keys` | `crypt->cache_collinfo`, `crypt->cache_keys` |
| `sleep` | per caller thread: `awake`, asleep on the condition of a cache (`collinfo`, `keys`), or `woken` |

The field `replies` of a context counts the documents the caller fed in the
current state; it belongs to the caller and bounds the model.

### Actions

Each action is one call and models the whole call: guard from the state
dispatch and the early returns, effect from the assignments, cache updates
included. `EncryptInit` and `ExplicitEncryptInit` create the context and run
the init; `MongoOpCollinfo`, `MongoFeedCollinfo`, `MongoDoneCollinfo`,
`MongoFeedMarkings`, `MongoDoneMarkings`, `WaitDone`, `NextDependentCtxId`,
`Finalize` are the functions of the same names; `MongoOpKeys`,
`MongoFeedKeys`, `MongoDoneKeys`, `KmsDone` are the owner's fetch steps, from
the specification; a key document answers every entry of the broker that
names its key, by id or by name (`KeyDocArrived`), and when the caller
signals done the entries that were requested and not answered are settled
as not found (`KeyDocsDone`); `Destroy` runs `_cleanup` and releases the
broker's pending keys, in any state (an abort is a destroy before the
context finished).

`WaitDone` and `DecryptWaitDone` take a parameter `waits`, whether the wait
on the cache (`_mongocrypt_cache_wait`, `check_cache_and_wait`) succeeds, as
`KmsDone` takes the answer of the KMS: a wait that fails, on the way in or
on the way out of the sleep, fails the context through `_mongocrypt_ctx_fail`
and leaves the caches as they are (`WaitFailed`).

A blocking `wait_done` on the collinfo cache is two steps, going to sleep
and resuming after a change of the cache, because other contexts run in
between. On the key cache the broker looks at the cache and yields when
an entry is pending with another owner, as the specification describes
`check_cache_and_wait` (`WaitOnKeys`): the look and the going to sleep are
one step, the resuming another. Every other call holds the cache mutex for what it
does to a cache and is one step. Any change of a cache wakes all sleepers on
it (`SetCaches`).

An action that needs the outcome of a traversal or of the broker's look at
the cache binds it once (`\E b \in {...}`) after its guards, so that TLC
computes it once per step, also where it evaluates the action for fairness.

`DecryptInit` and `ExplicitDecryptInit` create a decryption context and
collect the keys of its ciphertexts; `DecryptWaitDone` and `DecryptFinalize`
are `_wait_done` and `_finalize` of `mongocrypt-ctx-decrypt.c`;
`_next_dependent_ctx_id` changes nothing and is the operator
`DecryptNextDependentCtxId`.

### The abstract specification and the refinements

`CacheDiscipline` is one cache seen from outside: `owner` and `published` per
key of the cache, and the `claim` every context has on every key (`none`,
`fetching`, `awaiting`, `held`). A context looks at keys it has no claim on
(`Ask`) and finds each published, free (it becomes the owner) or being
fetched by another context; a context that waits looks again at everything
it waits for (`Recheck`); the owner publishes values for some of its fetches
(`Publish`); a context leaves at any time and gives up the fetches it owns
(`Leave`). `EngineRefinesCache` instantiates it twice over the state of the
engine:

| Abstract | Collinfo cache | Key cache |
|---|---|---|
| `Keys`, `Values` | namespaces, collinfo replies | key references (ids and names), key ids |
| `owner[k]` | the owner of `cache_collinfo[k]` while it is pending | the owner of `cache_keys[k]` while it is pending |
| `published[k]` | the value of the pair once it is done | the same |
| `claim[c][k]` none | `c` is no automatic encryption context of namespace `k` | `c` has no broker entry for `k` |
| awaiting | `waiting_for_collinfo` | the entry is `added` and names another owner |
| held | `collinfo_state` is done, or `c` fetched and the pair is done | the entry is `decrypted` |
| fetching | `collinfo_owner` is `c` and the pair is not done | every other entry: the fetch steps of the owner |

`CollinfoCacheKeepsDiscipline` and `KeyCacheKeepsDiscipline` are
`CDSpec` under these mappings, checked as properties of the engine:
`EncryptInit` and the collecting of keys (at feed of the markings, at the
explicit inits, at the decryption inits) are `Ask`, `WaitDone` and
`DecryptWaitDone` are `Recheck`, `MongoFeedCollinfo` and `KmsDone` are
`Publish`, `Destroy` is `Leave`, and every other action leaves the abstract
state of that cache as it is. A marked command that names several keys asks
for all of them in one step, which is why `Ask` takes a set of keys.

Both properties are written out as `CDInit /\ [][UNCHANGED cdvars \/
CDNext]_cdvars`, which is `CDSpec` with the steps a cache does not see named
first: most steps of a context are such steps, and TLC then settles them
without trying the actions of the discipline.

### Abstractions

* A document is the sequence of its values; a value is plain, a marking (key
  reference, payload, whether it parses), a ciphertext (key UUID, payload),
  or an embedded document or array with values of its own. Field names are
  left out: the traversal does not look at them.
* The callbacks the code hands to the traversal are functions from leaves to
  leaves (`Transform`) or folds over `Leaves` that stop at the first failure;
  the subtype match (`TRAVERSE_MATCH_MARKING`, `TRAVERSE_MATCH_CIPHERTEXT`)
  is the test on the kind of leaf. The properties about documents
  (`ReadyHasKeys`, `OnlyMissingKeysStayEncrypted`) are stated with `ValuesIn`
  and `DecryptedUnder`, definitions over the document that do not go through
  `Leaves` and `Transform`.
* A reply is a record of what the code tests: whether it is BSON, its type,
  its validator, its flags, its result.
* Encryption is the constructor `Ciphertext(KeyUuid(k), v)`: an alternate name
  resolves to the UUID of its key, so by-name and by-id ciphertexts of one key
  are the same.
* `_finalize` reads `marked_cmd` also when nothing was stored in it;
  `Indeterminate` is what that read may produce.
* Error categories stand for the messages.
* In `DecryptCtx` a ciphertext blob is one the parser accepts (key UUID,
  payload), one it refuses (`Malformed`), or one whose payload does not
  decrypt (`Corrupt`). What the parser accepts is the subject of
  `CiphertextBlob`, on bytes, with the lengths the code has (19, 16).
* The decryption inits and `_finalize` turn a buffer into a document without
  looking at the result; of a buffer that is no document the traversal finds
  nothing or a blob that does not parse (`Read`, `Wrapped`).

### What is assumed of the code outside the sources

The broker, the caches and the base of the contexts are declared in the
sources and defined elsewhere. Where a property rests on what they do, the
model follows the specification, and these are the readings it takes:

* `_mongocrypt_ctx_init` checks the options against the options spec
  (`CtxInitOk`), `_mongocrypt_ctx_fail` sets ERROR and keeps the status
  (`Fail`); the header has their prototypes and the types only.
* `_mongocrypt_ctx_state_from_key_broker` always sets the state, to READY
  for a broker that has nothing to fetch or to wait for, an empty one
  included (the specification's no-op scenario). `mongocrypt_ctx_decrypt_init`
  sets NOTHING_TO_DO as a default just before it calls it
  (`mongocrypt-ctx-decrypt.c:340`, "TODO: remove"); were the call to leave the
  state alone for an empty broker, a document without ciphertexts would end
  in NOTHING_TO_DO and not in READY.
* The broker asks the key cache when an identifier is added
  (`BrokerAdd`), which is how "the first context to add becomes owner" is
  decided. The comment at `mongocrypt-ctx-encrypt.c:142` ("TODO: check if
  the key cache has the key") is about the context, which does not look at
  the cache itself and is not modelled as doing so.
* `check_cache_and_wait` looks at the cache and goes to sleep under the
  cache's mutex, in one step; `_mongocrypt_cache_wait` is a plain wait on
  the condition.
* `_mongocrypt_cache_add_copy` replaces a pair that is done, and refuses
  only a pair that is pending for another context (`MayAddCopy`).
* `mongocrypt_ctx_destroy` releases the pending pairs of the broker in the
  key cache, as `_cleanup` does those of the collinfo cache.
* A key vault may lack a key (`VaultKeys`). The driver feeds every key
  document the vault answers with before it signals done; an entry still
  requested then is settled as `not-found`, a status the specification's
  list does not have, and keeps no broker from being ready ("broker
  resolves only U1 ... context ends in DONE"). The entry keeps its owner,
  and the owner its pending pair of the key cache until it is destroyed:
  a dependent then takes the fetch over and asks the vault itself.

## 3. Runs

| Run | Configuration | Result |
|---|---|---|
| `encrypt_safety` | `EncryptSafety.cfg`: 2 contexts, 2 namespaces, keys `k1`, `k2`, name `n1` of `k1`, broker cap 2, 5 collinfo replies, 11 marking replies (four with markings inside embedded documents and arrays, one that names a key by its id and by its name), 4 messages, 6 option sets, both blocking modes, a vault with both keys; checked on `EngineRefinesCache`, without decryption contexts | passes; about 367 000 states |
| `encrypt_contended` | `EncryptContended.cfg`: 3 non-blocking contexts, 1 namespace, inputs that share key `k1`, two marked commands (one names `k1` once, one by id and by name), fair callers; checked on `EngineRefinesCache` | passes; about 115 000 states |
| `blocking_keys` | `EncryptBlockingKeys.cfg`: 3 blocking contexts, automatic with a local schema or explicit by `key_id`, the marked commands of `encrypt_contended`, fair callers | passes; about 57 000 states |
| `cache_hit_no_schema` | `EncryptCacheHitNoSchema.cfg` | `MarkingsNeedSchema` violated |
| `noop_finalize` | `EncryptNoOpFinalize.cfg` | `FinalizeReturnsCommand` violated |
| `explicit_failure` | `EncryptExplicitFailure.cfg` | `FailureMeansError` violated |
| `lost_wakeup` | `EncryptLostWakeup.cfg`: blocking callers, fair | `BlockingWaitersResume` violated |
| `ciphertext_parser` | `CiphertextBlob.cfg`: buffers of 0 to 24 bytes, first byte 0, 1, 2, 3, 6 or 255 | passes; 290 states |
| `decrypt_safety` | `DecryptSafety.cfg` on `EngineRefinesCache`: 2 contexts of any kind, a vault that has `k1` and not `k2`, 6 documents (three with nested ciphertexts), 8 messages, explicit encryption under either key, a marked command that names `k2` and, by name, `k1`, both blocking modes | passes; about 36 000 states |
| `collinfo_fed_twice` | `EncryptFedTwice.cfg`: 2 contexts, 1 namespace, `MaxReplies = 2` | `PublishedCollinfoPersists` violated |
| `stale_owner_id` | `EncryptStaleOwnerId.cfg`: the constants of `encrypt_contended`, with the first of its marked commands | `DependentIdNamesOwner` violated |
| `decrypt_wait_done` | `DecryptWaitDone.cfg`: 3 non-blocking contexts on one key, automatic decryption and explicit encryption, fair | `EncryptionFinishesBesideDecryption` violated |

### Properties that hold

* `TypeOK`: the shape of the state.
* `SingleFetcher`: at most one context per namespace is in
  NEED_MONGO_COLLINFO, and while the pair is pending it is the pair's owner.
* `OneFetchPerKey`: a broker entry that its context fetches itself is the
  pending pair of the key cache, owned by that context; so no key is fetched
  twice at once.
* `PendingOwnerIsLive`: every pending pair of either cache names a live
  context that knows it owns the pair.
* `ReadyHasKeys`: an automatic context in READY holds the decrypted key of
  every marking of its marked command, however deep the marking lies and
  whether it names the key by id or by name, unless the vault has no such
  key. In `encrypt_safety` the vault has every key; in `decrypt_safety` it
  lacks `k2`, and a context whose marked command names `k2` becomes READY
  without it and fails in `_finalize`.
* `ContextsAgreeWithCache`: a context that got its collinfo through the
  cache, as fetcher or as dependent, goes on with the schema of the published
  collinfo or fails the way that collinfo makes every context fail.
  `_mongo_feed_collinfo` publishes the reply before it validates it
  (`mongocrypt-ctx-encrypt.c:84`), so the collinfo of a view stays in the
  cache and fails every later context on the namespace, as it failed the
  fetcher; had the feed validated first, the fetcher would fail and leave a
  pending pair, and the contexts of the namespace would disagree.
* `PhaseMonotone` (action property): schema, markings, keys, ready, finished;
  no step takes a context to an earlier phase. The specification's linear
  order of states (WAITING after NEED_KMS) is not what the code does, and is
  not meant: a context waits in the schema phase too, and a dependent whose
  owner went away goes from WAITING to NEED_MONGO_COLLINFO. The phases are the
  order the code keeps.
* `ContextsFinish` (liveness): every context whose caller keeps driving it
  comes to DONE, NOTHING_TO_DO or ERROR, or is destroyed before. It says
  more than that a waiting context leaves WAITING: a dependent that takes a
  fetch over waits, fetches, and may wait again for another owner, and three
  contexts that hand fetches to each other must not go round for ever. It
  is checked twice. In `encrypt_contended` the callers do not block and
  meet in both caches, with the owner free to publish, to fail or to be
  destroyed at any point; one of the marked commands names `k1` by id and
  by name, so that a context ends only if the one key document it is fed
  answers both entries of its broker. In `blocking_keys` the callers block
  and meet in the key cache: no caller sleeps on a key that was published
  or given up before it went to sleep, because the broker looks and sleeps
  in one step (this rests on the specification's `check_cache_and_wait`,
  the broker's code being outside the sources). That is what the collinfo branch of `_wait_done` does not do
  (finding 4), which is why the blocking contexts of this run have a local
  schema and never wait for a collinfo. The runs have explicit contexts by
  `key_id` only; one by `key_alt_name` stays READY after a failed finalize
  (finding 3) and never finishes.

* `AcceptsExactlyWireFormat`, `FieldsTileTheBuffer` (`CiphertextBlob`): the
  parser accepts a buffer exactly when it has subtype 1 or 2, 16 bytes of
  key, a type byte and at least one byte of data; the views it hands out,
  put together, are the buffer.
* `EngineTypeOK`: the shape of the state with contexts of both kinds; a
  context without a kind is in ERROR.
* `OneFetchPerKey`, `PendingOwnerIsLive` over the engine: they hold with
  decryption contexts too, which add keys at init and may fail half way
  through a document.
* `OnlyMissingKeysStayEncrypted`: in the document an automatic decryption
  hands out, the ciphertexts left in place are exactly those whose key the
  vault does not have; every other ciphertext is replaced by its plaintext
  and every other value is where it was. This is the specification's law
  of partial decryption. `_replace_ciphertext_with_plaintext` leaves a
  ciphertext in place whenever the broker has no decrypted key for it
  (`mongocrypt-ctx-decrypt.c:103`), whatever the reason; the property
  says the only reason is the vault: init collected every key finalize
  looks up, and a context is READY only when every key of the vault among
  them is in its broker, whether it fetched the key, copied it from the
  cache, or took the fetch over from a context that was destroyed. In the
  run a document has `k1` twice and `k2` once, three levels deep, and
  comes out with `k1` decrypted and `k2` in place.

* `CollinfoCacheKeepsDiscipline`, `KeyCacheKeepsDiscipline`: the contexts
  implement `CacheDiscipline` on either cache: one fetcher per key, that
  context and no other; nothing published is being fetched or changed; a
  context holds only what is published. They are checked with two
  encryption contexts and all their inputs (`encrypt_safety`), with three
  contexts on one namespace and one key, where two dependents race for a
  fetch given up (`encrypt_contended`), and, the key cache, with contexts
  of both kinds on the same keys (`decrypt_safety`). For the collinfo
  cache they hold of callers that feed one document per fetch; finding 7
  is what a second document does.

Each property is paired in `PROJECT.json` with a fault seeded into a mapped
definition (written next to it in the module, marked `Fault:`) under which TLC
finds the property violated: no owner test or no flag reset in
`_try_collinfo_from_cache`, a key collected without the cache or not collected
for alternate names, a cleanup that keeps its pairs, a `wait_done` that does
not set the state, a `wait_done` that sleeps on the key cache before the
broker looked at it, a feed that validates the collinfo before it publishes
it.

### Findings

1. **Cache hit with an empty schema** (`mongocrypt-ctx-encrypt.c:374`). The
   context that fetched a collinfo without validator ends in NOTHING_TO_DO
   (`_mongo_done_collinfo`); a context that finds the same collinfo in the
   cache goes to NEED_MONGO_MARKINGS with an empty schema. The specification
   says NOTHING_TO_DO.
2. **No-op finalize** (`:275`). After a reply saying nothing needs encryption
   `marked_cmd` is unset, the context becomes READY, and `_finalize`
   transforms the unset buffer. The specification says it returns the original
   command.
3. **Explicit finalize failure** (`:316`). The failure is returned without
   `_mongocrypt_ctx_fail`; the context stays READY with an error status. It is
   reached by every explicit encryption by `key_alt_name`, since the made-up
   marking is keyed by `opts.key_id` alone (`:304`).
4. **Lost wakeup** (`:400`). The blocking wait does not look at the pair
   before it sleeps. TLC's trace: the owner is destroyed after the dependent
   went to WAITING and before the dependent calls `wait_done`; the dependent
   sleeps and nothing wakes it. This rests on the cache's wait being a plain
   wait on the condition, as the specification describes it.
5. **Decryption contexts never leave WAITING** (`mongocrypt-ctx-decrypt.c:243`).
   `_wait_done` returns after the broker looked at the key cache and does not
   set the state from the broker, as the `_wait_done` of an encryption
   context does. The run has three contexts that need `k1`, decryption
   contexts and explicit encryption contexts in any order. In TLC's
   counterexample (which context plays which part depends on the order in
   which TLC's workers explore) the owner of the pending pair is destroyed
   before it fetched the key while an encryption context and a decryption
   context wait for it; the `wait_done` of the decryption context takes the
   fetch over and leaves the context in WAITING, where no call fetches the
   key; the `wait_done` of the encryption context finds the pair pending
   for the decryption context, and from there on every call of either
   changes nothing. A decryption context stays in WAITING in the same way
   when the owner publishes the key. With a `_wait_done` that sets the
   state from the broker the property holds for the same inputs. This
   rests on `mongocrypt_ctx_wait_done` doing no more than calling the
   function of the kind.

6. **Stale dependent id** (`mongocrypt-ctx-encrypt.c:424`).
   `_next_dependent_ctx_id` hands out the owner that
   `_try_collinfo_from_cache` remembered. TLC's trace: the first context owns
   the pending pair, the second waits and remembers the first, the first is
   destroyed; the second still names the first, which no longer exists, as
   the context to run. A non-blocking caller that drives contexts by this id
   finds nothing to run; it gets on only by calling `wait_done` on the
   waiting context, which then takes the fetch over.

7. **A second collinfo document is published over the first**
   (`mongocrypt-ctx-encrypt.c:84`). `_mongo_feed_collinfo` hands every
   document it is fed to `_mongocrypt_cache_add_copy`, and the context is
   still in NEED_MONGO_COLLINFO after a feed. TLC's trace: a context owns
   the pair, is fed a collinfo without validator, which is published, and
   is fed a collinfo with a schema, which replaces it. A context that read
   the first in between goes on with a schema the cache no longer has. The
   specification lets a caller feed "zero or more replies" and says that
   published entries persist. This rests on `add_copy` replacing a pair
   that is done; if it refuses, the second feed fails the context that
   just published.

## 4. Bounds

* `MaxCtx`: contexts ever created. 2 gives owner and dependent with all
  inputs; 3 gives two dependents racing for a released pair.
* `MaxReplies`: documents a caller feeds per state, counted in `replies`.
  The code has no such limit: the guard `replies < MaxReplies` of the feeds
  is the caller's, not the context's. It is 1 in the runs that pass, since
  the filter names one collection, so `listCollections` returns at most one
  document, and a marking query has one reply; feeding none is allowed. It
  is 2 in `collinfo_fed_twice`, which shows what the code does with a
  second document (finding 7).
* `VaultKeys`: both keys in the encryption runs and in the runs of the
  findings, `k1` alone in `decrypt_safety`, where contexts of every kind
  ask for the key that is missing.
* `BrokerCap = 2` with a reply that names three keys reaches the broker's
  limit half way through a traversal.
* Two key ids and a name for one of them give distinct keys, the same key
  asked for twice, and a key asked for by id and by name: by two contexts,
  which then fetch it twice, since the key cache knows identifiers and not
  keys, and by one context, whose two broker entries one key document
  answers (`KeyDocArrived`).
* `CiphertextBlob`: `MaxLen = 24` is five bytes past the shortest blob; the
  lengths 17 to 20 are where an off-by-one shows. The bytes after the first
  tell their position, so two views that differ are different sequences.
* `decrypt_safety`: two contexts are an owner and a dependent of either
  kind; the documents have no ciphertext, two keys with one of them twice
  (in an array, and in a document inside that array), a blob that does not
  parse after an embedded document with one that does, and a payload that
  does not decrypt, inside an array.
* Documents nest to depth three; a marking or ciphertext lies before, inside
  and after an embedded document or array, which are the places where a
  traversal that does not recurse, or does not come back, loses one.
* `NoBlockModes`: both values in the safety runs. `encrypt_contended` has
  non-blocking callers only, since blocking callers that wait for a
  collinfo may sleep for ever (finding 4); `blocking_keys` has blocking
  callers only, on inputs that never wait for a collinfo.
* The liveness runs have three contexts: an owner and two dependents, so
  that a fetch given up is raced for and the loser waits a second time, for
  the winner.
* What did not fit the five minutes of a run: the engine of both kinds with
  three contexts and all inputs (3.0 million states and 18 million steps,
  against 36 000 states with two; TLC needs three minutes to generate
  them, before it checks any property). Three contexts of both kinds are
  checked on one key and one document (`decrypt_wait_done`).

Deadlock checking is off in the runs of the engine: once `MaxCtx` contexts
were created and destroyed the system has nothing to do, which is a
legitimate end, as is the parser's after its one step.

## 5. Fairness

`FairSpec` assumes, for every context, weak fairness of its caller's steps
with waits that succeed (`Step(c, TRUE)`) and of the destruction of a
finished context. This is the caller
protocol: a driver runs each context until it is DONE, ERROR or
NOTHING_TO_DO and then destroys it. Nothing obliges a caller to create a
context, and an unfinished context may be destroyed at any time but need not
be. No fairness is assumed of the replies: a reply may always be an error.
A wait may fail at any call, and no fairness makes it fail: were the
failing wait among the fair steps, a context that is stuck in WAITING would
have to fail in the end, and findings 4 and 5 would be hidden behind an
error the code cannot promise.
For a blocking caller `Step(c, TRUE)` is enabled only while the caller is awake or
was woken: a sleeping caller takes no step until a change of the cache wakes
it, and fairness does not wake it.

`ContextsFinish` is stated as "again and again, the context is finished or
gone": a finished context stays finished until it is destroyed and an
identifier is never used again, so this is the same as "from any moment on,
eventually", and TLC checks it with one automaton per context.

## 6. Not modelled

* A property about explicit decryption under a key the vault does not
  have. The model has the case: `_replace_ciphertext_with_plaintext` returns
  success without writing the value, the explicit `_finalize` appends it
  (`mongocrypt-ctx-decrypt.c:185`), and the context is DONE with what the
  unwritten value reads as (`Indeterminate`), where the specification makes
  a missing key a hard error of explicit decryption. Whether the case is
  reached depends on the broker reporting ready with a key missing, which
  the specification says in one place (partial decryption ends in DONE)
  and denies in another (ready is every entry decrypted); the sources do
  not decide it, and it is listed as a hazard without a property.
* A driver that signals done before it fed every key document the vault
  answered with.
* The key branch of `_next_dependent_ctx_id`
  (`_mongocrypt_key_broker_next_ctx_id`): the broker's iteration over its
  owners is outside the sources; `NextCtxId` gives the first owner.
* What a build does with `bson_value_destroy` of a value that a failed
  `_marking_to_bson_value` left unwritten (`mongocrypt-ctx-encrypt.c:312`),
  and with the traversal of a buffer that is no document
  (`mongocrypt-ctx-decrypt.c:330`): the second is a choice in the model
  (`Read`, `Wrapped`), the first depends on code outside the sources.
* Field names and the BSON layout of documents.
* The contents of key documents: a document is the UUID of its key, and
  names the alternate names the key vault (`KeyOfName`) gives that key.
* Algorithm, IV, key material, KMS messages, BSON encoding, logging.
* The data key context: only its struct is in
  `mongocrypt-ctx-private.h`, its functions are outside the sources and the
  specification leaves it out of scope.
* The round-trip laws (decrypting what was encrypted gives the value back):
  encryption is the constructor `Ciphertext` and decryption its inverse, so
  in the model the laws hold by definition and say nothing of the code.
  What the contexts contribute to them, that every marking is replaced and
  every ciphertext whose key there is decrypted, is `ReadyHasKeys` and
  `OnlyMissingKeysStayEncrypted`.
* What is left of the three source files outside the map: licence headers,
  includes, the struct of the data key context and prototypes.

## 7. Plan

1. `Cache`, `KeyBroker`, `EncryptCtx` with safety, liveness and the first
   four findings (done).
2. `CiphertextBlob` and `DecryptCtx` with the engine of both kinds (done).
3. `Traverse` over nested documents, used by both kinds of context (done).
4. `CacheDiscipline` and the refinements of both caches (done).
5. A UUID and an alternate name of one key in the broker, one key document
   answering both entries, under liveness (done).
6. Blocking callers on the key cache under liveness (done).
7. Three contexts of both kinds under fair callers: encryption contexts
   wait for ever on a decryption context (done, finding 5).
8. A key vault that lacks a key, partial decryption, and the failure paths
   of the waits (done).
9. A second document fed in NEED_MONGO_COLLINFO (done, finding 7).
10. Open, and out of reach of a run of five minutes: the engine of both
    kinds with three contexts and all inputs.

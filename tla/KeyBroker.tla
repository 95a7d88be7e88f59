----------------------------- MODULE KeyBroker -----------------------------
(***************************************************************************)
(* The per-context key broker: the set of key identifiers a context needs, *)
(* who fetches each of them, and the decrypted material once it is there.  *)
(* Identical identifiers asked for by several contexts resolve to one pair *)
(* of the engine-wide key cache: the first context to add the identifier   *)
(* owns the fetch, the others depend on it.  The broker's code is not      *)
(* among the repository's sources; the operators follow the written        *)
(* specification ("Key broker") and the calls the contexts make.           *)
(*                                                                         *)
(* A broker is a function from identifiers to entries.  An operation that  *)
(* also touches the key cache takes and returns a record                   *)
(* [kb, cache, status] so that calls can be chained.                       *)
(***************************************************************************)
EXTENDS Cache, FiniteSets

CONSTANTS KeyIds,      \* 16-byte key UUIDs
          AltNames,    \* alternate key names
          KeyOfName,   \* the key vault: the UUID of the key each name denotes
          VaultKeys,   \* the key vault: the keys it has a document of
          BrokerCap    \* most identifiers one broker accepts

KeyRefs == KeyIds \cup AltNames

ASSUME /\ KeyIds \cap AltNames = {}
       /\ KeyOfName \in [AltNames -> KeyIds]
       /\ VaultKeys \subseteq KeyIds
       /\ BrokerCap \in Nat \ {0}

\* The states of an entry, and "not-found" for an entry that was requested
\* of a key vault that has no document of the key ("broker resolves only
\* U1"; decrypted_key_by_id answers not-found).
EntryStatus == {"added", "requested", "kms-pending", "decrypted", "error",
                "not-found"}

NoEntry         == [status |-> "none", owner |-> NoCtx]
Entry(s, owner) == [status |-> s, owner |-> owner]
EmptyBroker     == [k \in KeyRefs |-> NoEntry]

Brokers == [KeyRefs -> {NoEntry} \cup [status : EntryStatus, owner : Nat]]

Entries(kb, S) == {k \in KeyRefs : kb[k].status \in S}

\* Identifiers this context must fetch itself, and those another context
\* is fetching for it.
Fetching(kb, id) == {k \in Entries(kb, {"added", "requested"}) : kb[k].owner = id}
Awaited(kb, id)  == {k \in Entries(kb, {"added"}) : kb[k].owner # id}

\* What a broker entry becomes on reading its pair of the key cache.
FromPair(pair) ==
    IF pair.state = "done" THEN Entry("decrypted", NoCtx)
                           ELSE Entry("added", pair.owner)

\* add_id / add_name: insert the identifier unless it is there already; the
\* first context to ask for it becomes the owner of its cache pair.
BrokerAdd(b, k, id) ==
    IF b.kb[k] # NoEntry THEN b
    ELSE IF Cardinality(Entries(b.kb, EntryStatus)) >= BrokerCap
         THEN [b EXCEPT !.status = "key-unavailable"]
    ELSE LET cache == GetOrCreate(b.cache, k, id)
         IN  [b EXCEPT !.cache = cache, !.kb[k] = FromPair(cache[k])]

\* check_cache_and_wait, the check: every awaited identifier is looked up
\* again.  A published key is copied, a pending one keeps its (possibly new)
\* owner, and one whose owner went away is taken over by this context.
CheckCache(b, id) ==
    LET again == Awaited(b.kb, id)
        cache == [k \in KeyRefs |->
                    IF k \in again THEN GetOrCreate(b.cache, k, id)[k]
                                   ELSE b.cache[k]]
    IN  [b EXCEPT !.cache = cache,
                  !.kb = [k \in KeyRefs |->
                            IF k \in again THEN FromPair(cache[k]) ELSE b.kb[k]]]

\* next_ctx_id: the owner of a dependency still pending, 0 if there is none.
NextCtxId(kb, id) ==
    IF Awaited(kb, id) = {} THEN NoCtx
    ELSE kb[CHOOSE k \in Awaited(kb, id) : TRUE].owner

\* The UUID of the key an identifier denotes; it stands for the key's
\* material wherever material is stored.
KeyUuid(k) == IF k \in AltNames THEN KeyOfName[k] ELSE k

\* decrypted_key_by_id / by name: is the key's material in the broker?
DecryptedKey(kb, k) == k \in KeyRefs /\ kb[k].status = "decrypted"

\* The key-fetch steps of the owner: the filter for the key vault is handed
\* out, a key document arrives, the KMS decrypts the documents that arrived
\* and the owner publishes them (or the KMS refuses).
RequestKeys(kb, id) ==
    [k \in KeyRefs |-> IF k \in Fetching(kb, id) THEN Entry("requested", id)
                                                ELSE kb[k]]

\* A key document names the UUID and the alternate names of its key: it
\* answers every identifier of that key the broker asked for, by id or by
\* name, which from then on are one key to the broker.
KeyDocArrived(kb, key, id) ==
    [k \in KeyRefs |-> IF KeyUuid(k) = key /\ kb[k] = Entry("requested", id)
                       THEN Entry("kms-pending", id) ELSE kb[k]]

\* The key vault has answered: what was requested and did not arrive is
\* not there.  The entry keeps its owner, and the owner its pending pair of
\* the key cache until it is destroyed.
KeyDocsDone(kb, id) ==
    [k \in KeyRefs |-> IF kb[k] = Entry("requested", id)
                       THEN Entry("not-found", id) ELSE kb[k]]

KmsDecrypted(b, ok) ==
    LET got == Entries(b.kb, {"kms-pending"})
    IN  IF ok
        THEN [b EXCEPT
                !.kb    = [k \in KeyRefs |-> IF k \in got
                             THEN Entry("decrypted", NoCtx) ELSE b.kb[k]],
                !.cache = [k \in KeyRefs |-> IF k \in got
                             THEN Done(KeyUuid(k)) ELSE b.cache[k]]]
        ELSE [b EXCEPT
                !.kb     = [k \in KeyRefs |-> IF k \in got
                              THEN Entry("error", b.kb[k].owner) ELSE b.kb[k]],
                !.status = "collaborator-error"]

\* The context state the broker's readiness calls for: own fetches come
\* first, then waiting for the fetches of others.  A key the vault does not
\* have keeps no broker from being ready.
BrokerPhase(kb, id) ==
    CASE Entries(kb, {"error"}) # {}       -> "ERROR"
      [] Fetching(kb, id) # {}             -> "NEED_MONGO_KEYS"
      [] Entries(kb, {"kms-pending"}) # {} -> "NEED_KMS"
      [] Awaited(kb, id) # {}              -> "WAITING"
      [] OTHER                             -> "READY"

=============================================================================

-------------------------- MODULE EngineRefinesCache --------------------------
(***************************************************************************)
(* The contexts implement the ownership discipline of CacheDiscipline,     *)
(* once on the collinfo cache and once on the key cache.  The mappings     *)
(* read the owner and the published value off the cache's pair, and the    *)
(* claim of a context off what the context itself remembers: the fields    *)
(* _try_collinfo_from_cache sets, and the entries of its key broker.       *)
(***************************************************************************)
EXTENDS MCDecryptCtx

OwnerOf(pair)     == IF pair.state = "pending" THEN pair.owner ELSE Nil
PublishedIn(pair) == IF pair.state = "done" THEN pair.value ELSE Nil

\* A context claims the one namespace it was initialised with, from its
\* first look at the cache on; its own fetch is held once it is published.
CollinfoClaim(c, ns) ==
    CASE ~Auto(c) \/ ctx[c].ns # ns    -> "none"
      [] ctx[c].waiting_for_collinfo   -> "awaiting"
      [] ctx[c].collinfo_state = "done" -> "held"
      [] ctx[c].collinfo_owner = c     ->
           IF cache_collinfo[ns].state = "done" THEN "held" ELSE "fetching"
      [] OTHER                         -> "none"

\* A context claims the keys of its broker: an entry another context
\* fetches is awaited, a decrypted one held, every other one its own fetch.
KeyClaim(c, k) ==
    CASE c \notin Live \/ ctx[c].kb[k] = NoEntry              -> "none"
      [] ctx[c].kb[k].status = "decrypted"                    -> "held"
      [] ctx[c].kb[k].status = "added" /\ ctx[c].kb[k].owner # c -> "awaiting"
      [] OTHER                                                -> "fetching"

CollinfoCD == INSTANCE CacheDiscipline WITH
        Contexts  <- Ctxs,
        Keys      <- Namespaces,
        Values    <- CollinfoReplies,
        None      <- Nil,
        owner     <- [ns \in Namespaces |-> OwnerOf(cache_collinfo[ns])],
        published <- [ns \in Namespaces |-> PublishedIn(cache_collinfo[ns])],
        claim     <- [c \in Ctxs |-> [ns \in Namespaces |-> CollinfoClaim(c, ns)]]

KeyCD == INSTANCE CacheDiscipline WITH
        Contexts  <- Ctxs,
        Keys      <- KeyRefs,
        Values    <- KeyIds,
        None      <- Nil,
        owner     <- [k \in KeyRefs |-> OwnerOf(cache_keys[k])],
        published <- [k \in KeyRefs |-> PublishedIn(cache_keys[k])],
        claim     <- [c \in Ctxs |-> [k \in KeyRefs |-> KeyClaim(c, k)]]

\* Every step of the contexts (init, feed, done, wait_done, destroy, in any
\* interleaving) is a step of the discipline on the collinfo cache or one
\* it does not see: _try_collinfo_from_cache makes a context fetcher only
\* of a pair it owns, _mongo_feed_collinfo publishes only the fetcher's
\* pair and only once, and _cleanup gives up exactly the pending pairs of
\* the context that leaves.  This is CDSpec of the collinfo cache, with the
\* steps that leave the cache's abstract state as it is, which most steps
\* of a context are, named before the steps of the discipline.
CollinfoCacheKeepsDiscipline ==
    /\ CollinfoCD!CDInit
    /\ [][UNCHANGED CollinfoCD!cdvars \/ CollinfoCD!CDNext]_(CollinfoCD!cdvars)

\* The same on the key cache, for contexts of both kinds: the keys
\* _collect_key_from_marking, _collect_key_from_ciphertext and the explicit
\* inits add are looked at once each, _wait_done looks again at every key
\* awaited and only at those, a context publishes at kms_done only keys it
\* fetched, and a context that is destroyed gives up its fetches.
KeyCacheKeepsDiscipline ==
    /\ KeyCD!CDInit
    /\ [][UNCHANGED KeyCD!cdvars \/ KeyCD!CDNext]_(KeyCD!cdvars)

=============================================================================

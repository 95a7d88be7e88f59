------------------------------- MODULE Cache -------------------------------
(***************************************************************************)
(* The engine-wide cache discipline shared by the namespace->collinfo      *)
(* cache and the key cache: one pair per key, either pending (being        *)
(* fetched by exactly one owner context) or done (published, no owner).    *)
(* The cache's code is not among the repository's sources; the operators   *)
(* follow the written specification (data model, "Cache entry") and the    *)
(* way mongocrypt-ctx-encrypt.c calls them.  A cache is a function from    *)
(* its keys to pairs; the modules that hold one keep it in a variable.     *)
(***************************************************************************)
EXTENDS Naturals

CONSTANT Nil          \* the empty buffer / NULL pointer

NoCtx == 0            \* context ids start at 1; 0 names no context

Absent       == [state |-> "absent",  owner |-> NoCtx, value |-> Nil]
Pending(id)  == [state |-> "pending", owner |-> id,    value |-> Nil]
Done(value)  == [state |-> "done",    owner |-> NoCtx, value |-> value]

Pairs(Values, Ids) ==
    {Absent} \cup {Pending(id) : id \in Ids} \cup {Done(v) : v \in Values}

EmptyCache(Keys) == [k \in Keys |-> Absent]

\* _mongocrypt_cache_get_or_create: a missing pair is created pending and
\* owned by the caller; an existing pair is left as it is.  The caller reads
\* the pair's state, owner and value from the result.
GetOrCreate(cache, key, id) ==
    IF cache[key] = Absent THEN [cache EXCEPT ![key] = Pending(id)] ELSE cache

\* Only the owner of a pending pair may publish it.
MayAddCopy(cache, key, id) ==
    cache[key].state = "pending" => cache[key].owner = id

\* _mongocrypt_cache_add_copy: publish a value; the pair loses its owner.
AddCopy(cache, key, value) == [cache EXCEPT ![key] = Done(value)]

\* _mongocrypt_cache_remove_by_owner: drop the pending pairs of a context;
\* published pairs stay.
RemoveByOwner(cache, id) ==
    [k \in DOMAIN cache |-> IF cache[k] = Pending(id) THEN Absent ELSE cache[k]]

=============================================================================

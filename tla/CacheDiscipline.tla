--------------------------- MODULE CacheDiscipline ---------------------------
(***************************************************************************)
(* What the engine's caches promise to the contexts that use them, the     *)
(* collinfo cache and the key cache alike: what a key of the cache stands  *)
(* for is fetched by one context at a time and published once; a context   *)
(* that finds a fetch under way waits and looks again; a fetcher that      *)
(* leaves gives its fetches up.  This is the ownership discipline of the   *)
(* specification ("Cache entry", "Deduplication rule", "Cancellation"),    *)
(* without the contexts' other business: of a context only its claim on    *)
(* each key is kept.                                                       *)
(***************************************************************************)
CONSTANTS Contexts,     \* context ids
          Keys,         \* keys of the cache: namespaces, key identifiers
          Values,       \* what can be published
          None          \* no context, no value

VARIABLES owner,        \* key -> the context that fetches it, or None
          published,    \* key -> the value published, or None
          claim         \* context -> key -> what the context is to the key

cdvars == <<owner, published, claim>>

Claims == {"none", "fetching", "awaiting", "held"}

CDInit ==
    /\ owner = [k \in Keys |-> None]
    /\ published = [k \in Keys |-> None]
    /\ claim = [c \in Contexts |-> [k \in Keys |-> "none"]]

\* What a context finds when it looks at a key: the value published, a
\* fetch that is or becomes its own, or the fetch of another context.
Found(c, k) ==
    CASE published[k] # None                          -> "held"
      [] published[k] = None /\ owner[k] \in {None, c} -> "fetching"
      [] OTHER                                        -> "awaiting"

Look(c, K) ==
    /\ UNCHANGED published
    /\ owner' = [k \in Keys |->
                   IF k \in K /\ Found(c, k) = "fetching" THEN c ELSE owner[k]]
    /\ claim' = [claim EXCEPT ![c] =
                   [k \in Keys |-> IF k \in K THEN Found(c, k) ELSE @[k]]]

\* A context asks for keys it had no claim on.
Unclaimed(c) == {k \in Keys : claim[c][k] = "none"}
Ask(c, K)    == K \subseteq Unclaimed(c) /\ Look(c, K)

\* A context that waits looks again at everything it waits for.
Recheck(c) == Look(c, {k \in Keys : claim[c][k] = "awaiting"})

Claimed(c) == Keys \ Unclaimed(c)

\* The fetcher publishes some of what it fetched: v gives the values.
Fetched(c) == {k \in Keys : claim[c][k] = "fetching" /\ owner[k] = c}
Publish(c, v) ==
    /\ DOMAIN v \subseteq Fetched(c)
    /\ published' = [k \in Keys |-> IF k \in DOMAIN v THEN v[k] ELSE published[k]]
    /\ owner' = [k \in Keys |-> IF k \in DOMAIN v THEN None ELSE owner[k]]
    /\ claim' = [claim EXCEPT ![c] =
                   [k \in Keys |-> IF k \in DOMAIN v THEN "held" ELSE @[k]]]

\* A context leaves at any time, and gives up the fetches it owns.
Leave(c) ==
    /\ UNCHANGED published
    /\ owner' = [k \in Keys |-> IF owner[k] = c THEN None ELSE owner[k]]
    /\ claim' = [claim EXCEPT ![c] = [k \in Keys |-> "none"]]

CDNext ==
    \E c \in Contexts :
        \/ \E K \in SUBSET Unclaimed(c) : Ask(c, K)
        \/ Recheck(c)
        \/ Leave(c)
        \/ \E K \in SUBSET Claimed(c) : \E v \in [K -> Values] : Publish(c, v)

CDSpec == CDInit /\ [][CDNext]_cdvars

=============================================================================

---------------------------- MODULE MCEncryptCtx ----------------------------
(* EncryptCtx for TLC: the inputs callers and collaborators hand in. *)
EXTENDS EncryptCtx, TLC

CONSTANTS k1, k2, n1, s1, v1

MCNamespaces == {<<"db", "a">>, <<"db", "b">>}
MCKeyOfName  == n1 :> k1

\* listCollections answers: unreadable, a view, a collection without a
\* validator, one with a schema, one whose $jsonSchema is no document.
Collinfo(type, validator, schema) ==
    [bson |-> TRUE, type |-> type, validator |-> validator, schema |-> schema]

MCCollinfoReplies ==
    { [Collinfo("collection", "none", Nil) EXCEPT !.bson = FALSE],
      Collinfo("view", "document", s1),
      Collinfo("collection", "none", Nil),
      Collinfo("collection", "document", s1),
      Collinfo("collection", "scalar", Nil) }

\* Marking replies: unreadable, nothing to encrypt (two ways), no result,
\* a result that is no document, and marked commands that name one key,
\* a key and the alternate name of another (in an array of an embedded
\* document), more keys than a broker takes, no key, a key by its id and
\* by its name, and a marking that does not parse (in an array, after one
\* that does).
Marked(result, doc) ==
    [bson |-> TRUE, schemaRequiresEncryption |-> TRUE,
     hasEncryptedPlaceholders |-> TRUE, result |-> result, doc |-> doc]

MCMarkingReplies ==
    { [Marked("none", << >>) EXCEPT !.bson = FALSE],
      [Marked("none", << >>) EXCEPT !.schemaRequiresEncryption = FALSE],
      [Marked("none", << >>) EXCEPT !.hasEncryptedPlaceholders = FALSE],
      Marked("none", << >>),
      Marked("scalar", << >>),
      Marked("document", <<Plain(v1)>>),
      Marked("document", <<Marking(k1, v1), Plain(v1)>>),
      Marked("document", <<Plain(v1), Document(<<Marking(n1, v1),
                                     Array(<<Plain(v1), Marking(k2, v1)>>)>>)>>),
      Marked("document", <<Document(<<Marking(k1, v1)>>), Marking(k2, v1),
                           Array(<<Marking(n1, v1)>>)>>),
      Marked("document", <<Marking(k1, v1), Document(<<Marking(n1, v1)>>)>>),
      Marked("document", <<Marking(k1, v1), Array(<<BadMarking>>)>>) }

MCMessages ==
    { [data |-> FALSE, bson |-> FALSE, v |-> Nil],
      [data |-> TRUE,  bson |-> FALSE, v |-> Nil],
      [data |-> TRUE,  bson |-> TRUE,  v |-> Nil],
      [data |-> TRUE,  bson |-> TRUE,  v |-> v1] }

\* Options: none, a local schema, a key id or an alternate name with an
\* algorithm, a key id without one, a master key.
NoOpts == [masterkey |-> FALSE, local_schema |-> Nil, key_id |-> Nil,
           key_alt_name |-> Nil, iv |-> FALSE, algorithm |-> FALSE]

MCEncryptOpts ==
    { NoOpts,
      [NoOpts EXCEPT !.local_schema = s1],
      [NoOpts EXCEPT !.key_id = k1, !.algorithm = TRUE],
      [NoOpts EXCEPT !.key_alt_name = n1, !.algorithm = TRUE, !.iv = TRUE],
      [NoOpts EXCEPT !.key_id = k2],
      [NoOpts EXCEPT !.masterkey = TRUE] }

\* Three contexts that contend for one namespace and one key: the inputs
\* are cut down to those that make contexts meet in the caches.
MCOneNamespace == {<<"db", "a">>}

MCContendedCollinfoReplies ==
    { Collinfo("collection", "none", Nil), Collinfo("collection", "document", s1) }

MCContendedMessages == { [data |-> TRUE, bson |-> TRUE, v |-> v1] }

MCContendedOpts == { NoOpts, [NoOpts EXCEPT !.key_id = k1, !.algorithm = TRUE] }

MCOneMarkingReply == { Marked("document", <<Marking(k1, v1), Plain(v1)>>) }

\* Three blocking callers that meet in the key cache only: automatic
\* contexts with a local schema, whose marked command names one key by its
\* id and by its alternate name, and explicit contexts on the same key.
MCKeysOnlyOpts == { [NoOpts EXCEPT !.local_schema = s1],
                    [NoOpts EXCEPT !.key_id = k1, !.algorithm = TRUE] }

MCIdAndNameReply == { Marked("document", <<Marking(k1, v1), Marking(n1, v1)>>) }

MCContendedMarkingReplies == MCOneMarkingReply \cup MCIdAndNameReply

=============================================================================

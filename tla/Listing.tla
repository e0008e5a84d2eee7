------------------------------- MODULE Listing -------------------------------
(***************************************************************************)
(* A client lists a bucket page by page while other requests add and       *)
(* remove keys, or remove the bucket: list_objects of the S3 front end     *)
(* (src/src/s3/list.rs) over the range query of the metadata store         *)
(* (db/object.rs) and key_successor (model.rs).  One page takes several    *)
(* queries, each of which sees another state of the store; the only thing  *)
(* that ties the pages together is the cursor the client sends back.       *)
(*                                                                         *)
(* Data abstraction: a string is a sequence of characters 0..MaxChar,      *)
(* numbered in code-point order without the surrogates, so MaxChar is      *)
(* char::MAX.  Of an entry only the key matters.  An item of a page is a   *)
(* key (Contents) or a group of keys (CommonPrefixes), in the order in     *)
(* which the code finds them.                                              *)
(*                                                                         *)
(* Versions 1 and 2 of the API differ in the name of the cursor (NextMarker*)
(* and marker, NextContinuationToken and continuation-token); the token is *)
(* the Base64 form of the cursor and is decoded before use.                *)
(***************************************************************************)
EXTENDS Naturals, Sequences, FiniteSets, SequencesExt

CONSTANTS MaxChar,        \* the greatest character
          Keys,           \* keys that may exist
          Query,          \* the parameters of a listing
          ScanBatchSize,  \* SCAN_BATCH_SIZE
          MaxEvents       \* writes of others and lost pages, per listing

String == Seq(0..MaxChar)

ASSUME CharAssumption == MaxChar \in Nat /\ MaxEvents \in Nat
ASSUME KeysAssumption == Keys \subseteq String \ {<<>>}
ASSUME QueryAssumption ==
    Query \subseteq [prefix : String, delimiter : String, maxKeys : Nat, start : String]
ASSUME BatchAssumption == ScanBatchSize \in Nat \ {0}

VARIABLES bucket,    \* the bucket exists
          objects,   \* its keys
          listing,   \* the request for the current page
          listed,    \* the items of the pages the client has received
          always,    \* keys that existed all the time since the listing began
          ever,      \* keys that existed at some time since then
          events     \* writes and lost pages since then

listVars == <<bucket, objects, listing, listed, always, ever, events>>

\* Neither a successor nor a common prefix is the empty string.
None == <<>>

\* str::cmp, and the BINARY collation of SQLite
Before(s, t) ==
    \E n \in 0..Len(s) : /\ n < Len(t)
                         /\ \A i \in 1..n : s[i] = t[i]
                         /\ n < Len(s) => s[n + 1] < t[n + 1]

\* Drop the trailing characters that have no successor, raise the next one.
KeySuccessor(s) ==
    LET raisable == {i \in 1..Len(s) : s[i] < MaxChar}
        last == CHOOSE i \in raisable : \A j \in raisable : j <= i
    IN  IF raisable = {} THEN None
        ELSE Append(SubSeq(s, 1, last - 1), s[last] + 1)

\* Everything up to the first delimiter behind the prefix
CommonPrefix(key, prefix, delimiter) ==
    LET rest == IF IsPrefix(prefix, key)
                THEN SubSeq(key, Len(prefix) + 1, Len(key)) ELSE key
        found == {i \in 1..Len(rest) : IsPrefix(delimiter, SubSeq(rest, i, Len(rest)))}
        first == CHOOSE i \in found : \A j \in found : i <= j
    IN  IF delimiter = <<>> \/ found = {} THEN None
        ELSE prefix \o SubSeq(rest, 1, first + Len(delimiter) - 1)

InBound(key, lower, inclusive) == Before(lower, key) \/ (inclusive /\ key = lower)

\* Mutant: no upper bound is taken from the prefix.
QueryKeys_nobound(prefix, lower, inclusive, limit) ==
    LET raised == Before(lower, prefix)
        from == IF raised THEN prefix ELSE lower
        keys == {k \in objects : InBound(k, from, raised \/ inclusive)}
        size == Cardinality(keys)
    IN  [i \in 1..(IF limit < size THEN limit ELSE size) |->
            CHOOSE k \in keys : Cardinality({j \in keys : Before(j, k)}) = i - 1]

\* Database::list_objects: at most limit keys with the prefix, in order, from
\* the lower bound on
QueryKeys(prefix, lower, inclusive, limit) ==
    LET raised == Before(lower, prefix)
        from == IF raised THEN prefix ELSE lower
        upper == IF prefix = <<>> THEN None ELSE KeySuccessor(prefix)
        keys == {k \in objects : /\ InBound(k, from, raised \/ inclusive)
                                 /\ upper = None \/ Before(k, upper)}
        size == Cardinality(keys)
    IN  [i \in 1..(IF limit < size THEN limit ELSE size) |->
            CHOOSE k \in keys : Cardinality({j \in keys : Before(j, k)}) = i - 1]

Key(name) == [kind |-> "key", name |-> name]
Group(name) == [kind |-> "group", name |-> name]

\* Mutant: the page is full one entry too late.
Full_above(l) == Len(l.page) > l.maxKeys

Full(l) == Len(l.page) >= l.maxKeys

\* The request for the page behind `after`, with the variables of list_objects
\* before its loop
PageRequest(q, state, after) ==
    [state |-> state, prefix |-> q.prefix, delimiter |-> q.delimiter,
     maxKeys |-> q.maxKeys, start |-> q.start, floor |-> after, lower |-> after,
     inclusive |-> FALSE, batch |-> <<>>, last |-> FALSE, page |-> <<>>,
     cursor |-> None, truncated |-> FALSE]

\* What list_objects has found out when it has seen one more key: the key
\* itself, or a group, which it passes as a whole if there is a bound for it.
\* The page is what the code keeps in contents, common_prefixes and seen.
WithKey(l, key) ==
    [l EXCEPT !.page = Append(@, Key(key)), !.lower = key,
              !.inclusive = FALSE, !.cursor = key]

\* Mutant: a group of an earlier page is emitted again.
WithGroup_nofloor(l, key, common, bound) ==
    [l EXCEPT !.page = IF Group(common) \in Range(@) THEN @ ELSE Append(@, Group(common)),
              !.lower = IF bound = None THEN key ELSE bound,
              !.inclusive = bound # None, !.cursor = common]

WithGroup(l, key, common, bound) ==
    [l EXCEPT !.page = IF Before(l.floor, common) /\ Group(common) \notin Range(@)
                       THEN Append(@, Group(common)) ELSE @,
              !.lower = IF bound = None THEN key ELSE bound,
              !.inclusive = bound # None, !.cursor = common]

Ended == {"done", "failed"}

\* The client has sent the request for the first page.
ListInit ==
    /\ bucket = TRUE
    /\ objects \in {S \in SUBSET Keys : IsFiniteSet(S)}
    /\ \E q \in Query : listing = PageRequest(q, "check", q.start)
    /\ listed = <<>>
    /\ always = objects /\ ever = objects /\ events = 0

-----------------------------------------------------------------------------

\* bucket_exists, and a page that asks for nothing
CheckBucket ==
    /\ listing.state = "check"
    /\ listing' = [listing EXCEPT !.state = CASE ~bucket -> "failed"
                                              [] bucket /\ listing.maxKeys = 0 -> "page"
                                              [] OTHER -> "scan"]
    /\ UNCHANGED <<bucket, objects, listed, always, ever, events>>

\* Mutant: every round scans from the marker again.
ScanBatch_fromfloor ==
    /\ listing.state = "scan"
    /\ LET keys == QueryKeys(listing.prefix, listing.floor, FALSE, ScanBatchSize)
       IN  listing' = [listing EXCEPT !.state = "entries", !.batch = keys,
                                      !.last = Len(keys) < ScanBatchSize]
    /\ UNCHANGED <<bucket, objects, listed, always, ever, events>>

\* The query of one round of 'scan; a short batch is the last one.
ScanBatch ==
    /\ listing.state = "scan"
    /\ LET keys == QueryKeys(listing.prefix, listing.lower, listing.inclusive, ScanBatchSize)
       IN  listing' = [listing EXCEPT !.state = "entries", !.batch = keys,
                                      !.last = Len(keys) < ScanBatchSize]
    /\ UNCHANGED <<bucket, objects, listed, always, ever, events>>

\* The for loop over the batch leaves out what an earlier key has seeked past,
\* and ends when the page is full.
ScanEntry ==
    /\ listing.state = "entries" /\ listing.batch # <<>>
    /\ LET key == Head(listing.batch)
           common == CommonPrefix(key, listing.prefix, listing.delimiter)
           rest == [listing EXCEPT !.batch = Tail(@)]
       IN  \/ /\ ~InBound(key, listing.lower, listing.inclusive)
              /\ listing' = rest
           \/ /\ InBound(key, listing.lower, listing.inclusive)
              /\ \E l \in {IF common = None THEN WithKey(rest, key)
                           ELSE WithGroup(rest, key, common, KeySuccessor(common))} :
                     listing' = IF Full(l) THEN [l EXCEPT !.state = "limit", !.batch = <<>>] ELSE l
    /\ UNCHANGED <<bucket, objects, listed, always, ever, events>>

\* Mutant: the first batch is taken for the last.
EndBatch_short ==
    /\ listing.state = "entries" /\ listing.batch = <<>>
    /\ listing' = [listing EXCEPT !.state = "page"]
    /\ UNCHANGED <<bucket, objects, listed, always, ever, events>>

EndBatch ==
    /\ listing.state = "entries" /\ listing.batch = <<>>
    /\ listing' = [listing EXCEPT !.state = IF listing.last THEN "page" ELSE "scan"]
    /\ UNCHANGED <<bucket, objects, listed, always, ever, events>>

\* The page is full: is there anything behind it?
CheckTruncated ==
    /\ listing.state = "limit"
    /\ listing' = [listing EXCEPT !.state = "page",
                      !.truncated = QueryKeys(listing.prefix, listing.lower,
                                              listing.inclusive, 1) # <<>>]
    /\ UNCHANGED <<bucket, objects, listed, always, ever, events>>

\* The client receives the page; it asks for the next one as long as
\* IsTruncated is set, from the cursor on.
ReceivePage ==
    /\ listing.state = "page"
    /\ listed' = listed \o listing.page
    /\ listing' = IF listing.truncated
                  THEN PageRequest(listing, "check", listing.cursor)
                  ELSE PageRequest(listing, "done", listing.floor)
    /\ UNCHANGED <<bucket, objects, always, ever, events>>

\* The page is lost and the client asks for it again.
LosePage ==
    /\ listing.state = "page" /\ events < MaxEvents
    /\ listing' = PageRequest(listing, "check", listing.floor)
    /\ events' = events + 1
    /\ UNCHANGED <<bucket, objects, listed, always, ever>>

-----------------------------------------------------------------------------
(* Other requests *)

\* While a batch is gone through nothing shared is read: what happens then
\* might as well happen after it.
Meanwhile == /\ listing.state \notin Ended \cup {"entries"}
             /\ events < MaxEvents
             /\ events' = events + 1
             /\ UNCHANGED <<listing, listed>>

PutKey(k) ==
    /\ Meanwhile
    /\ bucket /\ k \notin objects
    /\ objects' = objects \cup {k} /\ ever' = ever \cup {k}
    /\ UNCHANGED <<bucket, always>>

DeleteKey(k) ==
    /\ Meanwhile
    /\ k \in objects
    /\ objects' = objects \ {k} /\ always' = always \ {k}
    /\ UNCHANGED <<bucket, ever>>

DeleteEmptyBucket ==
    /\ Meanwhile
    /\ bucket /\ objects = {}
    /\ bucket' = FALSE
    /\ UNCHANGED <<objects, always, ever>>

RecreateBucket ==
    /\ Meanwhile
    /\ ~bucket
    /\ bucket' = TRUE
    /\ UNCHANGED <<objects, always, ever>>

PageSteps == CheckBucket \/ ScanBatch \/ ScanEntry \/ EndBatch \/ CheckTruncated \/ ReceivePage

ListNext ==
    \/ PageSteps
    \/ LosePage
    \/ \E k \in Keys : PutKey(k) \/ DeleteKey(k)
    \/ DeleteEmptyBucket \/ RecreateBucket

\* The server works on a request it has, and the client reads its pages.
ListSpec == ListInit /\ [][ListNext]_listVars /\ WF_listVars(PageSteps)

-----------------------------------------------------------------------------
(* Properties *)

Item == [kind : {"key", "group"}, name : String]

Request ==
    [state : Ended \cup {"check", "scan", "entries", "limit", "page"},
     prefix : String, delimiter : String, maxKeys : Nat, start : String,
     floor : String, lower : String, inclusive : BOOLEAN, batch : Seq(Keys),
     last : BOOLEAN, page : Seq(Item), cursor : String, truncated : BOOLEAN]

ListingTypeOK ==
    /\ bucket \in BOOLEAN /\ objects \subseteq Keys /\ IsFiniteSet(objects)
    /\ always \subseteq objects /\ objects \subseteq ever /\ ever \subseteq Keys
    /\ events \in 0..MaxEvents
    /\ listed \in Seq(Item)
    /\ listing \in Request
    /\ Len(listing.page) <= listing.maxKeys
    /\ listing.truncated => listing.state = "page" /\ Full(listing)

\* What the client has, and what the page under way adds to it
Shown == listed \o listing.page

\* A key of the bucket that the client asked for
Asked(k) == IsPrefix(listing.prefix, k) /\ Before(listing.start, k)

\* The item under which a key is listed
ItemOf(k) ==
    LET common == CommonPrefix(k, listing.prefix, listing.delimiter)
    IN  IF common = None THEN Key(k) ELSE Group(common)

\* Nothing is listed twice and everything is in order, over all pages:
\* list_objects skips the group its cursor stands for (floor, seen), whatever
\* was added to or removed from it since.
ListedInOrder ==
    \A i, j \in DOMAIN Shown : i < j => Before(Shown[i].name, Shown[j].name)

\* A key that exists from the beginning of the listing to its end is in it,
\* as itself or in its group; and when the client has a page with a cursor,
\* nothing at or before the cursor is missing.  (A group at or before
\* start-after is not listed, even if it has keys behind it; a request for
\* no keys gets none and is told that there are no more.)
StableKeysListed ==
    \A k \in always :
        LET item == ItemOf(k)
            passed == \/ listing.state = "done"
                      \/ listing.state \in {"check", "scan", "entries", "limit"} /\ ~Before(listing.floor, item.name)
        IN  (/\ Asked(k) /\ Before(listing.start, item.name)
             /\ listing.maxKeys > 0 /\ passed)
                => item \in Range(Shown)

\* What is listed existed while the listing went on: a key that was asked for
\* and is not part of a group, or the group of such a key.
ListedExisted ==
    \A i \in DOMAIN Shown : \E k \in ever : Asked(k) /\ ItemOf(k) = Shown[i]

\* The inductive invariant: the part of the bucket before the floor is in the
\* pages that were received, the part from there to the lower bound is in the
\* page under way, and the rest is yet to be found.
UpTo(s, t) == s = t \/ Before(s, t)

Ascending(items) ==
    \A i, j \in DOMAIN items : i < j => Before(items[i].name, items[j].name)

\* A name that is not ahead of the lower bound
Behind(name, l) == UpTo(name, l.lower) /\ (l.inclusive => Before(name, l.lower))

BoundsOrdered ==
    /\ UpTo(listing.start, listing.floor) /\ Behind(listing.floor, listing)
    /\ Ascending(listed) /\ Ascending(listing.page)
    /\ listing.state # "done" => \A i \in DOMAIN listed : UpTo(listed[i].name, listing.floor)
    /\ \A i \in DOMAIN listing.page : /\ Before(listing.floor, listing.page[i].name)
                                      /\ Behind(listing.page[i].name, listing)

ItemsExisted ==
    \A item \in Range(listed) \cup Range(listing.page) :
        \E k \in ever : Asked(k) /\ ItemOf(k) = item

BatchSelected ==
    /\ listing.batch # <<>> => listing.state = "entries"
    /\ \A i \in DOMAIN listing.batch :
          /\ listing.batch[i] \in ever /\ IsPrefix(listing.prefix, listing.batch[i])
          /\ \A j \in DOMAIN listing.batch : i < j => Before(listing.batch[i], listing.batch[j])

CursorOK ==
    /\ listing.state \in {"check", "done"} => listing.page = <<>>
    /\ listing.state \in {"scan", "entries"} => ~Full(listing)
    /\ listing.state = "limit" \/ listing.truncated =>
          /\ Full(listing) /\ listing.maxKeys > 0
          /\ listing.cursor = listing.page[Len(listing.page)].name

KeptKey(k, item) ==
    LET ahead == InBound(k, listing.lower, listing.inclusive)
        passed == item \in Range(listed)
        onPage == item \in Range(listing.page)
    IN  /\ listing.state # "done" /\ UpTo(item.name, listing.floor) => passed
        /\ ~ahead /\ Before(listing.floor, item.name) => onPage
        /\ listing.state = "entries" /\ ahead =>
              \/ k \in Range(listing.batch)
              \/ ~listing.last /\ \A i \in DOMAIN listing.batch : Before(listing.batch[i], k)
        /\ listing.state = "page" /\ ~listing.truncated => passed \/ onPage
        /\ listing.state = "done" => passed

KeysKept ==
    \A k \in always :
        Asked(k) /\ Before(listing.start, ItemOf(k).name) /\ listing.maxKeys > 0
            => KeptKey(k, ItemOf(k))

ListingInv ==
    ListingTypeOK /\ BoundsOrdered /\ ItemsExisted /\ BatchSelected /\ CursorOK /\ KeysKept

\* A listing goes forward: a page with IsTruncated has a cursor behind the one
\* that was sent for it; and while a page is made up, what the loop of
\* list_objects has gone through is behind the bound of every later query, as
\* itself or with its whole group (else it would go through it for ever).
ListingAdvances ==
    [][/\ listed' # listed /\ listing'.state # "done" => Before(listing.floor, listing'.floor)
       /\ listing.state = "entries" /\ listing.batch # <<>> =>
            ~InBound(Head(listing.batch), listing'.lower, listing'.inclusive)
       /\ listing'.state \notin {"check", "done"} =>
            \A k \in Keys : InBound(k, listing'.lower, listing'.inclusive)
                               => InBound(k, listing.lower, listing.inclusive)]_listVars

\* A listing comes to its end although the bucket changes under it: every
\* page that is not the last has a cursor behind the one before.
ListingEnds == listing.state \notin Ended ~> listing.state \in Ended

=============================================================================

---------------------------- MODULE ObjectStore ----------------------------
(***************************************************************************)
(* What tg2s3 promises its S3 clients about object data, free of buckets,  *)
(* uploads, block rows and garbage: an object appears whole or not at all, *)
(* with data that was uploaded for it and for no other commit, and changes *)
(* only by being written, copied or deleted.                               *)
(***************************************************************************)
CONSTANTS Key, Data,      \* object keys; the units of data clients upload
          NoContent       \* the content of a key without an object

VARIABLES content,        \* per key, the data of its object
          spent           \* data that some write has committed

vars == <<content, spent>>

TypeOK ==
    /\ content \in [Key -> SUBSET Data \cup {NoContent}]
    /\ spent \in SUBSET Data

Init ==
    /\ content = [k \in Key |-> NoContent]
    /\ spent = {}

\* A PUT or a completed multipart upload.
Write(k, data) ==
    /\ data \cap spent = {}
    /\ spent' = spent \cup data
    /\ content' = [content EXCEPT ![k] = data]

Remove(k) ==
    /\ content[k] # NoContent
    /\ UNCHANGED spent
    /\ content' = [content EXCEPT ![k] = NoContent]

\* The destination gets the data the source has at that moment.
Copy(src, dst) ==
    /\ content[src] # NoContent
    /\ UNCHANGED spent
    /\ content' = [content EXCEPT ![dst] = content[src]]

Next == \E k \in Key :
    \/ Remove(k)
    \/ \E data \in SUBSET Data : Write(k, data)
    \/ \E src \in Key : Copy(src, k)

Spec == Init /\ [][Next]_vars

============================================================================

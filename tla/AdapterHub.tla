----------------------------- MODULE AdapterHub -----------------------------
(***************************************************************************)
(* The adapter hub (cei/server/adapter_hub_servicer.py over the            *)
(* dictionary of cei/adapters.py).  Workers of its pool answer uploads and *)
(* reads with no lock: an upload stores the adapter in one statement and   *)
(* its digest in the next, a read fetches them in two as well, and other   *)
(* workers run in between.  Nothing is persisted.                          *)
(*                                                                         *)
(* An adapter's matrices, with their shapes, are one value; a blob that    *)
(* does not decode is marked as malformed.                                 *)
(***************************************************************************)

CONSTANTS
    Ids,            \* adapter ids
    Contents,       \* matrices
    Digests,        \* SHA-256 digests
    DigestOf,       \* adapter_digest: matrices -> digest
    NoAdapter,      \* the id is not registered
    NoDigest,       \* no digest is stored, or claimed
    NoAnswer,       \* no read was answered in this step
    Free,           \* an idle worker
    Workers,        \* the pool of serve_adapter_hub
    Callers,        \* principals, and the one that stands for none
    Writers,        \* adapter_writers
    NoCaller,       \* no principal
    Lab,            \* the profile is lab
    RequireDigest   \* require_adapter_digest

ASSUME HubAssumption ==
    /\ DigestOf \in [Contents -> Digests]
    /\ NoAdapter \notin Contents /\ NoDigest \notin Digests
    /\ Writers \subseteq Callers \ {NoCaller}
    /\ {Lab, RequireDigest} \subseteq BOOLEAN

VARIABLES
    adapters,   \* hub._adapters: id -> its matrices, or NoAdapter
    digests,    \* _digests: id -> digest, or NoDigest
    worker,     \* worker -> the call it is in the middle of, or Free
    answer,     \* the blob the last step served, or NoAnswer
    crossed     \* history: the ids whose last upload began during another of them

hubVars == <<adapters, digests, worker, answer, crossed>>

\* An upload has stored its adapter, a read has fetched one; calm is history: no
\* upload of the id was under way at any time since.
Call == [op : {"upload"}, id : Ids, content : Contents]
        \cup [op : {"read"}, id : Ids, content : Contents, calm : BOOLEAN]
Blob == [id : Ids, content : Contents, digest : Digests, calm : BOOLEAN]

ASSUME HubNullsAssumption == Free \notin Call /\ NoAnswer \notin Blob

InUpload(w, id) == worker[w] # Free /\ worker[w].op = "upload" /\ worker[w].id = id
UploadsOf(id) == {w \in Workers : InUpload(w, id)}

\* The reads of id under way are disturbed by a step of an upload of id.
Disturbed(w, id) ==
    IF worker[w] # Free /\ worker[w].op = "read" /\ worker[w].id = id
    THEN [worker[w] EXCEPT !.calm = FALSE]
    ELSE worker[w]

-----------------------------------------------------------------------------
(* UpsertAdapter *)

\* can_write_adapter
MayWrite(p) == (Lab /\ Writers = {}) \/ p \in Writers

\* The digest claimed against the one computed from the matrices.
DigestAdmitted(c, claimed) ==
    \/ claimed = NoDigest /\ ~RequireDigest
    \/ claimed = DigestOf[c]

Admitted(p, c, claimed, wellFormed) == MayWrite(p) /\ DigestAdmitted(c, claimed) /\ wellFormed

\* The first statement: the adapter replaces the one of its id.
AdapterStored(w, id, c) ==
    /\ adapters' = [adapters EXCEPT ![id] = c]
    /\ worker' = [v \in Workers |-> IF v = w THEN [op |-> "upload", id |-> id, content |-> c]
                                    ELSE Disturbed(v, id)]
    /\ crossed' = IF UploadsOf(id) = {} THEN crossed \ {id} ELSE crossed \cup {id}
    /\ answer' = NoAnswer
    /\ UNCHANGED digests

UploadStarts(w, p, id, c, claimed, wellFormed) ==
    /\ worker[w] = Free
    /\ Admitted(p, c, claimed, wellFormed)
    /\ AdapterStored(w, id, c)

\* A refused upload is answered at once: ACL_DENIED, DIGEST_REQUIRED, DIGEST_MISMATCH
\* or MALFORMED_ADAPTER.
UploadRefused(w, p, c, claimed, wellFormed) ==
    /\ worker[w] = Free
    /\ ~Admitted(p, c, claimed, wellFormed)
    /\ answer' = NoAnswer
    /\ UNCHANGED <<adapters, digests, worker, crossed>>

\* The second statement: the digest of what this call uploaded.
FirstDigest(w) ==
    IF digests[worker[w].id] = NoDigest THEN DigestOf[worker[w].content] ELSE digests[worker[w].id]
StoredDigest(w) == DigestOf[worker[w].content]

UploadEnds(w) ==
    /\ worker[w] # Free /\ worker[w].op = "upload"
    /\ LET id == worker[w].id
       IN  /\ digests' = [digests EXCEPT ![id] = StoredDigest(w)]
           /\ worker' = [v \in Workers |-> IF v = w THEN Free ELSE Disturbed(v, id)]
    /\ answer' = NoAnswer
    /\ UNCHANGED <<adapters, crossed>>

-----------------------------------------------------------------------------
(* GetAdapter, open to every caller *)

ReadNotFound(w, id) ==
    /\ worker[w] = Free /\ adapters[id] = NoAdapter
    /\ answer' = NoAnswer
    /\ UNCHANGED <<adapters, digests, worker, crossed>>

ReadStarts(w, id) ==
    /\ worker[w] = Free /\ adapters[id] # NoAdapter
    /\ worker' = [worker EXCEPT ![w] = [op |-> "read", id |-> id, content |-> adapters[id],
                                        calm |-> UploadsOf(id) = {} /\ id \notin crossed]]
    /\ answer' = NoAnswer
    /\ UNCHANGED <<adapters, digests, crossed>>

\* The stored digest, or that of the adapter read if there is none.
ServedAsStored(id, c) == digests[id]
ServedDigest(id, c) == IF digests[id] = NoDigest THEN DigestOf[c] ELSE digests[id]

ReadEnds(w) ==
    /\ worker[w] # Free /\ worker[w].op = "read"
    /\ LET id == worker[w].id  c == worker[w].content
       IN  answer' = [id |-> id, content |-> c, digest |-> ServedDigest(id, c),
                      calm |-> worker[w].calm]
    /\ worker' = [worker EXCEPT ![w] = Free]
    /\ UNCHANGED <<adapters, digests, crossed>>

-----------------------------------------------------------------------------
HubInit ==
    /\ adapters = [id \in Ids |-> NoAdapter]
    /\ digests = [id \in Ids |-> NoDigest]
    /\ worker = [w \in Workers |-> Free]
    /\ answer = NoAnswer
    /\ crossed = {}

HubRestarts ==
    /\ adapters' = [id \in Ids |-> NoAdapter]
    /\ digests' = [id \in Ids |-> NoDigest]
    /\ worker' = [w \in Workers |-> Free]
    /\ answer' = NoAnswer
    /\ crossed' = {}

HubNext ==
    \/ \E w \in Workers, p \in Callers, c \in Contents, claimed \in Digests \cup {NoDigest},
          wellFormed \in BOOLEAN :
           \/ UploadRefused(w, p, c, claimed, wellFormed)
           \/ \E id \in Ids : UploadStarts(w, p, id, c, claimed, wellFormed)
    \/ \E w \in Workers : UploadEnds(w) \/ ReadEnds(w)
    \/ \E w \in Workers, id \in Ids : ReadNotFound(w, id) \/ ReadStarts(w, id)
    \/ HubRestarts

HubSpec == HubInit /\ [][HubNext]_hubVars

-----------------------------------------------------------------------------
(* Properties. *)

\* Every variable has its type.
HubTypeOK ==
    /\ adapters \in [Ids -> Contents \cup {NoAdapter}]
    /\ digests \in [Ids -> Digests \cup {NoDigest}]
    /\ worker \in [Workers -> Call \cup {Free}]
    /\ answer \in Blob \cup {NoAnswer}
    /\ crossed \in SUBSET Ids

\* Although adapter and digest are stored apart and without a lock, they agree as soon
\* as no upload of the id is under way, unless the last ones crossed; and a single
\* upload that crosses no other puts right what crossed before it.
DigestHeals ==
    \A id \in Ids :
        adapters[id] # NoAdapter /\ UploadsOf(id) = {} /\ id \notin crossed
        => digests[id] = DigestOf[adapters[id]]

\* A reader is given the matrices under their own digest unless an upload of the id
\* was under way during the read, or the uploads before it crossed: a node that
\* verifies the digest (docs/architecture.md:109) rejects an adapter only then.
ServedWithItsDigest ==
    answer # NoAnswer /\ answer.calm => answer.digest = DigestOf[answer.content]

=============================================================================

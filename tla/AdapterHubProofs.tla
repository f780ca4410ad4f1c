-------------------------- MODULE AdapterHubProofs --------------------------
(* Proofs about AdapterHub. *)
EXTENDS AdapterHub, TLAPS

Reading(w) == worker[w] # Free /\ worker[w].op = "read"

\* An id whose uploads do not cross has at most one under way, and what that one
\* uploaded is what is stored.
OneUpload ==
    \A id \in Ids \ crossed : \A w \in Workers :
        InUpload(w, id) => /\ adapters[id] = worker[w].content
                           /\ \A v \in Workers : InUpload(v, id) => v = w

\* A read that no upload disturbed holds what is stored, and nothing is pending.
CalmReads ==
    \A w \in Workers :
        Reading(w) /\ worker[w].calm =>
            /\ worker[w].id \notin crossed
            /\ adapters[worker[w].id] = worker[w].content
            /\ \A v \in Workers : ~InUpload(v, worker[w].id)

HubInv == HubTypeOK /\ OneUpload /\ DigestHeals /\ CalmReads /\ ServedWithItsDigest

-----------------------------------------------------------------------------
\* No worker uploads id.
LEMMA NoUploads ==
    ASSUME NEW id
    PROVE  UploadsOf(id) = {} <=> \A w \in Workers : ~InUpload(w, id)
  BY DEF UploadsOf

\* A call in the middle is an upload or a read.
LEMMA CallKinds ==
    ASSUME HubTypeOK, NEW w \in Workers, worker[w] # Free
    PROVE  /\ worker[w].id \in Ids /\ worker[w].content \in Contents
           /\ worker[w].op \in {"upload", "read"}
           /\ worker[w].op = "upload" => worker[w] \in [op : {"upload"}, id : Ids, content : Contents]
           /\ worker[w].op = "read" =>
                 worker[w] \in [op : {"read"}, id : Ids, content : Contents, calm : BOOLEAN]
  <1>1. worker[w] \in Call
    BY DEF HubTypeOK
  <1> QED
    BY <1>1 DEF Call

\* Disturbing a worker leaves its call what it was, but for calm.
LEMMA DisturbedKeeps ==
    ASSUME HubTypeOK, NEW w \in Workers, NEW id \in Ids
    PROVE  /\ Disturbed(w, id) \in Call \cup {Free}
           /\ Disturbed(w, id) = Free <=> worker[w] = Free
           /\ worker[w] # Free => /\ Disturbed(w, id).op = worker[w].op
                                  /\ Disturbed(w, id).id = worker[w].id
                                  /\ Disturbed(w, id).content = worker[w].content
           /\ Reading(w) /\ Disturbed(w, id).calm =>
                 worker[w].calm /\ worker[w].id # id
  <1>1. CASE Reading(w) /\ worker[w].id = id
    <2>1. worker[w] \in [op : {"read"}, id : Ids, content : Contents, calm : BOOLEAN]
      BY <1>1, CallKinds DEF Reading
    <2>2. Disturbed(w, id) = [worker[w] EXCEPT !.calm = FALSE]
      BY <1>1 DEF Disturbed, Reading
    <2>3. Disturbed(w, id) \in [op : {"read"}, id : Ids, content : Contents, calm : BOOLEAN]
      BY <2>1, <2>2
    <2>4. Disturbed(w, id) # Free
      BY <2>3, HubNullsAssumption DEF Call
    <2>5. Disturbed(w, id).calm = FALSE
      BY <2>1, <2>2
    <2>6. /\ Disturbed(w, id).op = worker[w].op /\ Disturbed(w, id).id = worker[w].id
          /\ Disturbed(w, id).content = worker[w].content
      BY <2>1, <2>2
    <2> QED
      BY <1>1, <2>3, <2>4, <2>5, <2>6 DEF Call, Reading
  <1>2. CASE ~(Reading(w) /\ worker[w].id = id)
    <2>1. Disturbed(w, id) = worker[w]
      BY <1>2 DEF Disturbed, Reading
    <2> QED
      BY <2>1, <1>2 DEF HubTypeOK, Reading
  <1> QED
    BY <1>1, <1>2

-----------------------------------------------------------------------------
(* One lemma per action. *)

LEMMA InitEstablishes == HubInit => HubInv
  BY HubNullsAssumption DEF HubInit, HubInv, HubTypeOK, OneUpload, DigestHeals, CalmReads,
     ServedWithItsDigest, Reading, InUpload, UploadsOf

LEMMA RestartPreserves == HubInv /\ HubRestarts => HubInv'
  BY DEF HubRestarts, HubInv, HubTypeOK, OneUpload, DigestHeals, CalmReads,
     ServedWithItsDigest, Reading, InUpload, UploadsOf

\* A step that leaves everything but the answer, which it clears.
LEMMA QuietPreserves ==
    HubInv /\ answer' = NoAnswer /\ UNCHANGED <<adapters, digests, worker, crossed>> => HubInv'
  BY DEF HubInv, HubTypeOK, OneUpload, DigestHeals, CalmReads,
     ServedWithItsDigest, Reading, InUpload, UploadsOf

LEMMA UploadStartsPreserves ==
    ASSUME HubInv, NEW u \in Workers, NEW i \in Ids, NEW c \in Contents,
           worker[u] = Free, AdapterStored(u, i, c)
    PROVE  HubInv'
  <1> DEFINE up == [op |-> "upload", id |-> i, content |-> c]
  <1> USE DEF HubInv
  <1>1. up \in Call /\ up # Free
    BY HubNullsAssumption DEF Call
  <1>2. worker' = [v \in Workers |-> IF v = u THEN up ELSE Disturbed(v, i)]
    BY DEF AdapterStored
  <1>3. /\ adapters' = [adapters EXCEPT ![i] = c] /\ digests' = digests /\ answer' = NoAnswer
        /\ crossed' = IF UploadsOf(i) = {} THEN crossed \ {i} ELSE crossed \cup {i}
    BY DEF AdapterStored
  <1>4. HubTypeOK'
    <2>1. worker' \in [Workers -> Call \cup {Free}]
      BY <1>1, <1>2, DisturbedKeeps
    <2> QED
      BY <1>3, <2>1 DEF HubTypeOK
  <1>5. worker'[u] = up
    BY <1>2
  <1>6. ASSUME NEW v \in Workers, v # u
        PROVE  worker'[v] = Disturbed(v, i)
    BY <1>2, <1>6
  <1>7. ASSUME NEW v \in Workers, v # u, NEW id \in Ids
        PROVE  InUpload(v, id)' <=> InUpload(v, id)
    BY <1>6, <1>7, DisturbedKeeps DEF InUpload
  <1>8. ASSUME NEW id \in Ids
        PROVE  InUpload(u, id)' <=> id = i
    BY <1>1, <1>5 DEF InUpload
  <1>9. OneUpload'
    <2> SUFFICES ASSUME NEW id \in Ids \ crossed', NEW w \in Workers, InUpload(w, id)'
                 PROVE  /\ adapters'[id] = worker'[w].content
                        /\ \A v \in Workers : InUpload(v, id)' => v = w
      BY DEF OneUpload
    <2>1. CASE id = i
      <3>1. UploadsOf(i) = {}
        BY <1>3, <2>1
      <3>2. \A v \in Workers : v # u => ~InUpload(v, i)'
        BY <3>1, <1>7, NoUploads
      <3> QED
        BY <2>1, <3>2, <1>3, <1>5 DEF HubTypeOK
    <2>2. CASE id # i
      <3>1. w # u /\ InUpload(w, id) /\ id \in Ids \ crossed
        BY <2>2, <1>7, <1>8, <1>3
      <3>2. worker'[w].content = worker[w].content
        BY <3>1, <1>6, DisturbedKeeps DEF InUpload
      <3>3. adapters'[id] = adapters[id]
        BY <2>2, <1>3 DEF HubTypeOK
      <3>4. \A v \in Workers : InUpload(v, id)' => v # u /\ InUpload(v, id)
        BY <2>2, <1>7, <1>8
      <3> QED
        BY <3>1, <3>2, <3>3, <3>4 DEF OneUpload
    <2> QED
      BY <2>1, <2>2
  <1>10. DigestHeals'
    <2> SUFFICES ASSUME NEW id \in Ids, adapters'[id] # NoAdapter, UploadsOf(id)' = {},
                        id \notin crossed'
                 PROVE  digests'[id] = DigestOf[adapters'[id]]
      BY DEF DigestHeals
    <2>1. id # i
      BY <1>8 DEF UploadsOf
    <2>2. \A v \in Workers : ~InUpload(v, id)'
      BY DEF UploadsOf
    <2>3. \A v \in Workers : ~InUpload(v, id)
      <3>1. ~InUpload(u, id)
        BY DEF InUpload
      <3> QED
        BY <2>2, <3>1, <1>7
    <2>4. UploadsOf(id) = {} /\ id \notin crossed /\ adapters'[id] = adapters[id]
      BY <2>1, <2>3, <1>3, NoUploads DEF HubTypeOK
    <2> QED
      BY <2>4, <1>3 DEF DigestHeals
  <1>11. CalmReads'
    <2> SUFFICES ASSUME NEW w \in Workers, Reading(w)', worker'[w].calm
                 PROVE  /\ worker'[w].id \notin crossed'
                        /\ adapters'[worker'[w].id] = worker'[w].content
                        /\ \A v \in Workers : ~InUpload(v, worker[w].id)'
      BY DEF CalmReads
    <2>1. w # u
      BY <1>5 DEF Reading
    <2>2. worker'[w] = Disturbed(w, i)
      BY <2>1, <1>6
    <2>3. /\ Reading(w) /\ worker[w].calm /\ worker[w].id # i
          /\ worker'[w].id = worker[w].id /\ worker'[w].content = worker[w].content
      BY <2>2, DisturbedKeeps DEF Reading
    <2>4. /\ worker[w].id \notin crossed /\ adapters[worker[w].id] = worker[w].content
          /\ \A v \in Workers : ~InUpload(v, worker[w].id)
      BY <2>3 DEF CalmReads
    <2>5. worker[w].id \in Ids
      BY <2>3, CallKinds DEF Reading
    <2>6. \A v \in Workers : ~InUpload(v, worker[w].id)'
      BY <2>3, <2>4, <2>5, <1>7, <1>8
    <2> QED
      BY <2>3, <2>4, <2>5, <2>6, <1>3 DEF HubTypeOK
  <1>12. ServedWithItsDigest'
    BY <1>3 DEF ServedWithItsDigest
  <1> QED
    BY <1>4, <1>9, <1>10, <1>11, <1>12

LEMMA UploadEndsPreserves ==
    ASSUME HubInv, NEW u \in Workers, UploadEnds(u)
    PROVE  HubInv'
  <1> DEFINE i == worker[u].id  c == worker[u].content
  <1> USE DEF HubInv
  <1>1. i \in Ids /\ c \in Contents /\ InUpload(u, i)
    BY CallKinds DEF UploadEnds, InUpload
  <1>2. /\ worker' = [v \in Workers |-> IF v = u THEN Free ELSE Disturbed(v, i)]
        /\ digests' = [digests EXCEPT ![i] = DigestOf[c]]
        /\ adapters' = adapters /\ crossed' = crossed /\ answer' = NoAnswer
    BY DEF UploadEnds, StoredDigest
  <1>3. DigestOf[c] \in Digests
    BY <1>1, HubAssumption
  <1> HIDE DEF i, c
  <1>4. HubTypeOK'
    <2>1. worker' \in [Workers -> Call \cup {Free}]
      BY <1>1, <1>2, DisturbedKeeps
    <2> QED
      BY <1>2, <1>3, <2>1 DEF HubTypeOK
  <1>5. worker'[u] = Free
    BY <1>2
  <1>6. ASSUME NEW v \in Workers, v # u
        PROVE  worker'[v] = Disturbed(v, i)
    BY <1>2, <1>6
  <1>7. ASSUME NEW v \in Workers, v # u, NEW id \in Ids
        PROVE  InUpload(v, id)' <=> InUpload(v, id)
    BY <1>1, <1>6, <1>7, DisturbedKeeps DEF InUpload
  <1>8. \A id \in Ids : ~InUpload(u, id)'
    BY <1>5 DEF InUpload
  <1>9. OneUpload'
    <2> SUFFICES ASSUME NEW id \in Ids \ crossed, NEW w \in Workers, InUpload(w, id)'
                 PROVE  /\ adapters[id] = worker'[w].content
                        /\ \A v \in Workers : InUpload(v, id)' => v = w
      BY <1>2 DEF OneUpload
    <2>1. w # u /\ InUpload(w, id)
      BY <1>7, <1>8
    <2>2. worker'[w].content = worker[w].content
      BY <2>1, <1>1, <1>6, DisturbedKeeps DEF InUpload
    <2> QED
      BY <2>1, <2>2, <1>7, <1>8 DEF OneUpload
  <1>10. DigestHeals'
    <2> SUFFICES ASSUME NEW id \in Ids, adapters[id] # NoAdapter, UploadsOf(id)' = {},
                        id \notin crossed
                 PROVE  digests'[id] = DigestOf[adapters[id]]
      BY <1>2 DEF DigestHeals
    <2>1. CASE id = i
      <3>1. adapters[i] = c
        BY <2>1, <1>1 DEF OneUpload, c
      <3> QED
        BY <2>1, <3>1, <1>2 DEF HubTypeOK
    <2>2. CASE id # i
      <3>1. \A v \in Workers : ~InUpload(v, id)'
        BY DEF UploadsOf
      <3>2. ~InUpload(u, id)
        BY <2>2 DEF InUpload, i
      <3>3. UploadsOf(id) = {}
        BY <3>1, <3>2, <1>7, NoUploads
      <3> QED
        BY <2>2, <3>3, <1>2 DEF DigestHeals, HubTypeOK
    <2> QED
      BY <2>1, <2>2
  <1>11. CalmReads'
    <2> SUFFICES ASSUME NEW w \in Workers, Reading(w)', worker'[w].calm
                 PROVE  /\ worker'[w].id \notin crossed
                        /\ adapters[worker'[w].id] = worker'[w].content
                        /\ \A v \in Workers : ~InUpload(v, worker[w].id)'
      BY <1>2 DEF CalmReads
    <2>1. w # u
      BY <1>5 DEF Reading
    <2>2. worker'[w] = Disturbed(w, i)
      BY <2>1, <1>6
    <2>3. /\ Reading(w) /\ worker[w].calm
          /\ worker'[w].id = worker[w].id /\ worker'[w].content = worker[w].content
      BY <2>2, <1>1, DisturbedKeeps DEF Reading
    <2>4. /\ worker[w].id \notin crossed /\ adapters[worker[w].id] = worker[w].content
          /\ \A v \in Workers : ~InUpload(v, worker[w].id)
      BY <2>3 DEF CalmReads
    <2>5. worker[w].id \in Ids
      BY <2>3, CallKinds DEF Reading
    <2> QED
      BY <2>3, <2>4, <2>5, <1>7, <1>8
  <1>12. ServedWithItsDigest'
    BY <1>2 DEF ServedWithItsDigest
  <1> QED
    BY <1>4, <1>9, <1>10, <1>11, <1>12

LEMMA ReadStartsPreserves ==
    ASSUME HubInv, NEW u \in Workers, NEW i \in Ids, ReadStarts(u, i)
    PROVE  HubInv'
  <1> DEFINE rd == [op |-> "read", id |-> i, content |-> adapters[i],
                    calm |-> UploadsOf(i) = {} /\ i \notin crossed]
  <1> USE DEF HubInv
  <1>1. /\ worker[u] = Free /\ adapters[i] # NoAdapter /\ worker' = [worker EXCEPT ![u] = rd]
        /\ adapters' = adapters /\ digests' = digests /\ crossed' = crossed /\ answer' = NoAnswer
    BY DEF ReadStarts
  <1>2. rd \in Call /\ rd # Free
    <2>1. adapters[i] \in Contents
      BY <1>1 DEF HubTypeOK
    <2>2. rd \in Call
      BY <2>1 DEF Call
    <2> QED
      BY <2>2, HubNullsAssumption
  <1>3. HubTypeOK'
    BY <1>1, <1>2 DEF HubTypeOK
  <1>4. worker'[u] = rd /\ \A v \in Workers : v # u => worker'[v] = worker[v]
    BY <1>1 DEF HubTypeOK
  <1>5. \A v \in Workers, id \in Ids : InUpload(v, id)' <=> InUpload(v, id)
    BY <1>1, <1>4 DEF InUpload
  <1>6. OneUpload'
    <2>1. \A v \in Workers, id \in Ids : InUpload(v, id) => worker'[v] = worker[v]
      BY <1>1, <1>4 DEF InUpload
    <2> QED
      BY <1>1, <1>5, <2>1 DEF OneUpload
  <1>7. \A id \in Ids : UploadsOf(id)' = UploadsOf(id)
    BY <1>5 DEF UploadsOf
  <1>8. DigestHeals'
    BY <1>1, <1>7 DEF DigestHeals
  <1>9. CalmReads'
    <2> SUFFICES ASSUME NEW w \in Workers, Reading(w)', worker'[w].calm
                 PROVE  /\ worker'[w].id \notin crossed
                        /\ adapters[worker'[w].id] = worker'[w].content
                        /\ \A v \in Workers : ~InUpload(v, worker[w].id)'
      BY <1>1 DEF CalmReads
    <2>1. CASE w = u
      <3>1. rd.calm
        BY <2>1, <1>4
      <3>2. UploadsOf(i) = {} /\ i \notin crossed
        BY <3>1
      <3> QED
        BY <2>1, <3>2, <1>4, <1>5, NoUploads
    <2>2. CASE w # u
      <3>1. worker'[w] = worker[w] /\ Reading(w)
        BY <2>2, <1>4 DEF Reading
      <3>2. worker[w].id \in Ids
        BY <3>1, CallKinds DEF Reading
      <3> QED
        BY <3>1, <3>2, <1>5 DEF CalmReads
    <2> QED
      BY <2>1, <2>2
  <1>10. ServedWithItsDigest'
    BY <1>1 DEF ServedWithItsDigest
  <1> QED
    BY <1>3, <1>6, <1>8, <1>9, <1>10

LEMMA ReadEndsPreserves ==
    ASSUME HubInv, NEW u \in Workers, ReadEnds(u)
    PROVE  HubInv'
  <1> DEFINE i == worker[u].id  c == worker[u].content
  <1> USE DEF HubInv
  <1>1. /\ Reading(u) /\ worker' = [worker EXCEPT ![u] = Free]
        /\ adapters' = adapters /\ digests' = digests /\ crossed' = crossed
        /\ answer' = [id |-> i, content |-> c, digest |-> ServedDigest(i, c), calm |-> worker[u].calm]
    BY DEF ReadEnds, Reading
  <1>2. i \in Ids /\ c \in Contents /\ worker[u].calm \in BOOLEAN
    BY <1>1, CallKinds DEF Reading
  <1>3. ServedDigest(i, c) \in Digests
    BY <1>2, HubAssumption DEF ServedDigest, HubTypeOK
  <1>4. answer' \in Blob
    BY <1>1, <1>2, <1>3 DEF Blob
  <1>5. HubTypeOK'
    BY <1>1, <1>4 DEF HubTypeOK
  <1>6. worker'[u] = Free /\ \A v \in Workers : v # u => worker'[v] = worker[v]
    BY <1>1 DEF HubTypeOK
  <1>7. \A v \in Workers, id \in Ids : InUpload(v, id)' <=> InUpload(v, id)
    BY <1>1, <1>6 DEF InUpload, Reading
  <1>8. OneUpload'
    <2>1. \A v \in Workers, id \in Ids : InUpload(v, id) => worker'[v] = worker[v]
      BY <1>1, <1>6 DEF InUpload, Reading
    <2> QED
      BY <1>1, <1>7, <2>1 DEF OneUpload
  <1>9. \A id \in Ids : UploadsOf(id)' = UploadsOf(id)
    BY <1>7 DEF UploadsOf
  <1>10. DigestHeals'
    BY <1>1, <1>9 DEF DigestHeals
  <1>11. CalmReads'
    <2> SUFFICES ASSUME NEW w \in Workers, Reading(w)', worker'[w].calm
                 PROVE  /\ worker'[w].id \notin crossed
                        /\ adapters[worker'[w].id] = worker'[w].content
                        /\ \A v \in Workers : ~InUpload(v, worker[w].id)'
      BY <1>1 DEF CalmReads
    <2>1. worker'[w] = worker[w] /\ Reading(w)
      BY <1>6 DEF Reading
    <2>2. worker[w].id \in Ids
      BY <2>1, CallKinds DEF Reading
    <2> QED
      BY <2>1, <2>2, <1>7 DEF CalmReads
  <1>12. ServedWithItsDigest'
    <2> SUFFICES ASSUME worker[u].calm
                 PROVE  ServedDigest(i, c) = DigestOf[c]
      BY <1>1 DEF ServedWithItsDigest
    <2>1. i \notin crossed /\ adapters[i] = c /\ UploadsOf(i) = {}
      BY <1>1, NoUploads DEF CalmReads
    <2>2. adapters[i] # NoAdapter
      BY <2>1, <1>2, HubAssumption
    <2> QED
      BY <1>2, <2>1, <2>2 DEF DigestHeals, ServedDigest
  <1> QED
    BY <1>5, <1>8, <1>10, <1>11, <1>12

-----------------------------------------------------------------------------
\* Every step of the hub preserves the invariant.
LEMMA NextPreserves == HubInv /\ [HubNext]_hubVars => HubInv'
  <1> SUFFICES ASSUME HubInv, [HubNext]_hubVars
               PROVE  HubInv'
    OBVIOUS
  <1>1. ASSUME NEW w \in Workers, NEW p \in Callers, NEW c \in Contents,
               NEW claimed \in Digests \cup {NoDigest}, NEW wellFormed \in BOOLEAN,
               UploadRefused(w, p, c, claimed, wellFormed)
        PROVE  HubInv'
    BY <1>1, QuietPreserves DEF UploadRefused
  <1>2. ASSUME NEW w \in Workers, NEW p \in Callers, NEW c \in Contents,
               NEW claimed \in Digests \cup {NoDigest}, NEW wellFormed \in BOOLEAN,
               NEW id \in Ids, UploadStarts(w, p, id, c, claimed, wellFormed)
        PROVE  HubInv'
    BY <1>2, UploadStartsPreserves DEF UploadStarts
  <1>3. ASSUME NEW w \in Workers, UploadEnds(w) \/ ReadEnds(w)
        PROVE  HubInv'
    BY <1>3, UploadEndsPreserves, ReadEndsPreserves
  <1>4. ASSUME NEW w \in Workers, NEW id \in Ids, ReadNotFound(w, id) \/ ReadStarts(w, id)
        PROVE  HubInv'
    <2>1. CASE ReadNotFound(w, id)
      BY <2>1, QuietPreserves DEF ReadNotFound
    <2>2. CASE ReadStarts(w, id)
      BY <2>2, ReadStartsPreserves
    <2> QED
      BY <1>4, <2>1, <2>2
  <1>5. CASE HubRestarts
    BY <1>5, RestartPreserves
  <1>6. CASE UNCHANGED hubVars
    BY <1>6 DEF hubVars, HubInv, HubTypeOK, OneUpload, DigestHeals, CalmReads,
       ServedWithItsDigest, Reading, InUpload, UploadsOf
  <1> QED
    BY <1>1, <1>2, <1>3, <1>4, <1>5, <1>6 DEF HubNext

\* The invariant holds for every number of workers, ids and contents.
THEOREM HubInvariant == HubSpec => []HubInv
  BY InitEstablishes, NextPreserves, PTL DEF HubSpec

\* The hub's variables keep their types, and what it serves always has a digest.
THEOREM HubTypes == HubSpec => []HubTypeOK
  <1>1. HubInv => HubTypeOK
    BY DEF HubInv
  <1> QED
    BY <1>1, HubInvariant, PTL

\* Adapter and digest agree whenever no upload is under way and none crossed.
THEOREM DigestsHeal == HubSpec => []DigestHeals
  <1>1. HubInv => DigestHeals
    BY DEF HubInv
  <1> QED
    BY <1>1, HubInvariant, PTL

\* An undisturbed read is answered with matrices and their own digest.
THEOREM ReadersVerify == HubSpec => []ServedWithItsDigest
  <1>1. HubInv => ServedWithItsDigest
    BY DEF HubInv
  <1> QED
    BY <1>1, HubInvariant, PTL

=============================================================================

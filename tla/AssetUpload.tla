----------------------------- MODULE AssetUpload -----------------------------
(***************************************************************************)
(* Worksheets and gallery photos: upload-url, confirm and delete            *)
(* (internal/handlers/worksheet_handlers.go and gallery_handlers.go, which  *)
(* mirror each other) over two stores that fail independently: the R2       *)
(* bucket and the table of rows that point into it.                         *)
(*                                                                          *)
(* No handler opens a transaction, so each statement and each R2 call is a  *)
(* step.  A call that reports an error may have taken effect.  The class    *)
(* ownership check reads a table that other handlers change at any time,    *)
(* and has any outcome here.                                                *)
(***************************************************************************)
EXTENDS Naturals, Sequences

CONSTANTS Req,       \* the requests, each handled by a goroutine of its own
          Calls,     \* for each request, the calls it may make
          Key,       \* the object keys that BuildObjectKey can come up with
          KeyKind, KeyClass,  \* the prefix and the class segment of each key
          Class,
          Unique,    \* whether the tables have the declared unique index
          None

Kind == {"worksheet", "gallery"}

ASSUME AssetAssumption ==
  /\ KeyKind \in [Key -> Kind] /\ KeyClass \in [Key -> Class]
  /\ Unique \in BOOLEAN
  /\ DOMAIN Calls = Req
  /\ \A r \in Req : \A c \in Calls[r] :
       /\ c.op \in {"upload-url", "confirm", "delete"} /\ c.kind \in Kind
       /\ c.op # "delete" => c.class \in Class
       /\ c.op = "confirm" => c.key \in Key
       /\ c.op = "delete" => c.id \in Req

VARIABLES url,     \* what became of the presigned URL of each key
          object,  \* the keys with an object in the bucket
          rows,    \* the confirmations whose row is in a table
          call, pc, reply,
          trail,   \* history: for each key, the effects on it in order
          looked,  \* history: the length of the trail when a request found no row
          checked  \* history: ... and when a confirmation checked the object

vars == <<url, object, rows, call, pc, reply, trail, looked, checked>>

Is(r, op) == call[r].op = op

\* The key that a confirmation names, and that a delete reads in its row.
KeyOf(r) == IF Is(r, "delete") THEN call[call[r].id].key ELSE call[r].key

Init ==
  /\ url = [k \in Key |-> "unissued"]
  /\ object = {}
  /\ rows = {}
  /\ call \in [Req -> UNION {Calls[r] : r \in Req}]
  /\ \A r \in Req : /\ call[r] \in Calls[r]
                    /\ Is(r, "delete") => /\ Is(call[r].id, "confirm")
                                          /\ call[r].kind = call[call[r].id].kind
  /\ pc = [r \in Req |-> "new"]
  /\ reply = [r \in Req |-> 0]
  /\ trail = [k \in Key |-> << >>]
  /\ looked = [r \in Req |-> 0]
  /\ checked = [r \in Req |-> 0]

Goto(r, label) == pc' = [pc EXCEPT ![r] = label]

Answer(r, code) == Goto(r, "done") /\ reply' = [reply EXCEPT ![r] = code]

Mark(k, what, r) == trail' = [trail EXCEPT ![k] = Append(@, [what |-> what, by |-> r])]

\* Body and asset validation, the class's existence and ownership, a failing
\* query or a failing signature: every refusal before the first effect, but for
\* those of a delete that has read its row.
Refuse(r) ==
  /\ pc[r] = "new"
  /\ \E code \in {400, 403, 404, 422, 500} :
       /\ code \in {400, 404, 422} => ~Is(r, "delete")
       /\ Answer(r, code)
  /\ UNCHANGED <<url, object, rows, call, trail, looked, checked>>

\* UploadURL signs a PUT for a new key: a UUID under the kind and the class.
UploadURL(r) ==
  /\ pc[r] = "new" /\ Is(r, "upload-url")
  /\ \E k \in Key :
       /\ url[k] = "unissued"
       /\ KeyKind[k] = call[r].kind /\ KeyClass[k] = call[r].class
       /\ url' = [url EXCEPT ![k] = "valid"]
  /\ Answer(r, 200)
  /\ UNCHANGED <<object, rows, call, trail, looked, checked>>

\* Faulty: the URL goes on working for ever, or before it is issued.
PutUnsigned(k) ==
  /\ k \notin object
  /\ object' = object \cup {k}
  /\ Mark(k, "put", None)
  /\ UNCHANGED <<url, rows, call, pc, reply, looked, checked>>

\* The client PUTs the file, as often as it likes while the URL is valid.  A
\* PUT over an existing object replaces its bytes, which nothing here reads.
Put(k) ==
  /\ url[k] = "valid" /\ k \notin object
  /\ object' = object \cup {k}
  /\ Mark(k, "put", None)
  /\ UNCHANGED <<url, rows, call, pc, reply, looked, checked>>

\* presignTTL is over.
Expire(k) ==
  /\ url[k] = "valid"
  /\ url' = [url EXCEPT ![k] = "expired"]
  /\ UNCHANGED <<object, rows, call, pc, reply, trail, looked, checked>>

------------------------------------------------------------------------------
(* ConfirmUpload.                                                           *)

\* Faulty: no look-up of the storage_key.
NeverConfirmed(r) == FALSE

\* The table of the request's own kind has a row with this storage_key.
Confirmed(r) ==
  \E q \in rows : KeyOf(q) = KeyOf(r) /\ call[q].kind = call[r].kind

\* The class segment of the key must be the class asked for; its prefix is not
\* compared with the kind of asset.
LookForRow(r) ==
  /\ pc[r] = "new" /\ Is(r, "confirm")
  /\ KeyClass[KeyOf(r)] = call[r].class
  /\ IF Confirmed(r)
     THEN Answer(r, 400) /\ UNCHANGED looked
     ELSE /\ Goto(r, "head")
          /\ looked' = [looked EXCEPT ![r] = Len(trail[KeyOf(r)])]
          /\ UNCHANGED reply
  /\ UNCHANGED <<url, object, rows, call, trail, checked>>

\* Faulty: an object that HeadObject does not find is confirmed all the same.
CheckObjectFailOpen(r) ==
  /\ pc[r] = "head"
  /\ Goto(r, "create")
  /\ checked' = [checked EXCEPT ![r] = Len(trail[KeyOf(r)])]
  /\ UNCHANGED <<url, object, rows, call, reply, trail, looked>>

\* ObjectExists takes any error of HeadObject for a missing object.
CheckObject(r) ==
  /\ pc[r] = "head"
  /\ \/ Answer(r, 400) /\ UNCHANGED checked
     \/ /\ KeyOf(r) \in object
        /\ Goto(r, "create")
        /\ checked' = [checked EXCEPT ![r] = Len(trail[KeyOf(r)])]
        /\ UNCHANGED reply
  /\ UNCHANGED <<url, object, rows, call, trail, looked>>

\* The INSERT fails, or inserts a row and is reported done or failed.
CreateRow(r) ==
  /\ pc[r] = "create"
  /\ \/ /\ Answer(r, 500)
        /\ UNCHANGED <<rows, trail>>
     \/ /\ Unique => ~Confirmed(r)
        /\ \E code \in {201, 500} : Answer(r, code)
        /\ rows' = rows \cup {r}
        /\ Mark(KeyOf(r), "row", r)
  /\ UNCHANGED <<url, object, call, looked, checked>>

------------------------------------------------------------------------------
(* Delete.                                                                  *)

\* Faulty: any error of the query is taken for a row that is not there.
ReadRowAnyError(d) ==
  /\ pc[d] = "new" /\ Is(d, "delete")
  /\ \/ Answer(d, 404) /\ looked' = [looked EXCEPT ![d] = Len(trail[KeyOf(d)])]
     \/ call[d].id \in rows /\ Goto(d, "remove") /\ UNCHANGED <<reply, looked>>
  /\ UNCHANGED <<url, object, rows, call, trail, checked>>

\* The row is read, and then its class looked up (404) and its ownership checked
\* (403): "unowned" is the end of a request refused there.
ReadRow(d) ==
  /\ pc[d] = "new" /\ Is(d, "delete")
  /\ \/ /\ call[d].id \notin rows
        /\ Answer(d, 404)
        /\ looked' = [looked EXCEPT ![d] = Len(trail[KeyOf(d)])]
     \/ /\ call[d].id \in rows
        /\ \/ Goto(d, "remove") /\ UNCHANGED reply
           \/ \E code \in {403, 404} :
                Goto(d, "unowned") /\ reply' = [reply EXCEPT ![d] = code]
        /\ UNCHANGED looked
  /\ UNCHANGED <<url, object, rows, call, trail, checked>>

\* Faulty: an error of DeleteObject is ignored.
RemoveObjectIgnoring(d) ==
  /\ pc[d] = "remove"
  /\ Goto(d, "unrow")
  /\ \/ UNCHANGED <<object, trail>>
     \/ object' = object \ {KeyOf(d)} /\ Mark(KeyOf(d), "gone", d)
  /\ UNCHANGED <<url, rows, call, reply, looked, checked>>

\* DeleteObject, which succeeds on a key without an object.  "failed" is the
\* end of a request that answers 500 here, whether the object went or not.
RemoveObject(d) ==
  /\ pc[d] = "remove"
  /\ \/ /\ Goto(d, "failed")
        /\ reply' = [reply EXCEPT ![d] = 500]
        /\ UNCHANGED <<object, trail>>
     \/ /\ object' = object \ {KeyOf(d)}
        /\ Mark(KeyOf(d), "gone", d)
        /\ \/ Goto(d, "failed") /\ reply' = [reply EXCEPT ![d] = 500]
           \/ Goto(d, "unrow") /\ UNCHANGED reply
  /\ UNCHANGED <<url, rows, call, looked, checked>>

\* The DELETE by primary key fails, or deletes the row if it is still there
\* and is reported done or failed.
DeleteRow(d) ==
  /\ pc[d] = "unrow"
  /\ \/ /\ Answer(d, 500)
        /\ UNCHANGED <<rows, trail>>
     \/ /\ \E code \in {204, 500} : Answer(d, code)
        /\ rows' = rows \ {call[d].id}
        /\ Mark(KeyOf(d), "unrow", d)
  /\ UNCHANGED <<url, object, call, looked, checked>>

------------------------------------------------------------------------------
Advance(r) ==
  \/ Refuse(r) \/ UploadURL(r)
  \/ LookForRow(r) \/ CheckObject(r) \/ CreateRow(r)
  \/ ReadRow(r) \/ RemoveObject(r) \/ DeleteRow(r)

Next ==
  \/ \E r \in Req : Advance(r)
  \/ \E k \in Key : Put(k) \/ Expire(k)

Spec == Init /\ [][Next]_vars

------------------------------------------------------------------------------
Event == [what : {"put", "row", "gone", "unrow"}, by : Req \cup {None}]

Happened(k, what, r) ==
  \E i \in 1 .. Len(trail[k]) : trail[k][i] = [what |-> what, by |-> r]

\* Types; a row stems from a confirmation that got as far as its INSERT, and an
\* object from a URL that was issued.
TypeOK ==
  /\ url \in [Key -> {"unissued", "valid", "expired"}]
  /\ object \subseteq {k \in Key : url[k] # "unissued"}
  /\ rows \subseteq {r \in Req : Is(r, "confirm") /\ pc[r] = "done"}
  /\ pc \in [Req -> {"new", "head", "create", "remove", "unrow", "unowned", "failed",
                     "done"}]
  /\ reply \in [Req -> {0, 200, 201, 204, 400, 403, 404, 422, 500}]
  /\ trail \in [Key -> Seq(Event)]
  /\ looked \in [Req -> Nat] /\ checked \in [Req -> Nat]
  /\ \A r \in Req : ~Is(r, "upload-url") =>
       looked[r] <= Len(trail[KeyOf(r)]) /\ checked[r] <= Len(trail[KeyOf(r)])

\* A row without its object (worksheet_handlers.go:165 and 241) is always the
\* work of a delete that removed the object after the confirmation had seen it:
\* nothing else makes a pointer to an object that is not there.
RowsLoseObjectsOnlyToDeletes ==
  /\ TypeOK
  /\ \A r \in rows :
       \/ KeyOf(r) \in object
       \/ \E i \in checked[r] + 1 .. Len(trail[KeyOf(r)]) : trail[KeyOf(r)][i].what = "gone"

\* One storage_key is confirmed twice in a table (worksheet_handlers.go:154)
\* only if the second confirmation looked for a row before the first inserted
\* its own, or after that row was deleted.
ConfirmedTwiceOnlyByOverlap ==
  \A k \in Key : \A j \in 1 .. Len(trail[k]) : \A i \in 1 .. j - 1 :
    LET first == trail[k][i].by
        second == trail[k][j].by
    IN  (/\ trail[k][i].what = "row" /\ trail[k][j].what = "row"
         /\ call[first].kind = call[second].kind)
        => \/ looked[second] < i
           \/ \E m \in i + 1 .. looked[second] :
                trail[k][m].what = "unrow" /\ call[trail[k][m].by].id = first

\* Delete removes the object first (worksheet_handlers.go:241 to 246): if the
\* bucket still has the object of a deleted row, it was uploaded again after
\* the delete had removed it.
DeletedObjectsReturnOnlyByUpload ==
  \A k \in Key : \A j \in 1 .. Len(trail[k]) :
    trail[k][j].what = "unrow" =>
      \E i \in 1 .. j - 1 :
        /\ trail[k][i] = [what |-> "gone", by |-> trail[k][j].by]
        /\ k \in object => \E p \in i + 1 .. Len(trail[k]) : trail[k][p].what = "put"

\* Confirmation c had inserted its row by the n-th effect on its key; a delete
\* had removed that row, and the object before it.
Inserted(c, n) == \E i \in 1 .. n : trail[KeyOf(c)][i] = [what |-> "row", by |-> c]
Removed(c, n) ==
  \E m \in 1 .. n : \E g \in 1 .. m - 1 :
    LET last == trail[KeyOf(c)][m] IN
    /\ last.what = "unrow" /\ call[last.by].id = c
    /\ trail[KeyOf(c)][g] = [what |-> "gone", by |-> last.by]

\* What the client was told holds.  Of a confirmation: 201 means that the row was
\* inserted, a refusal that it was not.  Of a delete: 204 means that object and row
\* were removed; 403 and 404 that this request removed nothing; 404 for the row,
\* not its class, that the row was not there when it was read, and if it ever was,
\* that a delete had removed the object and then the row, whatever that delete
\* had been told; and a 500 after any lost answer leaves a row that a retry finds,
\* or a row and an object that are removed (worksheet_handlers.go:217 to 251).
AnswersTellTheOutcome ==
  \A r \in Req :
    /\ Is(r, "confirm") =>
         /\ reply[r] = 201 => Happened(KeyOf(r), "row", r)
         /\ reply[r] \in {400, 403, 404, 422} => ~Happened(KeyOf(r), "row", r)
    /\ Is(r, "delete") =>
         /\ reply[r] = 204 => call[r].id \notin rows /\ Happened(KeyOf(r), "gone", r)
         /\ reply[r] \in {403, 404} => ~Happened(KeyOf(r), "gone", r)
         /\ reply[r] = 404 /\ pc[r] = "done" /\ Inserted(call[r].id, looked[r])
              => Removed(call[r].id, looked[r])
         /\ reply[r] = 500 /\ Inserted(call[r].id, Len(trail[KeyOf(r)]))
              => call[r].id \in rows \/ Removed(call[r].id, Len(trail[KeyOf(r)]))
==============================================================================

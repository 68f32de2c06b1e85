--------------------------- MODULE AssetUploadProofs ---------------------------
(* Proofs about AssetUpload, for every set of requests, keys and classes, and *)
(* whether or not the tables have their unique index.                         *)
EXTENDS AssetUpload, SequenceTheorems, TLAPS

Label == {"new", "head", "create", "remove", "unrow", "unowned", "failed", "done"}
Ended == {"unowned", "failed", "done"}
Code == {0, 200, 201, 204, 400, 403, 404, 422, 500}

Links ==
  /\ url \in [Key -> {"unissued", "valid", "expired"}]
  /\ object \subseteq {k \in Key : url[k] # "unissued"}

CallsOK ==
  \A r \in Req : /\ call[r] \in Calls[r]
                 /\ Is(r, "delete") => /\ Is(call[r].id, "confirm")
                                       /\ call[r].kind = call[call[r].id].kind

Typed ==
  /\ Links
  /\ rows \subseteq Req
  /\ CallsOK
  /\ pc \in [Req -> Label]
  /\ reply \in [Req -> Code]
  /\ trail \in [Key -> Seq(Event)]
  /\ looked \in [Req -> Nat] /\ checked \in [Req -> Nat]

\* The i-th event of the key k, and where its request has got to since.
EventOK(k, i) ==
  LET r == trail[k][i].by IN
  /\ trail[k][i].what = "row" =>
       /\ r \in Req /\ Is(r, "confirm") /\ KeyOf(r) = k
       /\ pc[r] = "done" /\ reply[r] \in {201, 500}
  /\ trail[k][i].what = "gone" =>
       /\ r \in Req /\ Is(r, "delete") /\ KeyOf(r) = k
       /\ pc[r] \in {"unrow", "failed", "done"} /\ reply[r] \in {0, 204, 500}
  /\ trail[k][i].what = "unrow" =>
       r \in Req /\ Is(r, "delete") /\ KeyOf(r) = k /\ pc[r] = "done"

\* What must have come before or after an event: a row is there until a delete of
\* it, an object that was removed is away until a PUT, and a delete removes the
\* object before the row.
OrderOK(k, i) ==
  /\ trail[k][i].what = "row" =>
       \/ trail[k][i].by \in rows
       \/ \E m \in i + 1 .. Len(trail[k]) :
            trail[k][m].what = "unrow" /\ call[trail[k][m].by].id = trail[k][i].by
  /\ trail[k][i].what = "gone" /\ k \in object =>
       \E p \in i + 1 .. Len(trail[k]) : trail[k][p].what = "put"
  /\ trail[k][i].what = "unrow" =>
       \E h \in 1 .. i - 1 : trail[k][h] = [what |-> "gone", by |-> trail[k][i].by]

HistoryOK(k) == \A i \in DOMAIN trail[k] : EventOK(k, i) /\ OrderOK(k, i)

StageOK(r) ==
  /\ pc[r] \in {"head", "create"} => Is(r, "confirm")
  /\ pc[r] \in {"remove", "unrow", "unowned", "failed"} => Is(r, "delete")
  /\ reply[r] # 0 <=> pc[r] \in Ended
  /\ r \in rows => Is(r, "confirm") /\ pc[r] = "done"

\* A confirmation has found no row of its table with its key that was not deleted.
LookOK(r) ==
  \A i \in 1 .. looked[r] :
    LET first == trail[KeyOf(r)][i].by IN
    trail[KeyOf(r)][i].what = "row" /\ call[first].kind = call[r].kind =>
      \E m \in i + 1 .. looked[r] :
        trail[KeyOf(r)][m].what = "unrow" /\ call[trail[KeyOf(r)][m].by].id = first

\* It has found an object, which only a delete can have taken away since.
Covered(r) ==
  \/ KeyOf(r) \in object
  \/ \E i \in checked[r] + 1 .. Len(trail[KeyOf(r)]) : trail[KeyOf(r)][i].what = "gone"

ConfirmOK(r) ==
  Is(r, "confirm") =>
    /\ looked[r] <= Len(trail[KeyOf(r)]) /\ checked[r] <= Len(trail[KeyOf(r)])
    /\ LookOK(r)
    /\ pc[r] = "create" \/ r \in rows => Covered(r)
    /\ reply[r] = 201 => Happened(KeyOf(r), "row", r)

\* A delete has seen its row, so that nobody inserts it any more, or has found none
\* because it was not there yet or another delete had removed it.
DeleteOK(d) ==
  Is(d, "delete") =>
    /\ looked[d] <= Len(trail[KeyOf(d)]) /\ checked[d] <= Len(trail[KeyOf(d)])
    /\ reply[d] = 404 /\ pc[d] = "done" =>
         (Inserted(call[d].id, looked[d]) => Removed(call[d].id, looked[d]))
    /\ pc[d] \in {"remove", "unrow"} \/ reply[d] = 204 => pc[call[d].id] = "done"
    /\ pc[d] = "unrow" \/ reply[d] = 204 => Happened(KeyOf(d), "gone", d)
    /\ reply[d] = 204 => call[d].id \notin rows

RequestOK(r) == StageOK(r) /\ ConfirmOK(r) /\ DeleteOK(r)

IInv ==
  /\ Typed
  /\ \A k \in Key : HistoryOK(k)
  /\ \A r \in Req : RequestOK(r)

------------------------------------------------------------------------------
(* Calls and trails.                                                         *)

LEMMA CallTypes ==
  ASSUME Typed, NEW r \in Req
  PROVE  /\ Is(r, "confirm") => KeyOf(r) \in Key /\ ~Is(r, "delete")
         /\ Is(r, "delete") => /\ KeyOf(r) \in Key /\ call[r].id \in Req
                               /\ Is(call[r].id, "confirm")
                               /\ KeyOf(call[r].id) = KeyOf(r)
         /\ Is(r, "upload-url") => ~Is(r, "delete") /\ ~Is(r, "confirm")
<1>1. /\ call[r] \in Calls[r]
      /\ Is(r, "delete") => Is(call[r].id, "confirm")
  BY DEF Typed, CallsOK
<1>2. Is(r, "delete") => call[r].id \in Req
  BY <1>1, AssetAssumption DEF Is
<1>3. \A q \in Req : Is(q, "confirm") => call[q].key \in Key
  BY AssetAssumption DEF Is, Typed, CallsOK
<1>4. QED
  BY <1>1, <1>2, <1>3 DEF KeyOf, Is

LEMMA TrailTypes ==
  ASSUME Typed, NEW k \in Key
  PROVE  /\ trail[k] \in Seq(Event) /\ Len(trail[k]) \in Nat
         /\ DOMAIN trail[k] = 1 .. Len(trail[k])
         /\ \A i \in DOMAIN trail[k] : trail[k][i] \in Event
<1>1. trail[k] \in Seq(Event)
  BY DEF Typed
<1>2. QED
  BY <1>1, LenProperties, ElementOfSeq

\* The trail t is s with at most one more event.
Grows(s, t) ==
  /\ Len(s) \in Nat /\ Len(t) \in Nat
  /\ DOMAIN s = 1 .. Len(s) /\ DOMAIN t = 1 .. Len(t)
  /\ Len(t) \in {Len(s), Len(s) + 1}
  /\ \A i \in 1 .. Len(s) : t[i] = s[i]

LEMMA SameGrows ==
  ASSUME Typed, NEW k \in Key, trail'[k] = trail[k]
  PROVE  Grows(trail[k], trail'[k]) /\ Len(trail[k]) + 1 .. Len(trail'[k]) = {}
<1>1. Len(trail[k]) \in Nat /\ DOMAIN trail[k] = 1 .. Len(trail[k])
  BY TrailTypes
<1>2. QED
  BY <1>1 DEF Grows

\* What Mark does.
LEMMA Marked ==
  ASSUME Typed, NEW k \in Key, NEW what \in {"put", "row", "gone", "unrow"},
         NEW by \in Req \cup {None}, Mark(k, what, by)
  PROVE  /\ trail' \in [Key -> Seq(Event)]
         /\ \A j \in Key : j # k => trail'[j] = trail[j]
         /\ \A j \in Key : Grows(trail[j], trail'[j])
         /\ Len(trail[k]) \in Nat /\ Len(trail'[k]) = Len(trail[k]) + 1
         /\ trail'[k][Len(trail[k]) + 1] = [what |-> what, by |-> by]
<1>1. PICK e \in Event : e = [what |-> what, by |-> by]
  BY DEF Event
<1>2. trail[k] \in Seq(Event) /\ Len(trail[k]) \in Nat /\ DOMAIN trail[k] = 1 .. Len(trail[k])
  BY TrailTypes
<1>3. PICK x : x = Append(trail[k], e)
  OBVIOUS
<1>4. x \in Seq(Event) /\ Len(x) = Len(trail[k]) + 1 /\ x[Len(trail[k]) + 1] = e
      /\ DOMAIN x = 1 .. Len(trail[k]) + 1
      /\ \A i \in 1 .. Len(trail[k]) : x[i] = trail[k][i]
  BY <1>2, <1>3, AppendProperties, LenProperties
<1>5. trail' = [trail EXCEPT ![k] = x] /\ trail \in [Key -> Seq(Event)]
  BY <1>1, <1>3 DEF Mark, Typed
<1>6. trail' \in [Key -> Seq(Event)] /\ trail'[k] = x /\ \A j \in Key : j # k => trail'[j] = trail[j]
  BY <1>4, <1>5
<1>7. Grows(trail[k], trail'[k])
  BY <1>2, <1>4, <1>6 DEF Grows
<1>8. \A j \in Key : Grows(trail[j], trail'[j])
  BY <1>6, <1>7, SameGrows
<1>9. QED
  BY <1>1, <1>2, <1>4, <1>6, <1>8

------------------------------------------------------------------------------
(* What a step leaves to the others.                                         *)

\* A request that has ended stays as it is, and a delete past its object ends.
Forward(q) ==
  /\ pc[q] \in Ended => pc'[q] = pc[q] /\ reply'[q] = reply[q]
  /\ pc[q] = "unrow" => \/ pc'[q] = pc[q] /\ reply'[q] = reply[q]
                        \/ pc'[q] = "done" /\ reply'[q] \in {204, 500}

\* The indices of the events that a step adds to the trail of k.
Fresh(k) == Len(trail[k]) + 1 .. Len(trail'[k])

\* A step of the requests in S, or of the environment if S is empty.
Footprint(S) ==
  /\ call' = call
  /\ \A q \in Req \ S : /\ pc'[q] = pc[q] /\ reply'[q] = reply[q]
                        /\ looked'[q] = looked[q] /\ checked'[q] = checked[q]
  /\ \A q \in Req : Forward(q)
  /\ \A q \in Req : q \in rows' => q \in rows \/ (q \in S /\ pc[q] # "done")
  /\ \A k \in Key :
       /\ Grows(trail[k], trail'[k])
       /\ k \in object => \/ k \in object'
                          \/ \E i \in Fresh(k) : trail'[k][i].what = "gone"

LEMMA HappenedStays ==
  ASSUME NEW k \in Key, Grows(trail[k], trail'[k]), NEW what, NEW r, Happened(k, what, r)
  PROVE  Happened(k, what, r)'
BY DEF Happened, Grows

LEMMA CoveredStays ==
  ASSUME NEW r \in Req, NEW k \in Key, k = KeyOf(r), KeyOf(r)' = k,
         checked[r] \in Nat, checked'[r] = checked[r], checked[r] <= Len(trail[k]),
         Grows(trail[k], trail'[k]),
         k \in object => k \in object' \/ \E i \in Fresh(k) : trail'[k][i].what = "gone",
         Covered(r)
  PROVE  Covered(r)'
<1>1. CASE k \in object
  <2>1. CASE k \in object'
    BY <2>1 DEF Covered
  <2>2. ASSUME NEW i \in Fresh(k), trail'[k][i].what = "gone"
        PROVE  Covered(r)'
    <3>1. i \in checked[r] + 1 .. Len(trail'[k])
      BY DEF Grows, Fresh
    <3>2. QED
      BY <2>2, <3>1 DEF Covered
  <2>3. QED
    BY <1>1, <2>1, <2>2
<1>2. ASSUME NEW i \in checked[r] + 1 .. Len(trail[k]), trail[k][i].what = "gone"
      PROVE  Covered(r)'
  <2>1. i \in checked[r] + 1 .. Len(trail'[k]) /\ trail'[k][i] = trail[k][i]
    BY DEF Grows
  <2>2. QED
    BY <1>2, <2>1 DEF Covered
<1>3. QED
  BY <1>1, <1>2 DEF Covered

LEMMA LookStays ==
  ASSUME NEW r \in Req, NEW k \in Key, k = KeyOf(r), KeyOf(r)' = k,
         looked[r] \in Nat, looked'[r] = looked[r], looked[r] <= Len(trail[k]),
         Grows(trail[k], trail'[k]), call' = call, LookOK(r)
  PROVE  LookOK(r)'
<1>1. PICK n \in Nat : n = looked[r]
  OBVIOUS
<1>2. \A i \in 1 .. n : trail'[k][i] = trail[k][i]
  BY <1>1 DEF Grows
<1> SUFFICES ASSUME NEW i \in 1 .. n, trail'[k][i].what = "row",
                    call[trail'[k][i].by].kind = call[r].kind
             PROVE  \E m \in i + 1 .. n :
                      trail'[k][m].what = "unrow" /\ call[trail'[k][m].by].id = trail'[k][i].by
  BY <1>1 DEF LookOK
<1>3. PICK m \in i + 1 .. n :
        trail[k][m].what = "unrow" /\ call[trail[k][m].by].id = trail[k][i].by
  BY <1>1, <1>2 DEF LookOK
<1>4. m \in 1 .. n
  OBVIOUS
<1>5. QED
  BY <1>2, <1>3, <1>4

LEMMA RemovedStays ==
  ASSUME NEW c \in Req, NEW k \in Key, k = KeyOf(c), KeyOf(c)' = k,
         NEW n \in Nat, n <= Len(trail[k]), Grows(trail[k], trail'[k]), call' = call,
         Inserted(c, n) => Removed(c, n)
  PROVE  Inserted(c, n)' => Removed(c, n)'
<1>1. \A i \in 1 .. n : trail'[k][i] = trail[k][i]
  BY DEF Grows
<1>2. Inserted(c, n)' => Inserted(c, n)
  BY <1>1 DEF Inserted
<1>3. ASSUME Removed(c, n) PROVE Removed(c, n)'
  <2>1. PICK m \in 1 .. n :
          /\ trail[k][m].what = "unrow" /\ call[trail[k][m].by].id = c
          /\ \E g \in 1 .. m - 1 : trail[k][g] = [what |-> "gone", by |-> trail[k][m].by]
    BY <1>3 DEF Removed
  <2>2. PICK g \in 1 .. m - 1 : trail[k][g] = [what |-> "gone", by |-> trail[k][m].by]
    BY <2>1
  <2>3. g \in 1 .. n
    OBVIOUS
  <2>4. trail'[k][m] = trail[k][m] /\ trail'[k][g] = trail[k][g]
    BY <1>1, <2>3
  <2>5. QED
    BY <2>1, <2>2, <2>4 DEF Removed
<1>4. QED
  BY <1>2, <1>3

\* A row that was inserted is there, or a delete removed its object and then it.
LEMMA ThereOrRemoved ==
  ASSUME IInv, NEW c \in Req, NEW k \in Key, k = KeyOf(c),
         NEW n \in Nat, n = Len(trail[k]), Inserted(c, n), c \notin rows
  PROVE  Removed(c, n)
<1>1. \A i \in 1 .. n : OrderOK(k, i)
  BY TrailTypes DEF IInv, HistoryOK
<1>2. PICK i \in 1 .. n : trail[k][i] = [what |-> "row", by |-> c]
  BY DEF Inserted
<1>3. PICK m \in i + 1 .. n : trail[k][m].what = "unrow" /\ call[trail[k][m].by].id = c
  <2>1. OrderOK(k, i) /\ trail[k][i].what = "row" /\ trail[k][i].by = c
    BY <1>1, <1>2
  <2>2. QED
    BY <2>1 DEF OrderOK
<1>4. m \in 1 .. n
  OBVIOUS
<1>5. PICK g \in 1 .. m - 1 : trail[k][g] = [what |-> "gone", by |-> trail[k][m].by]
  BY <1>1, <1>3, <1>4 DEF OrderOK
<1>6. QED
  BY <1>3, <1>4, <1>5 DEF Removed

LEMMA OthersKept ==
  ASSUME IInv, NEW S, Footprint(S), NEW q \in Req \ S
  PROVE  RequestOK(q)'
<1>1. /\ Typed /\ StageOK(q) /\ ConfirmOK(q) /\ DeleteOK(q)
      /\ looked[q] \in Nat /\ checked[q] \in Nat
  BY DEF IInv, RequestOK, Typed
<1>2. /\ call' = call /\ pc'[q] = pc[q] /\ reply'[q] = reply[q]
      /\ looked'[q] = looked[q] /\ checked'[q] = checked[q]
      /\ q \in rows' => q \in rows
  BY DEF Footprint
<1>3. StageOK(q)'
  BY <1>1, <1>2 DEF StageOK, Is, Ended
<1>4. ConfirmOK(q)'
  <2> SUFFICES ASSUME Is(q, "confirm") PROVE ConfirmOK(q)'
    BY <1>2 DEF ConfirmOK, Is
  <2>1. PICK k \in Key : k = KeyOf(q)
    BY <1>1, CallTypes
  <2>2. KeyOf(q)' = k
    BY <1>2, <2>1 DEF KeyOf, Is
  <2>3. /\ looked[q] <= Len(trail[k]) /\ checked[q] <= Len(trail[k])
        /\ LookOK(q)
        /\ pc[q] = "create" \/ q \in rows => Covered(q)
        /\ reply[q] = 201 => Happened(k, "row", q)
    BY <1>1, <2>1 DEF ConfirmOK
  <2>4. /\ Grows(trail[k], trail'[k])
        /\ k \in object => k \in object' \/ \E i \in Fresh(k) : trail'[k][i].what = "gone"
    BY DEF Footprint
  <2>5. looked[q] <= Len(trail'[k]) /\ checked[q] <= Len(trail'[k])
    BY <1>1, <2>3, <2>4 DEF Grows
  <2>6. LookOK(q)'
    BY <1>1, <1>2, <2>1, <2>2, <2>3, <2>4, LookStays
  <2>7. pc[q] = "create" \/ q \in rows => Covered(q)'
    BY <1>1, <1>2, <2>1, <2>2, <2>3, <2>4, CoveredStays
  <2>8. reply'[q] = 201 => Happened(k, "row", q)'
    BY <1>2, <2>3, <2>4, HappenedStays
  <2>9. QED
    BY <1>2, <2>2, <2>5, <2>6, <2>7, <2>8 DEF ConfirmOK, Happened
<1>5. DeleteOK(q)'
  <2> SUFFICES ASSUME Is(q, "delete") PROVE DeleteOK(q)'
    BY <1>2 DEF DeleteOK, Is
  <2>1. PICK k \in Key : k = KeyOf(q)
    BY <1>1, CallTypes
  <2>2. PICK id \in Req : id = call[q].id
    BY <1>1, CallTypes
  <2>3. KeyOf(q)' = k
    BY <1>2, <2>1 DEF KeyOf, Is
  <2>4. /\ pc[q] \in {"remove", "unrow"} \/ reply[q] = 204 => pc[id] = "done"
        /\ reply[q] = 204 => id \notin rows
    BY <1>1, <2>2 DEF DeleteOK
  <2>5. /\ pc[q] \in {"remove", "unrow"} \/ reply[q] = 204 => pc'[id] = "done"
        /\ reply[q] = 204 => id \notin rows'
    BY <2>4 DEF Footprint, Forward, Ended
  <2>6. pc[q] = "unrow" \/ reply[q] = 204 => Happened(k, "gone", q)'
    <3>1. pc[q] = "unrow" \/ reply[q] = 204 => Happened(k, "gone", q)
      BY <1>1, <2>1 DEF DeleteOK
    <3>2. Grows(trail[k], trail'[k])
      BY DEF Footprint
    <3>3. QED
      BY <3>1, <3>2, HappenedStays
  <2>7. /\ Grows(trail[k], trail'[k]) /\ Len(trail[k]) \in Nat /\ call' = call
        /\ looked[q] <= Len(trail[k]) /\ checked[q] <= Len(trail[k])
    BY <1>1, <2>1, TrailTypes DEF Footprint, DeleteOK
  <2>8. looked[q] <= Len(trail'[k]) /\ checked[q] <= Len(trail'[k])
    BY <1>1, <2>7 DEF Grows
  <2>9. ASSUME reply'[q] = 404, pc'[q] = "done"
        PROVE  Inserted(id, looked[q])' => Removed(id, looked[q])'
    <3>1. PICK n \in Nat : n = looked[q] /\ n = looked'[q]
      BY <1>1, <1>2
    <3>2. k = KeyOf(id)
      BY <1>1, <2>1, <2>2, CallTypes
    <3>3. KeyOf(id)' = k
      BY <2>7, <3>2 DEF KeyOf, Is
    <3>4. Inserted(id, n) => Removed(id, n)
      BY <1>1, <1>2, <2>2, <2>9, <3>1 DEF DeleteOK
    <3>5. Inserted(id, n)' => Removed(id, n)'
      BY <2>7, <3>1, <3>2, <3>3, <3>4, RemovedStays
    <3>6. QED
      BY <3>1, <3>5 DEF Inserted, Removed
  <2>10. QED
    BY <1>2, <2>2, <2>3, <2>5, <2>6, <2>8, <2>9 DEF DeleteOK, Happened
<1>6. QED
  BY <1>3, <1>4, <1>5 DEF RequestOK

------------------------------------------------------------------------------
(* The histories.                                                            *)

\* What a step must see to in the trail of k beside its footprint: a row that goes,
\* an object that comes and a new event each have their place in it.
Recorded(k) ==
  /\ \A q \in rows : KeyOf(q) = k =>
       \/ q \in rows'
       \/ \E m \in Fresh(k) : trail'[k][m].what = "unrow" /\ call[trail'[k][m].by].id = q
  /\ k \in object' => k \in object \/ \E p \in Fresh(k) : trail'[k][p].what = "put"
  /\ \A i \in Fresh(k) : EventOK(k, i)' /\ OrderOK(k, i)'

LEMMA EventStays ==
  ASSUME IInv, NEW S, Footprint(S), NEW k \in Key, NEW i \in 1 .. Len(trail[k])
  PROVE  EventOK(k, i)'
<1>1. PICK e : e = trail[k][i]
  OBVIOUS
<1>2. trail'[k][i] = e /\ i \in DOMAIN trail[k]
  BY <1>1 DEF Footprint, Grows
<1>3. EventOK(k, i) /\ call' = call
  BY <1>2 DEF IInv, HistoryOK, Footprint
<1>4. e.by \in Req => Forward(e.by)
  BY DEF Footprint
<1>5. e.what = "row" =>
        /\ e.by \in Req /\ Is(e.by, "confirm") /\ KeyOf(e.by) = k
        /\ pc'[e.by] = "done" /\ reply'[e.by] \in {201, 500}
  BY <1>1, <1>3, <1>4 DEF EventOK, Forward, Ended
<1>6. e.what = "gone" =>
        /\ e.by \in Req /\ Is(e.by, "delete") /\ KeyOf(e.by) = k
        /\ pc'[e.by] \in {"unrow", "failed", "done"} /\ reply'[e.by] \in {0, 204, 500}
  BY <1>1, <1>3, <1>4 DEF EventOK, Forward, Ended
<1>7. e.what = "unrow" =>
        e.by \in Req /\ Is(e.by, "delete") /\ KeyOf(e.by) = k /\ pc'[e.by] = "done"
  BY <1>1, <1>3, <1>4 DEF EventOK, Forward, Ended
<1>8. \A q : \A op : (Is(q, op)' <=> Is(q, op)) /\ KeyOf(q)' = KeyOf(q)
  BY <1>3 DEF Is, KeyOf
<1>9. QED
  BY <1>2, <1>5, <1>6, <1>7, <1>8 DEF EventOK

LEMMA OrderStays ==
  ASSUME IInv, NEW S, Footprint(S), NEW k \in Key, Recorded(k), NEW i \in 1 .. Len(trail[k])
  PROVE  OrderOK(k, i)'
<1>1. PICK e : e = trail[k][i]
  OBVIOUS
<1>2. Grows(trail[k], trail'[k]) /\ call' = call
  BY DEF Footprint
<1>3. trail'[k][i] = e /\ i \in DOMAIN trail[k]
  BY <1>1, <1>2 DEF Grows
<1>4. EventOK(k, i) /\ OrderOK(k, i)
  BY <1>3 DEF IInv, HistoryOK
<1>5. \A m \in i + 1 .. Len(trail[k]) : m \in i + 1 .. Len(trail'[k]) /\ trail'[k][m] = trail[k][m]
  BY <1>2 DEF Grows
<1>6. \A m \in Fresh(k) : m \in i + 1 .. Len(trail'[k])
  BY <1>2 DEF Grows, Fresh
<1>7. e.what = "row" =>
        \/ e.by \in rows'
        \/ \E m \in i + 1 .. Len(trail'[k]) :
             trail'[k][m].what = "unrow" /\ call[trail'[k][m].by].id = e.by
  <2>1. e.what = "row" =>
          \/ e.by \in rows /\ KeyOf(e.by) = k
          \/ \E m \in i + 1 .. Len(trail[k]) :
               trail[k][m].what = "unrow" /\ call[trail[k][m].by].id = e.by
    BY <1>1, <1>4 DEF EventOK, OrderOK
  <2>2. e.by \in rows /\ KeyOf(e.by) = k =>
          \/ e.by \in rows'
          \/ \E m \in Fresh(k) : trail'[k][m].what = "unrow" /\ call[trail'[k][m].by].id = e.by
    BY DEF Recorded
  <2>3. QED
    BY <1>5, <1>6, <2>1, <2>2
<1>8. e.what = "gone" /\ k \in object' => \E p \in i + 1 .. Len(trail'[k]) : trail'[k][p].what = "put"
  <2>1. e.what = "gone" /\ k \in object => \E p \in i + 1 .. Len(trail[k]) : trail[k][p].what = "put"
    BY <1>1, <1>4 DEF OrderOK
  <2>2. k \in object' => k \in object \/ \E p \in Fresh(k) : trail'[k][p].what = "put"
    BY DEF Recorded
  <2>3. QED
    BY <1>5, <1>6, <2>1, <2>2
<1>9. e.what = "unrow" => \E h \in 1 .. i - 1 : trail'[k][h] = [what |-> "gone", by |-> e.by]
  <2>1. e.what = "unrow" => \E h \in 1 .. i - 1 : trail[k][h] = [what |-> "gone", by |-> e.by]
    BY <1>1, <1>4 DEF OrderOK
  <2>2. \A h \in 1 .. i - 1 : trail'[k][h] = trail[k][h]
    BY <1>2 DEF Grows
  <2>3. QED
    BY <2>1, <2>2
<1>10. QED
  BY <1>2, <1>3, <1>7, <1>8, <1>9 DEF OrderOK

LEMMA HistoryKept ==
  ASSUME IInv, NEW S, Footprint(S), NEW k \in Key, Recorded(k)
  PROVE  HistoryOK(k)'
<1>1. Grows(trail[k], trail'[k])
  BY DEF Footprint
<1> SUFFICES ASSUME NEW i \in DOMAIN trail'[k] PROVE EventOK(k, i)' /\ OrderOK(k, i)'
  BY DEF HistoryOK
<1>2. i \in 1 .. Len(trail[k]) \/ i \in Fresh(k)
  BY <1>1 DEF Grows, Fresh
<1>3. CASE i \in 1 .. Len(trail[k])
  BY <1>3, EventStays, OrderStays
<1>4. CASE i \in Fresh(k)
  BY <1>4 DEF Recorded
<1>5. QED
  BY <1>2, <1>3, <1>4

\* A trail without a new event, a row that goes or an object that comes.
LEMMA QuietlyRecorded ==
  ASSUME Typed, NEW k \in Key, trail'[k] = trail[k], k \in object' => k \in object,
         \A q \in rows : KeyOf(q) = k => q \in rows'
  PROVE  Recorded(k)
<1>1. Fresh(k) = {}
  BY SameGrows DEF Fresh
<1>2. QED
  BY <1>1 DEF Recorded

LEMMA Together ==
  ASSUME IInv, NEW S, Footprint(S), Typed', \A k \in Key : Recorded(k),
         \A q \in S : RequestOK(q)'
  PROVE  IInv'
<1>1. \A k \in Key : HistoryOK(k)'
  BY HistoryKept
<1>2. \A q \in Req : RequestOK(q)'
  BY OthersKept
<1>3. QED
  BY <1>1, <1>2 DEF IInv

LEMMA CallsKept ==
  ASSUME CallsOK, call' = call
  PROVE  CallsOK'
BY DEF CallsOK, Is

------------------------------------------------------------------------------
(* The steps that leave rows, objects and trails alone.                      *)

LEMMA QuietFootprint ==
  ASSUME Typed, NEW S, call' = call, rows' = rows, object' = object, trail' = trail,
         \A q \in Req \ S : /\ pc'[q] = pc[q] /\ reply'[q] = reply[q]
                            /\ looked'[q] = looked[q] /\ checked'[q] = checked[q],
         \A q \in S : Forward(q)
  PROVE  Footprint(S) /\ \A k \in Key : Recorded(k)
<1>1. \A q \in Req : Forward(q)
  BY DEF Forward
<1>2. \A k \in Key : Grows(trail[k], trail'[k])
  BY SameGrows
<1>3. \A k \in Key : Recorded(k)
  BY QuietlyRecorded
<1>4. QED
  BY <1>1, <1>2, <1>3 DEF Footprint

Ends(r, label, code) ==
  /\ pc' = [pc EXCEPT ![r] = label] /\ reply' = [reply EXCEPT ![r] = code]
  /\ UNCHANGED <<object, rows, call, trail, looked, checked>>

\* An answer that tells of no effect.
LEMMA EndsQuietly ==
  ASSUME IInv, NEW r \in Req, NEW label \in Ended,
         NEW code \in {200, 400, 403, 404, 422, 500},
         pc[r] \notin Ended, pc[r] = "unrow" => label = "done" /\ code = 500,
         IF label = "done" THEN code = 404 => ~Is(r, "delete") ELSE Is(r, "delete"),
         Links', Ends(r, label, code)
  PROVE  IInv'
<1> USE DEF Ends
<1>1. Typed /\ CallsOK /\ StageOK(r) /\ ConfirmOK(r) /\ DeleteOK(r)
  BY DEF IInv, RequestOK, Typed
<1>2. /\ pc \in [Req -> Label] /\ reply \in [Req -> Code]
  BY <1>1 DEF Typed
<1>3. /\ pc'[r] = label /\ reply'[r] = code
      /\ pc' \in [Req -> Label] /\ reply' \in [Req -> Code]
      /\ \A q \in Req \ {r} : pc'[q] = pc[q] /\ reply'[q] = reply[q]
  BY <1>2 DEF Label, Code, Ended
<1>4. Typed'
  BY <1>1, <1>3, CallsKept DEF Typed
<1>5. Footprint({r}) /\ \A k \in Key : Recorded(k)
  <2>1. Forward(r)
    BY <1>3 DEF Forward, Ended
  <2>2. QED
    BY <1>1, <1>3, <2>1, QuietFootprint
<1>6. r \notin rows /\ reply'[r] \notin {0, 201, 204} /\ pc'[r] \in Ended
  BY <1>1, <1>3 DEF StageOK, Ended
<1>7. StageOK(r)'
  BY <1>3, <1>6 DEF StageOK, Is, Ended
<1>8. ConfirmOK(r)'
  <2> SUFFICES ASSUME Is(r, "confirm") PROVE ConfirmOK(r)'
    BY DEF ConfirmOK, Is
  <2>1. PICK k \in Key : k = KeyOf(r)
    BY <1>1, CallTypes
  <2>2. KeyOf(r)' = k
    BY <2>1 DEF KeyOf, Is
  <2>3. looked[r] \in Nat /\ looked[r] <= Len(trail[k]) /\ checked[r] <= Len(trail[k]) /\ LookOK(r)
    BY <1>1, <2>1 DEF ConfirmOK, Typed
  <2>4. LookOK(r)'
    BY <1>1, <2>1, <2>2, <2>3, SameGrows, LookStays
  <2>5. QED
    BY <1>6, <2>2, <2>3, <2>4 DEF ConfirmOK, Ended
<1>9. DeleteOK(r)'
  <2> SUFFICES ASSUME Is(r, "delete") PROVE DeleteOK(r)'
    BY DEF DeleteOK, Is
  <2>1. KeyOf(r)' = KeyOf(r)
    BY DEF KeyOf, Is
  <2>2. reply'[r] \notin {0, 201, 204} /\ pc'[r] \notin {"remove", "unrow"}
        /\ ~(reply'[r] = 404 /\ pc'[r] = "done")
    BY <1>3, <1>6 DEF Ended
  <2>3. QED
    BY <1>1, <2>1, <2>2 DEF DeleteOK
<1>10. QED
  BY <1>4, <1>5, <1>7, <1>8, <1>9, Together DEF RequestOK

LEMMA RefuseInv ==
  ASSUME IInv, NEW r \in Req, Refuse(r)
  PROVE  IInv'
<1>1. PICK code \in {400, 403, 404, 422, 500} :
        Answer(r, code) /\ (code = 404 => ~Is(r, "delete"))
  BY DEF Refuse
<1>2. pc[r] = "new" /\ UNCHANGED <<url, object, rows, call, trail, looked, checked>>
  BY DEF Refuse
<1>3. Ends(r, "done", code)
  BY <1>1, <1>2 DEF Answer, Goto, Ends
<1>4. Links'
  BY <1>2 DEF IInv, Typed, Links
<1>5. code \in {200, 400, 403, 404, 422, 500}
  OBVIOUS
<1>6. QED
  BY <1>1, <1>2, <1>3, <1>4, <1>5, EndsQuietly DEF Ended

LEMMA UploadURLInv ==
  ASSUME IInv, NEW r \in Req, UploadURL(r)
  PROVE  IInv'
<1>1. PICK k \in Key : url' = [url EXCEPT ![k] = "valid"]
  BY DEF UploadURL
<1>2. pc[r] = "new" /\ object' = object /\ Ends(r, "done", 200)
  BY DEF UploadURL, Answer, Goto, Ends
<1>3. Links'
  BY <1>1, <1>2 DEF IInv, Typed, Links
<1>4. QED
  BY <1>2, <1>3, EndsQuietly DEF Ended

LEMMA ExpireInv ==
  ASSUME IInv, NEW k \in Key, Expire(k)
  PROVE  IInv'
<1>1. /\ Typed /\ CallsOK /\ url' = [url EXCEPT ![k] = "expired"] /\ url[k] = "valid"
      /\ UNCHANGED <<object, rows, call, pc, reply, trail, looked, checked>>
  BY DEF Expire, IInv, Typed
<1>2. Links'
  BY <1>1 DEF Typed, Links
<1>3. Typed'
  BY <1>1, <1>2, CallsKept DEF Typed
<1>4. Footprint({}) /\ \A j \in Key : Recorded(j)
  BY <1>1, QuietFootprint
<1>5. QED
  BY <1>3, <1>4, Together

LEMMA PutInv ==
  ASSUME IInv, NEW k \in Key, Put(k)
  PROVE  IInv'
<1>1. /\ Typed /\ CallsOK /\ Links /\ url[k] = "valid" /\ object' = object \cup {k}
      /\ Mark(k, "put", None) /\ UNCHANGED <<url, rows, call, pc, reply, looked, checked>>
  BY DEF Put, IInv, Typed
<1>2. /\ trail' \in [Key -> Seq(Event)]
      /\ \A j \in Key : j # k => trail'[j] = trail[j]
      /\ \A j \in Key : Grows(trail[j], trail'[j])
      /\ Len(trail[k]) \in Nat /\ Len(trail'[k]) = Len(trail[k]) + 1
      /\ trail'[k][Len(trail[k]) + 1] = [what |-> "put", by |-> None]
  BY <1>1, Marked
<1>3. Links'
  BY <1>1 DEF Links
<1>4. Typed'
  BY <1>1, <1>2, <1>3, CallsKept DEF Typed
<1>5. Footprint({})
  BY <1>1, <1>2 DEF Footprint, Forward
<1>6. Recorded(k)
  <2>1. PICK n : n = Len(trail[k]) + 1
    OBVIOUS
  <2>2. Fresh(k) = {n} /\ trail'[k][n].what = "put"
    BY <1>2, <2>1 DEF Fresh
  <2>3. EventOK(k, n)' /\ OrderOK(k, n)'
    BY <2>2 DEF EventOK, OrderOK
  <2>4. QED
    BY <1>1, <2>2, <2>3 DEF Recorded
<1>7. ASSUME NEW j \in Key, j # k PROVE Recorded(j)
  BY <1>1, <1>2, <1>7, QuietlyRecorded
<1>8. QED
  BY <1>4, <1>5, <1>6, <1>7, Together

LEMMA LookForRowInv ==
  ASSUME IInv, NEW r \in Req, LookForRow(r)
  PROVE  IInv'
<1>1. /\ pc[r] = "new" /\ Is(r, "confirm")
      /\ UNCHANGED <<url, object, rows, call, trail, checked>>
  BY DEF LookForRow
<1>2. /\ Typed /\ CallsOK /\ Links /\ StageOK(r) /\ ConfirmOK(r)
      /\ pc \in [Req -> Label] /\ looked \in [Req -> Nat]
  BY DEF IInv, RequestOK, Typed
<1>3. CASE Confirmed(r)
  <2>1. Ends(r, "done", 400)
    BY <1>1, <1>3 DEF LookForRow, Answer, Goto, Ends
  <2>2. Links'
    BY <1>1, <1>2 DEF Links
  <2>3. QED
    BY <1>1, <2>1, <2>2, EndsQuietly DEF Ended
<1>4. CASE ~Confirmed(r)
  <2>1. PICK k \in Key : k = KeyOf(r)
    BY <1>1, <1>2, CallTypes
  <2>2. PICK n \in Nat : n = Len(trail[k])
    BY <1>2, TrailTypes
  <2>3. /\ pc' = [pc EXCEPT ![r] = "head"] /\ reply' = reply
        /\ looked' = [looked EXCEPT ![r] = n]
    BY <1>4, <2>1, <2>2 DEF LookForRow, Goto
  <2>4. /\ pc'[r] = "head" /\ looked'[r] = n
        /\ pc' \in [Req -> Label] /\ looked' \in [Req -> Nat]
        /\ \A q \in Req \ {r} : pc'[q] = pc[q] /\ looked'[q] = looked[q]
    BY <1>2, <2>3 DEF Label
  <2>5. Typed'
    <3>1. Links'
      BY <1>1, <1>2 DEF Links
    <3>2. QED
      BY <1>1, <1>2, <2>3, <2>4, <3>1, CallsKept DEF Typed
  <2>6. Footprint({r}) /\ \A j \in Key : Recorded(j)
    <3>1. Forward(r)
      BY <1>1 DEF Forward, Ended
    <3>2. QED
      BY <1>1, <1>2, <2>3, <2>4, <3>1, QuietFootprint
  <2>7. r \notin rows /\ reply[r] = 0
    BY <1>1, <1>2 DEF StageOK, Ended
  <2>8. StageOK(r)'
    BY <1>1, <2>3, <2>4, <2>7 DEF StageOK, Is, Ended
  <2>9. LookOK(r)'
    <3>1. ASSUME NEW i \in 1 .. n, trail[k][i].what = "row",
                 call[trail[k][i].by].kind = call[r].kind
          PROVE  \E m \in i + 1 .. n :
                   trail[k][m].what = "unrow" /\ call[trail[k][m].by].id = trail[k][i].by
      <4>1. EventOK(k, i) /\ OrderOK(k, i)
        BY <1>2, <2>2, TrailTypes DEF IInv, HistoryOK
      <4>2. trail[k][i].by \notin rows
        BY <1>4, <2>1, <3>1, <4>1 DEF Confirmed, EventOK
      <4>3. QED
        BY <2>2, <3>1, <4>1, <4>2 DEF OrderOK
    <3>2. KeyOf(r)' = k
      BY <1>1, <2>1 DEF KeyOf, Is
    <3>3. QED
      BY <1>1, <2>4, <3>1, <3>2 DEF LookOK
  <2>10. ConfirmOK(r)'
    <3>1. KeyOf(r)' = k
      BY <1>1, <2>1 DEF KeyOf, Is
    <3>2. checked[r] <= n
      BY <1>1, <1>2, <2>1, <2>2 DEF ConfirmOK
    <3>3. QED
      BY <1>1, <2>2, <2>3, <2>4, <2>7, <2>9, <3>1, <3>2 DEF ConfirmOK
  <2>11. DeleteOK(r)'
    BY <1>1, <1>2, CallTypes DEF DeleteOK, Is
  <2>12. QED
    BY <2>5, <2>6, <2>8, <2>10, <2>11, Together DEF RequestOK
<1>5. QED
  BY <1>3, <1>4

LEMMA CheckObjectInv ==
  ASSUME IInv, NEW r \in Req, CheckObject(r)
  PROVE  IInv'
<1>1. pc[r] = "head" /\ UNCHANGED <<url, object, rows, call, trail, looked>>
  BY DEF CheckObject
<1>2. /\ Typed /\ CallsOK /\ Links /\ StageOK(r) /\ ConfirmOK(r)
      /\ pc \in [Req -> Label] /\ checked \in [Req -> Nat]
  BY DEF IInv, RequestOK, Typed
<1>3. CASE Answer(r, 400) /\ UNCHANGED checked
  <2>1. Ends(r, "done", 400)
    BY <1>1, <1>3 DEF Answer, Goto, Ends
  <2>2. Links'
    BY <1>1, <1>2 DEF Links
  <2>3. QED
    BY <1>1, <2>1, <2>2, EndsQuietly DEF Ended
<1>4. CASE /\ KeyOf(r) \in object
           /\ Goto(r, "create")
           /\ checked' = [checked EXCEPT ![r] = Len(trail[KeyOf(r)])]
           /\ UNCHANGED reply
  <2>1. Is(r, "confirm")
    BY <1>1, <1>2 DEF StageOK, Ended
  <2>2. PICK k \in Key : k = KeyOf(r)
    BY <1>2, <2>1, CallTypes
  <2>3. PICK n \in Nat : n = Len(trail[k])
    BY <1>2, TrailTypes
  <2>4. /\ pc' = [pc EXCEPT ![r] = "create"] /\ reply' = reply
        /\ checked' = [checked EXCEPT ![r] = n] /\ k \in object
    BY <1>4, <2>2, <2>3 DEF Goto
  <2>5. /\ pc'[r] = "create" /\ checked'[r] = n
        /\ pc' \in [Req -> Label] /\ checked' \in [Req -> Nat]
        /\ \A q \in Req \ {r} : pc'[q] = pc[q] /\ checked'[q] = checked[q]
    BY <1>2, <2>4 DEF Label
  <2>6. Typed'
    <3>1. Links'
      BY <1>1, <1>2 DEF Links
    <3>2. QED
      BY <1>1, <1>2, <2>4, <2>5, <3>1, CallsKept DEF Typed
  <2>7. Footprint({r}) /\ \A j \in Key : Recorded(j)
    <3>1. Forward(r)
      BY <1>1 DEF Forward, Ended
    <3>2. QED
      BY <1>1, <1>2, <2>4, <2>5, <3>1, QuietFootprint
  <2>8. r \notin rows /\ reply[r] = 0
    BY <1>1, <1>2 DEF StageOK, Ended
  <2>9. StageOK(r)'
    BY <1>1, <2>1, <2>4, <2>5, <2>8 DEF StageOK, Is, Ended
  <2>10. KeyOf(r)' = k
    BY <1>1, <2>2 DEF KeyOf, Is
  <2>11. Covered(r)' /\ LookOK(r)'
    <3>1. LookOK(r)
      BY <1>2, <2>1 DEF ConfirmOK
    <3>2. LookOK(r)'
      BY <1>1, <2>2, <2>10, <3>1 DEF LookOK
    <3>3. Covered(r)'
      BY <1>1, <2>4, <2>10 DEF Covered
    <3>4. QED
      BY <3>2, <3>3
  <2>12. ConfirmOK(r)'
    <3>1. looked[r] <= n
      BY <1>2, <2>1, <2>2, <2>3 DEF ConfirmOK
    <3>2. QED
      BY <1>1, <2>3, <2>4, <2>5, <2>8, <2>10, <2>11, <3>1 DEF ConfirmOK
  <2>13. DeleteOK(r)'
    BY <1>1, <1>2, <2>1, CallTypes DEF DeleteOK, Is
  <2>14. QED
    BY <2>6, <2>7, <2>9, <2>12, <2>13, Together DEF RequestOK
<1>5. QED
  BY <1>3, <1>4 DEF CheckObject

------------------------------------------------------------------------------
(* The INSERT, and the three steps of a delete.                              *)

LEMMA CreateRowInv ==
  ASSUME IInv, NEW r \in Req, CreateRow(r)
  PROVE  IInv'
<1>1. pc[r] = "create" /\ UNCHANGED <<url, object, call, looked, checked>>
  BY DEF CreateRow
<1>2. /\ Typed /\ CallsOK /\ Links /\ StageOK(r) /\ ConfirmOK(r)
      /\ pc \in [Req -> Label] /\ reply \in [Req -> Code] /\ rows \subseteq Req
      /\ looked[r] \in Nat /\ checked[r] \in Nat
  BY DEF IInv, RequestOK, Typed
<1>3. Links'
  BY <1>1, <1>2 DEF Links
<1>4. CASE Answer(r, 500) /\ UNCHANGED <<rows, trail>>
  <2>1. Ends(r, "done", 500)
    BY <1>1, <1>4 DEF Answer, Goto, Ends
  <2>2. QED
    BY <1>1, <1>3, <2>1, EndsQuietly DEF Ended
<1>5. ASSUME NEW code \in {201, 500}, Answer(r, code),
             rows' = rows \cup {r}, Mark(KeyOf(r), "row", r)
      PROVE  IInv'
  <2>1. Is(r, "confirm") /\ r \notin rows
    BY <1>1, <1>2 DEF StageOK, Ended
  <2>2. PICK k \in Key : k = KeyOf(r)
    BY <1>2, <2>1, CallTypes
  <2>3. KeyOf(r)' = k /\ Is(r, "confirm")'
    BY <1>1, <2>1, <2>2 DEF KeyOf, Is
  <2>4. /\ pc'[r] = "done" /\ reply'[r] = code
        /\ pc' \in [Req -> Label] /\ reply' \in [Req -> Code]
        /\ \A q \in Req \ {r} : pc'[q] = pc[q] /\ reply'[q] = reply[q]
    BY <1>2, <1>5 DEF Answer, Goto, Label, Code
  <2>5. Mark(k, "row", r)
    BY <1>5, <2>2
  <2>6. /\ trail' \in [Key -> Seq(Event)]
        /\ \A j \in Key : j # k => trail'[j] = trail[j]
        /\ \A j \in Key : Grows(trail[j], trail'[j])
        /\ Len(trail[k]) \in Nat /\ Len(trail'[k]) = Len(trail[k]) + 1
        /\ trail'[k][Len(trail[k]) + 1] = [what |-> "row", by |-> r]
    BY <1>2, <2>5, Marked
  <2>7. PICK n : n = Len(trail[k]) + 1
    OBVIOUS
  <2>8. /\ Fresh(k) = {n} /\ n \in 1 .. Len(trail'[k])
        /\ trail'[k][n] = [what |-> "row", by |-> r]
    BY <2>6, <2>7 DEF Fresh
  <2>9. Typed'
    BY <1>1, <1>2, <1>3, <1>5, <2>4, <2>6, CallsKept DEF Typed
  <2>10. Footprint({r})
    <3>1. \A q \in Req : Forward(q)
      BY <1>1, <2>4 DEF Forward, Ended
    <3>2. QED
      BY <1>1, <1>5, <2>4, <2>6, <3>1 DEF Footprint
  <2>11. Recorded(k)
    <3>1. EventOK(k, n)'
      BY <2>3, <2>4, <2>8 DEF EventOK
    <3>2. OrderOK(k, n)'
      BY <1>5, <2>8 DEF OrderOK
    <3>3. QED
      BY <1>1, <1>5, <2>8, <3>1, <3>2 DEF Recorded
  <2>12. ASSUME NEW j \in Key, j # k PROVE Recorded(j)
    BY <1>1, <1>2, <1>5, <2>6, <2>12, QuietlyRecorded
  <2>13. StageOK(r)'
    BY <2>3, <2>4 DEF StageOK, Ended
  <2>14. ConfirmOK(r)'
    <3>1. looked[r] <= Len(trail[k]) /\ checked[r] <= Len(trail[k]) /\ LookOK(r) /\ Covered(r)
      BY <1>1, <1>2, <2>1, <2>2 DEF ConfirmOK
    <3>2. LookOK(r)'
      BY <1>1, <1>2, <2>2, <2>3, <2>6, <3>1, LookStays
    <3>3. Covered(r)'
      BY <1>1, <1>2, <2>2, <2>3, <2>6, <3>1, CoveredStays
    <3>4. Happened(k, "row", r)'
      BY <2>8 DEF Happened
    <3>5. looked[r] <= Len(trail'[k]) /\ checked[r] <= Len(trail'[k])
      BY <1>2, <2>6, <3>1
    <3>6. QED
      BY <1>1, <2>3, <3>2, <3>3, <3>4, <3>5 DEF ConfirmOK, Happened
  <2>15. DeleteOK(r)'
    BY <1>2, <2>1, <1>1, CallTypes DEF DeleteOK, Is
  <2>16. QED
    BY <2>9, <2>10, <2>11, <2>12, <2>13, <2>14, <2>15, Together DEF RequestOK
<1>6. QED
  BY <1>4, <1>5 DEF CreateRow

LEMMA ReadRowInv ==
  ASSUME IInv, NEW d \in Req, ReadRow(d)
  PROVE  IInv'
<1>1. /\ pc[d] = "new" /\ Is(d, "delete")
      /\ UNCHANGED <<url, object, rows, call, trail, checked>>
  BY DEF ReadRow
<1>2. /\ Typed /\ CallsOK /\ Links /\ StageOK(d) /\ DeleteOK(d)
      /\ pc \in [Req -> Label] /\ reply \in [Req -> Code] /\ looked \in [Req -> Nat]
  BY DEF IInv, RequestOK, Typed
<1>3. Links'
  BY <1>1, <1>2 DEF Links
<1>4. PICK k \in Key : k = KeyOf(d) /\ KeyOf(d)' = k
  BY <1>1, <1>2, CallTypes DEF KeyOf, Is
<1>5. PICK id \in Req : id = call[d].id /\ k = KeyOf(id) /\ KeyOf(id)' = k
  BY <1>1, <1>2, <1>4, CallTypes DEF KeyOf, Is
<1>6. reply[d] = 0 /\ d \notin rows
  BY <1>1, <1>2 DEF StageOK, Ended
<1>7. Forward(d)
  BY <1>1 DEF Forward, Ended
<1>8. ConfirmOK(d)'
  BY <1>1, <1>2, CallTypes DEF ConfirmOK, Is
<1>9. CASE /\ call[d].id \notin rows
           /\ Answer(d, 404)
           /\ looked' = [looked EXCEPT ![d] = Len(trail[KeyOf(d)])]
  <2>1. PICK n \in Nat : n = Len(trail[k])
    BY <1>2, TrailTypes
  <2>2. /\ pc' = [pc EXCEPT ![d] = "done"] /\ reply' = [reply EXCEPT ![d] = 404]
        /\ looked' = [looked EXCEPT ![d] = n]
    BY <1>4, <1>9, <2>1 DEF Answer, Goto
  <2>3. /\ pc'[d] = "done" /\ reply'[d] = 404 /\ looked'[d] = n
        /\ pc' \in [Req -> Label] /\ reply' \in [Req -> Code] /\ looked' \in [Req -> Nat]
        /\ \A q \in Req \ {d} : /\ pc'[q] = pc[q] /\ reply'[q] = reply[q]
                               /\ looked'[q] = looked[q]
    BY <1>2, <2>2 DEF Label, Code
  <2>4. Typed'
    BY <1>1, <1>2, <1>3, <2>3, CallsKept DEF Typed
  <2>5. Footprint({d}) /\ \A j \in Key : Recorded(j)
    BY <1>1, <1>2, <1>7, <2>3, QuietFootprint
  <2>6. StageOK(d)'
    BY <1>1, <1>6, <2>3 DEF StageOK, Ended
  <2>7. Inserted(id, n)' => Removed(id, n)'
    <3>1. id \notin rows
      BY <1>5, <1>9
    <3>2. Inserted(id, n) => Removed(id, n)
      BY <1>5, <2>1, <3>1, ThereOrRemoved
    <3>3. (Inserted(id, n)' <=> Inserted(id, n)) /\ (Removed(id, n)' <=> Removed(id, n))
      BY <1>1, <1>5 DEF Inserted, Removed
    <3>4. QED
      BY <3>2, <3>3
  <2>8. DeleteOK(d)'
    <3>1. checked[d] <= n
      BY <1>1, <1>2, <1>4, <2>1 DEF DeleteOK
    <3>2. Inserted(id, looked[d])' => Removed(id, looked[d])'
      BY <2>3, <2>7 DEF Inserted, Removed
    <3>3. QED
      BY <1>1, <1>4, <1>5, <2>1, <2>3, <3>1, <3>2 DEF DeleteOK
  <2>9. QED
    BY <1>8, <2>4, <2>5, <2>6, <2>8, Together DEF RequestOK
<1>10. CASE /\ call[d].id \in rows
            /\ Goto(d, "remove") /\ UNCHANGED reply
            /\ UNCHANGED looked
  <2>1. pc' = [pc EXCEPT ![d] = "remove"] /\ reply' = reply /\ looked' = looked
    BY <1>10 DEF Goto
  <2>2. /\ pc'[d] = "remove" /\ pc' \in [Req -> Label]
        /\ \A q \in Req \ {d} : pc'[q] = pc[q]
    BY <1>2, <2>1 DEF Label
  <2>3. pc[id] = "done" /\ id # d
    <3>1. StageOK(id)
      BY DEF IInv, RequestOK
    <3>2. QED
      BY <1>1, <1>5, <1>10, <3>1 DEF StageOK, Ended
  <2>4. Typed'
    BY <1>1, <1>2, <1>3, <2>1, <2>2, CallsKept DEF Typed
  <2>5. Footprint({d}) /\ \A j \in Key : Recorded(j)
    BY <1>1, <1>2, <1>7, <2>1, <2>2, QuietFootprint
  <2>6. StageOK(d)'
    BY <1>1, <1>6, <2>1, <2>2 DEF StageOK, Is, Ended
  <2>7. DeleteOK(d)'
    <3>1. looked[d] <= Len(trail[k]) /\ checked[d] <= Len(trail[k])
      BY <1>1, <1>2, <1>4 DEF DeleteOK
    <3>2. QED
      BY <1>1, <1>4, <1>5, <1>6, <2>1, <2>2, <2>3, <3>1 DEF DeleteOK
  <2>8. QED
    BY <1>8, <2>4, <2>5, <2>6, <2>7, Together DEF RequestOK
<1>11. ASSUME NEW code \in {403, 404}, Goto(d, "unowned"),
              reply' = [reply EXCEPT ![d] = code], UNCHANGED looked
       PROVE  IInv'
  <2>1. Ends(d, "unowned", code)
    BY <1>1, <1>11 DEF Goto, Ends
  <2>2. pc[d] \notin Ended /\ "unowned" \in Ended
    BY <1>1 DEF Ended
  <2>3. QED
    BY <1>1, <1>3, <2>1, <2>2, EndsQuietly
<1>12. \/ /\ call[d].id \notin rows
          /\ Answer(d, 404)
          /\ looked' = [looked EXCEPT ![d] = Len(trail[KeyOf(d)])]
       \/ /\ call[d].id \in rows
          /\ Goto(d, "remove") /\ UNCHANGED reply
          /\ UNCHANGED looked
       \/ \E code \in {403, 404} :
            /\ Goto(d, "unowned") /\ reply' = [reply EXCEPT ![d] = code]
            /\ UNCHANGED looked
  BY DEF ReadRow
<1>13. QED
  BY <1>9, <1>10, <1>11, <1>12

LEMMA RemoveObjectInv ==
  ASSUME IInv, NEW d \in Req, RemoveObject(d)
  PROVE  IInv'
<1>1. pc[d] = "remove" /\ UNCHANGED <<url, rows, call, looked, checked>>
  BY DEF RemoveObject
<1>2. /\ Typed /\ CallsOK /\ Links /\ StageOK(d) /\ DeleteOK(d)
      /\ pc \in [Req -> Label] /\ reply \in [Req -> Code]
  BY DEF IInv, RequestOK, Typed
<1>3. Is(d, "delete") /\ reply[d] = 0 /\ d \notin rows
  BY <1>1, <1>2 DEF StageOK, Ended
<1>4. CASE Goto(d, "failed") /\ reply' = [reply EXCEPT ![d] = 500] /\ UNCHANGED <<object, trail>>
  <2>1. Ends(d, "failed", 500)
    BY <1>1, <1>4 DEF Goto, Ends
  <2>2. Links'
    BY <1>1, <1>2, <1>4 DEF Links
  <2>3. QED
    BY <1>1, <1>3, <2>1, <2>2, EndsQuietly DEF Ended
<1>5. ASSUME object' = object \ {KeyOf(d)}, Mark(KeyOf(d), "gone", d),
             \/ Goto(d, "failed") /\ reply' = [reply EXCEPT ![d] = 500]
             \/ Goto(d, "unrow") /\ UNCHANGED reply
      PROVE  IInv'
  <2>1. PICK k \in Key : k = KeyOf(d)
    BY <1>2, <1>3, CallTypes
  <2>2. KeyOf(d)' = k /\ Is(d, "delete")'
    BY <1>1, <1>3, <2>1 DEF KeyOf, Is
  <2>3. PICK id \in Req : id = call[d].id
    BY <1>2, <1>3, CallTypes
  <2>4. /\ \/ pc'[d] = "failed" /\ reply'[d] = 500
           \/ pc'[d] = "unrow" /\ reply'[d] = 0
        /\ pc' \in [Req -> Label] /\ reply' \in [Req -> Code]
        /\ \A q \in Req \ {d} : pc'[q] = pc[q] /\ reply'[q] = reply[q]
    BY <1>2, <1>3, <1>5 DEF Goto, Label, Code
  <2>5. Mark(k, "gone", d) /\ object' = object \ {k}
    BY <1>5, <2>1
  <2>6. /\ trail' \in [Key -> Seq(Event)]
        /\ \A j \in Key : j # k => trail'[j] = trail[j]
        /\ \A j \in Key : Grows(trail[j], trail'[j])
        /\ Len(trail[k]) \in Nat /\ Len(trail'[k]) = Len(trail[k]) + 1
        /\ trail'[k][Len(trail[k]) + 1] = [what |-> "gone", by |-> d]
    BY <1>2, <2>5, Marked
  <2>7. PICK n : n = Len(trail[k]) + 1
    OBVIOUS
  <2>8. /\ Fresh(k) = {n} /\ n \in 1 .. Len(trail'[k])
        /\ trail'[k][n] = [what |-> "gone", by |-> d]
    BY <2>6, <2>7 DEF Fresh
  <2>9. Links'
    BY <1>1, <1>2, <2>5 DEF Links
  <2>10. Typed'
    BY <1>1, <1>2, <2>4, <2>6, <2>9, CallsKept DEF Typed
  <2>11. Footprint({d})
    <3>1. \A q \in Req : Forward(q)
      BY <1>1, <2>4 DEF Forward, Ended
    <3>2. \A j \in Key : j \in object => j \in object' \/ \E i \in Fresh(j) : trail'[j][i].what = "gone"
      BY <2>5, <2>8
    <3>3. QED
      BY <1>1, <2>4, <2>6, <3>1, <3>2 DEF Footprint
  <2>12. Recorded(k)
    <3>1. EventOK(k, n)'
      BY <2>2, <2>4, <2>8 DEF EventOK
    <3>2. OrderOK(k, n)'
      BY <2>5, <2>8 DEF OrderOK
    <3>3. QED
      BY <1>1, <2>5, <2>8, <3>1, <3>2 DEF Recorded
  <2>13. ASSUME NEW j \in Key, j # k PROVE Recorded(j)
    BY <1>1, <1>2, <2>5, <2>6, <2>13, QuietlyRecorded
  <2>14. StageOK(d)'
    BY <1>1, <1>3, <2>2, <2>4 DEF StageOK, Ended
  <2>15. ConfirmOK(d)'
    BY <1>1, <1>2, <1>3, CallTypes DEF ConfirmOK, Is
  <2>16. DeleteOK(d)'
    <3>1. pc[id] = "done" /\ id # d
      BY <1>1, <1>2, <1>3, <2>3 DEF DeleteOK
    <3>2. Happened(k, "gone", d)'
      BY <2>8 DEF Happened
    <3>3. looked[d] <= Len(trail'[k]) /\ checked[d] <= Len(trail'[k])
      BY <1>2, <1>3, <2>1, <2>6 DEF DeleteOK, Typed
    <3>4. QED
      BY <1>1, <2>2, <2>3, <2>4, <3>1, <3>2, <3>3 DEF DeleteOK, Happened
  <2>17. QED
    BY <2>10, <2>11, <2>12, <2>13, <2>14, <2>15, <2>16, Together DEF RequestOK
<1>6. QED
  BY <1>4, <1>5 DEF RemoveObject

LEMMA DeleteRowInv ==
  ASSUME IInv, NEW d \in Req, DeleteRow(d)
  PROVE  IInv'
<1>1. pc[d] = "unrow" /\ UNCHANGED <<url, object, call, looked, checked>>
  BY DEF DeleteRow
<1>2. /\ Typed /\ CallsOK /\ Links /\ StageOK(d) /\ DeleteOK(d)
      /\ pc \in [Req -> Label] /\ reply \in [Req -> Code] /\ rows \subseteq Req
  BY DEF IInv, RequestOK, Typed
<1>3. Links'
  BY <1>1, <1>2 DEF Links
<1>4. Is(d, "delete") /\ reply[d] = 0 /\ d \notin rows
  BY <1>1, <1>2 DEF StageOK, Ended
<1>5. CASE Answer(d, 500) /\ UNCHANGED <<rows, trail>>
  <2>1. Ends(d, "done", 500)
    BY <1>1, <1>5 DEF Answer, Goto, Ends
  <2>2. QED
    BY <1>1, <1>3, <2>1, EndsQuietly DEF Ended
<1>6. ASSUME NEW code \in {204, 500}, Answer(d, code),
             rows' = rows \ {call[d].id}, Mark(KeyOf(d), "unrow", d)
      PROVE  IInv'
  <2>1. PICK k \in Key : k = KeyOf(d)
    BY <1>2, <1>4, CallTypes
  <2>2. KeyOf(d)' = k /\ Is(d, "delete")'
    BY <1>1, <1>4, <2>1 DEF KeyOf, Is
  <2>3. PICK id \in Req : id = call[d].id /\ KeyOf(id) = k
    BY <1>2, <1>4, <2>1, CallTypes
  <2>4. /\ pc'[d] = "done" /\ reply'[d] = code
        /\ pc' \in [Req -> Label] /\ reply' \in [Req -> Code]
        /\ \A q \in Req \ {d} : pc'[q] = pc[q] /\ reply'[q] = reply[q]
    BY <1>2, <1>6 DEF Answer, Goto, Label, Code
  <2>5. Mark(k, "unrow", d) /\ rows' = rows \ {id}
    BY <1>6, <2>1, <2>3
  <2>6. /\ trail' \in [Key -> Seq(Event)]
        /\ \A j \in Key : j # k => trail'[j] = trail[j]
        /\ \A j \in Key : Grows(trail[j], trail'[j])
        /\ Len(trail[k]) \in Nat /\ Len(trail'[k]) = Len(trail[k]) + 1
        /\ trail'[k][Len(trail[k]) + 1] = [what |-> "unrow", by |-> d]
    BY <1>2, <2>5, Marked
  <2>7. PICK n : n = Len(trail[k]) + 1
    OBVIOUS
  <2>8. /\ Fresh(k) = {n} /\ n \in 1 .. Len(trail'[k])
        /\ trail'[k][n] = [what |-> "unrow", by |-> d]
        /\ 1 .. n - 1 = 1 .. Len(trail[k])
    BY <2>6, <2>7 DEF Fresh
  <2>9. Typed'
    BY <1>1, <1>2, <1>3, <2>4, <2>5, <2>6, CallsKept DEF Typed
  <2>10. Footprint({d})
    <3>1. \A q \in Req : Forward(q)
      BY <1>1, <2>4 DEF Forward, Ended
    <3>2. QED
      BY <1>1, <2>4, <2>5, <2>6, <3>1 DEF Footprint
  <2>11. Happened(k, "gone", d) /\ Happened(k, "gone", d)'
    <3>1. Happened(k, "gone", d)
      BY <1>1, <1>2, <1>4, <2>1 DEF DeleteOK
    <3>2. QED
      BY <2>6, <3>1, HappenedStays
  <2>12. Recorded(k)
    <3>1. EventOK(k, n)'
      BY <2>2, <2>4, <2>8 DEF EventOK
    <3>2. PICK h \in 1 .. Len(trail[k]) : trail[k][h] = [what |-> "gone", by |-> d]
      BY <2>11 DEF Happened
    <3>3. h \in 1 .. n - 1 /\ trail'[k][h] = [what |-> "gone", by |-> d]
      BY <2>6, <2>8, <3>2 DEF Grows
    <3>4. OrderOK(k, n)'
      BY <2>8, <3>3 DEF OrderOK
    <3>5. QED
      BY <1>1, <2>3, <2>5, <2>8, <3>1, <3>4 DEF Recorded
  <2>13. ASSUME NEW j \in Key, j # k PROVE Recorded(j)
    BY <1>1, <1>2, <2>3, <2>5, <2>6, <2>13, QuietlyRecorded
  <2>14. StageOK(d)'
    BY <1>4, <2>2, <2>4, <2>5 DEF StageOK, Ended
  <2>15. ConfirmOK(d)'
    BY <1>1, <1>2, <1>4, CallTypes DEF ConfirmOK, Is
  <2>16. DeleteOK(d)'
    <3>1. pc'[id] = "done"
      BY <1>1, <1>2, <1>4, <2>3, <2>4 DEF DeleteOK
    <3>2. looked[d] <= Len(trail'[k]) /\ checked[d] <= Len(trail'[k])
      BY <1>2, <1>4, <2>1, <2>6 DEF DeleteOK, Typed
    <3>3. QED
      BY <1>1, <2>2, <2>3, <2>4, <2>5, <2>11, <3>1, <3>2 DEF DeleteOK, Happened
  <2>17. QED
    BY <2>9, <2>10, <2>12, <2>13, <2>14, <2>15, <2>16, Together DEF RequestOK
<1>7. QED
  BY <1>5, <1>6 DEF DeleteRow

------------------------------------------------------------------------------
(* The invariant, and what it says.                                          *)

LEMMA InitInv == Init => IInv
<1> SUFFICES ASSUME Init PROVE IInv
  OBVIOUS
<1> USE DEF Init
<1>1. CallsOK
  BY DEF CallsOK
<1>2. Links
  BY DEF Links
<1>3. \A k \in Key : trail[k] = << >> /\ Len(trail[k]) = 0 /\ DOMAIN trail[k] = {}
  OBVIOUS
<1>4. Typed
  <2>1. pc \in [Req -> Label] /\ reply \in [Req -> Code]
    BY DEF Label, Code
  <2>2. << >> \in Seq(Event)
    OBVIOUS
  <2>3. trail \in [Key -> Seq(Event)]
    BY <2>2
  <2>4. QED
    BY <1>1, <1>2, <2>1, <2>3 DEF Typed
<1>5. \A k \in Key : HistoryOK(k)
  BY <1>3 DEF HistoryOK
<1>6. ASSUME NEW r \in Req PROVE RequestOK(r)
  <2>1. pc[r] = "new" /\ reply[r] = 0 /\ looked[r] = 0 /\ checked[r] = 0 /\ r \notin rows
    OBVIOUS
  <2>2. StageOK(r)
    BY <2>1 DEF StageOK, Ended
  <2>3. Is(r, "confirm") \/ Is(r, "delete") => KeyOf(r) \in Key
    BY <1>4, CallTypes
  <2>4. ConfirmOK(r)
    BY <1>3, <2>1, <2>3 DEF ConfirmOK, LookOK
  <2>5. DeleteOK(r)
    BY <1>3, <2>1, <2>3 DEF DeleteOK
  <2>6. QED
    BY <2>2, <2>4, <2>5 DEF RequestOK
<1>7. QED
  BY <1>4, <1>5, <1>6 DEF IInv

LEMMA StutterInv == IInv /\ UNCHANGED vars => IInv'
<1> SUFFICES ASSUME IInv, UNCHANGED vars PROVE IInv'
  OBVIOUS
<1>1. /\ call' = call /\ pc' = pc /\ reply' = reply /\ looked' = looked /\ checked' = checked
      /\ url' = url /\ object' = object /\ rows' = rows /\ trail' = trail
  BY DEF vars
<1>2. Typed /\ CallsOK /\ Links
  BY DEF IInv, Typed
<1>3. Links'
  BY <1>1, <1>2 DEF Links
<1>4. Typed'
  BY <1>1, <1>2, <1>3, CallsKept DEF Typed
<1>5. Footprint({}) /\ \A k \in Key : Recorded(k)
  BY <1>1, <1>2, QuietFootprint
<1>6. QED
  BY <1>4, <1>5, Together

LEMMA NextInv == IInv /\ [Next]_vars => IInv'
<1> SUFFICES ASSUME IInv, [Next]_vars PROVE IInv'
  OBVIOUS
<1>1. ASSUME NEW r \in Req, Advance(r) PROVE IInv'
  <2>1. CASE Refuse(r)
    BY <2>1, RefuseInv
  <2>2. CASE UploadURL(r)
    BY <2>2, UploadURLInv
  <2>3. CASE LookForRow(r)
    BY <2>3, LookForRowInv
  <2>4. CASE CheckObject(r)
    BY <2>4, CheckObjectInv
  <2>5. CASE CreateRow(r)
    BY <2>5, CreateRowInv
  <2>6. CASE ReadRow(r)
    BY <2>6, ReadRowInv
  <2>7. CASE RemoveObject(r)
    BY <2>7, RemoveObjectInv
  <2>8. CASE DeleteRow(r)
    BY <2>8, DeleteRowInv
  <2>9. QED
    BY <1>1, <2>1, <2>2, <2>3, <2>4, <2>5, <2>6, <2>7, <2>8 DEF Advance
<1>2. ASSUME NEW k \in Key, Put(k) PROVE IInv'
  BY <1>2, PutInv
<1>3. ASSUME NEW k \in Key, Expire(k) PROVE IInv'
  BY <1>3, ExpireInv
<1>4. CASE UNCHANGED vars
  BY <1>4, StutterInv
<1>5. QED
  BY <1>1, <1>2, <1>3, <1>4 DEF Next

\* Every reachable state satisfies the inductive invariant, whatever the
\* handlers of worksheet_handlers.go and gallery_handlers.go interleave.
THEOREM Invariance == Spec => []IInv
<1>1. Init => IInv
  BY InitInv
<1>2. IInv /\ [Next]_vars => IInv'
  BY NextInv
<1>3. QED
  BY <1>1, <1>2, PTL DEF Spec

\* A row loses its object only to a delete that came after the confirmation
\* had seen the object (ConfirmUpload and Delete in worksheet_handlers.go), and
\* every variable keeps its type.
THEOREM RowsPointToObjects == Spec => []RowsLoseObjectsOnlyToDeletes
<1>1. IInv => RowsLoseObjectsOnlyToDeletes
  <2> SUFFICES ASSUME IInv PROVE RowsLoseObjectsOnlyToDeletes
    OBVIOUS
  <2>1. Typed /\ Links /\ \A r \in Req : StageOK(r) /\ ConfirmOK(r) /\ DeleteOK(r)
    BY DEF IInv, Typed, RequestOK
  <2>2. \A r \in rows : r \in Req /\ Is(r, "confirm") /\ pc[r] = "done"
    BY <2>1 DEF StageOK, Typed, Ended
  <2>3. \A r \in Req : ~Is(r, "upload-url") =>
          looked[r] <= Len(trail[KeyOf(r)]) /\ checked[r] <= Len(trail[KeyOf(r)])
    <3>1. \A r \in Req : ~Is(r, "upload-url") => Is(r, "confirm") \/ Is(r, "delete")
      BY <2>1, AssetAssumption DEF Is, Typed, CallsOK
    <3>2. QED
      BY <2>1, <3>1 DEF ConfirmOK, DeleteOK
  <2>4. TypeOK
    BY <2>1, <2>2, <2>3 DEF TypeOK, Typed, Links, Label, Code
  <2>5. \A r \in rows : Covered(r)
    BY <2>1, <2>2 DEF ConfirmOK
  <2>6. QED
    BY <2>4, <2>5 DEF RowsLoseObjectsOnlyToDeletes, Covered
<1>2. QED
  BY <1>1, Invariance, PTL

\* Two rows of a table share a storage_key only if the second confirmation
\* looked before the first inserted, or after the first row was deleted: the
\* look-up of ConfirmUpload and its INSERT are two statements.
THEOREM SecondConfirmationsOverlap == Spec => []ConfirmedTwiceOnlyByOverlap
<1>1. IInv => ConfirmedTwiceOnlyByOverlap
  <2> SUFFICES ASSUME IInv, NEW k \in Key, NEW j \in 1 .. Len(trail[k]), NEW i \in 1 .. j - 1,
                      trail[k][i].what = "row", trail[k][j].what = "row",
                      call[trail[k][i].by].kind = call[trail[k][j].by].kind,
                      ~(looked[trail[k][j].by] < i)
               PROVE  \E m \in i + 1 .. looked[trail[k][j].by] :
                        /\ trail[k][m].what = "unrow"
                        /\ call[trail[k][m].by].id = trail[k][i].by
    BY DEF ConfirmedTwiceOnlyByOverlap
  <2>1. Typed /\ j \in DOMAIN trail[k]
    BY TrailTypes DEF IInv
  <2>2. PICK r : r = trail[k][j].by
    OBVIOUS
  <2>3. r \in Req /\ Is(r, "confirm") /\ KeyOf(r) = k
    BY <2>1, <2>2 DEF IInv, HistoryOK, EventOK
  <2>4. LookOK(r) /\ looked[r] \in Nat
    BY <2>1, <2>3 DEF IInv, RequestOK, ConfirmOK, Typed
  <2>5. j \in Nat /\ i \in 1 .. looked[r]
    BY <2>1, <2>2, <2>4, TrailTypes
  <2>6. QED
    BY <2>2, <2>3, <2>4, <2>5 DEF LookOK
<1>2. QED
  BY <1>1, Invariance, PTL

\* Delete removes the object before the row, so that an object in the bucket
\* after the row's DELETE was uploaded again since.
THEOREM DeletedObjectsStayAway == Spec => []DeletedObjectsReturnOnlyByUpload
<1>1. IInv => DeletedObjectsReturnOnlyByUpload
  <2> SUFFICES ASSUME IInv, NEW k \in Key, NEW j \in 1 .. Len(trail[k]),
                      trail[k][j].what = "unrow"
               PROVE  \E i \in 1 .. j - 1 :
                        /\ trail[k][i] = [what |-> "gone", by |-> trail[k][j].by]
                        /\ k \in object => \E p \in i + 1 .. Len(trail[k]) : trail[k][p].what = "put"
    BY DEF DeletedObjectsReturnOnlyByUpload
  <2>1. /\ DOMAIN trail[k] = 1 .. Len(trail[k]) /\ Len(trail[k]) \in Nat
        /\ \A i \in 1 .. Len(trail[k]) : OrderOK(k, i)
    BY TrailTypes DEF IInv, HistoryOK
  <2>2. OrderOK(k, j)
    BY <2>1
  <2>3. PICK i \in 1 .. j - 1 : trail[k][i] = [what |-> "gone", by |-> trail[k][j].by]
    BY <2>2 DEF OrderOK
  <2>4. i \in 1 .. Len(trail[k]) /\ trail[k][i].what = "gone"
    BY <2>1, <2>3
  <2>5. OrderOK(k, i)
    BY <2>1, <2>4
  <2>6. k \in object => \E p \in i + 1 .. Len(trail[k]) : trail[k][p].what = "put"
    BY <2>4, <2>5 DEF OrderOK
  <2>7. QED
    BY <2>3, <2>6
<1>2. QED
  BY <1>1, Invariance, PTL

\* What ConfirmUpload and Delete answer is true of the bucket and the table: a 404
\* for a row that was ever inserted comes after a delete of its object and of it,
\* and a 500 of a delete leaves the row for a retry, or both removed.
THEOREM AnswersAreTrue == Spec => []AnswersTellTheOutcome
<1>1. IInv => AnswersTellTheOutcome
  <2> SUFFICES ASSUME IInv, NEW r \in Req
               PROVE  /\ Is(r, "confirm") =>
                           /\ reply[r] = 201 => Happened(KeyOf(r), "row", r)
                           /\ reply[r] \in {400, 403, 404, 422} => ~Happened(KeyOf(r), "row", r)
                      /\ Is(r, "delete") =>
                           /\ reply[r] = 204 => /\ call[r].id \notin rows
                                                /\ Happened(KeyOf(r), "gone", r)
                           /\ reply[r] \in {403, 404} => ~Happened(KeyOf(r), "gone", r)
                           /\ reply[r] = 404 /\ pc[r] = "done" /\ Inserted(call[r].id, looked[r])
                                => Removed(call[r].id, looked[r])
                           /\ reply[r] = 500 /\ Inserted(call[r].id, Len(trail[KeyOf(r)]))
                                => \/ call[r].id \in rows
                                   \/ Removed(call[r].id, Len(trail[KeyOf(r)]))
    BY DEF AnswersTellTheOutcome
  <2>1. Typed /\ ConfirmOK(r) /\ DeleteOK(r)
    BY DEF IInv, RequestOK
  <2>2. ASSUME NEW k \in Key, Happened(k, "row", r) PROVE reply[r] \in {201, 500}
    <3>1. PICK i \in DOMAIN trail[k] : trail[k][i] = [what |-> "row", by |-> r]
      BY <2>1, <2>2, TrailTypes DEF Happened
    <3>2. QED
      BY <3>1 DEF IInv, HistoryOK, EventOK
  <2>3. ASSUME NEW k \in Key, Happened(k, "gone", r) PROVE reply[r] \in {0, 204, 500}
    <3>1. PICK i \in DOMAIN trail[k] : trail[k][i] = [what |-> "gone", by |-> r]
      BY <2>1, <2>3, TrailTypes DEF Happened
    <3>2. QED
      BY <3>1 DEF IInv, HistoryOK, EventOK
  <2>4. /\ Is(r, "confirm") => KeyOf(r) \in Key
        /\ Is(r, "delete") => KeyOf(r) \in Key
    BY <2>1, CallTypes
  <2>5. ASSUME Is(r, "confirm"), reply[r] \in {400, 403, 404, 422}
        PROVE  ~Happened(KeyOf(r), "row", r)
    BY <2>2, <2>4, <2>5
  <2>6. ASSUME Is(r, "delete"), reply[r] \in {403, 404}
        PROVE  ~Happened(KeyOf(r), "gone", r)
    BY <2>3, <2>4, <2>6
  <2>7. ASSUME Is(r, "delete"), Inserted(call[r].id, Len(trail[KeyOf(r)])),
               call[r].id \notin rows
        PROVE  Removed(call[r].id, Len(trail[KeyOf(r)]))
    <3>1. PICK k \in Key : k = KeyOf(r)
      BY <2>4, <2>7
    <3>2. PICK c \in Req : c = call[r].id /\ k = KeyOf(c)
      BY <2>1, <2>7, <3>1, CallTypes
    <3>3. PICK n \in Nat : n = Len(trail[k])
      BY <2>1, TrailTypes
    <3>4. Inserted(c, n) /\ c \notin rows
      BY <2>7, <3>1, <3>2, <3>3
    <3>5. Removed(c, n)
      BY <3>2, <3>3, <3>4, ThereOrRemoved
    <3>6. QED
      BY <3>1, <3>2, <3>3, <3>5
  <2>8. QED
    BY <2>1, <2>5, <2>6, <2>7 DEF ConfirmOK, DeleteOK
<1>2. QED
  BY <1>1, Invariance, PTL
==============================================================================

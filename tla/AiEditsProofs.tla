----------------------------- MODULE AiEditsProofs -----------------------------
(* Proofs about AiEdits: Actions are spent once, the history is a chain, and  *)
(* the editor implements PaidEdits, for any requests, keys, packs, Actions,   *)
(* costs and bounds.                                                          *)
EXTENDS AiEdits, TLAPS

Edit == [key : Keys \cup Saves, base : Nat]

PackTyped ==
    /\ month \in Months
    /\ pack \in [Packs -> PackRow]

RequestTyped ==
    /\ reservation \in [Keys -> Reservation]
    /\ req \in [Workers -> Request]
    /\ edits \in Seq(Edit)

\* The sources a reservation was made on were sold; a sold pack is live as long
\* as no reversal of it is recorded.
PackInv ==
    /\ PackTyped
    /\ \A p \in Packs :
         /\ pack[p].credit = "live" => pack[p].recorded = {}
         /\ pack[p].credit = "revoked" => pack[p].recorded # {}

SoldInv ==
    \A k \in Keys : \A u \in reservation[k].units :
        SourceOf[u] \in Packs => pack[SourceOf[u]].credit # "none"

\* The steps of the request that made the reservation, up to its save.
Unsaved == {"generate", "apply", "commitReview", "release", "markRelease"}
Owning == Unsaved \cup {"commitDone", "markSettle"}

\* Reserved as the request left it, or taken by a reversal meanwhile.
Waiting(k) == reservation[k].status = "reserved" /\ reservation[k].outcome = "none"
Lapsed(k) ==
    /\ reservation[k].status = "released"
    /\ \E u \in reservation[k].units : SourceOf[u] \in Packs /\ pack[SourceOf[u]].recorded # {}

\* What a request knows of its reservation and of the source at each step.
Knows(w) ==
    LET k == Key(w)
        step == req[w].step
    IN  /\ step # "idle" => k \in Keys
        /\ step \in Unsaved => k \notin Accepted /\ (Waiting(k) \/ Lapsed(k))
        /\ step \in {"recover", "commitDone", "markSettle", "updateDone"} => k \in Accepted
        /\ step = "reapply" => reservation[k].status = "committed"
        /\ step = "rerelease" =>
             \/ reservation[k].status = "released"
             \/ reservation[k].status = "reserved" /\ reservation[k].outcome = "releasePending"

RequestInv ==
    /\ RequestTyped
    /\ \A w \in Workers : Knows(w)
    /\ \A w \in Workers : req[w].step \in Owning => reservation[Key(w)].status # "none"
    /\ \A v, w \in Workers :
         req[v].step \in Owning /\ req[w].step \in Owning /\ Key(v) = Key(w) => v = w
    /\ \A k \in Keys :
         /\ reservation[k].status = "none" => k \notin Accepted
         /\ reservation[k].status = "reserved" /\ reservation[k].outcome = "releasePending"
              => k \notin Accepted

Inv == PackInv /\ SoldInv /\ RequestInv /\ NeverOverdrawn /\ EditsChain
-----------------------------------------------------------------------------
(* Facts about rows.                                                          *)

LEMMA Typing ==
    ASSUME Inv
    PROVE  /\ reservation \in [Keys -> Reservation]
           /\ req \in [Workers -> Request]
           /\ edits \in Seq(Edit)
           /\ pack \in [Packs -> PackRow] /\ month \in Months
           /\ \A w \in Workers : Knows(w)
BY DEF Inv, PackInv, PackTyped, RequestInv, RequestTyped

\* A request goes on; the other ones stay where they are.
LEMMA Going ==
    ASSUME Inv, NEW w \in Workers, NEW step \in Steps, Goes(w, step)
    PROVE  /\ req' \in [Workers -> Request]
           /\ \A v \in Workers \ {w} : req'[v] = req[v]
           /\ req'[w].step = step
           /\ step # "idle" => Key(w)' = Key(w)
<1> DEFINE row == IF step = "idle" THEN Idle ELSE [req[w] EXCEPT !.step = step]
<1>1. req[w] \in Request /\ req \in [Workers -> Request]
  BY Typing
<1>2. row \in Request /\ row.step = step /\ (step # "idle" => row.key = req[w].key)
  BY <1>1 DEF Request, Idle, Steps
<1>3. req' = [req EXCEPT ![w] = row]
  BY <1>1 DEF Goes
<1> HIDE DEF row
<1> QED BY <1>1, <1>2, <1>3 DEF Key

\* One reservation gets another row.
LEMMA Rowing ==
    ASSUME Inv, NEW k \in Keys, NEW row \in Reservation, reservation' = [reservation EXCEPT ![k] = row]
    PROVE  /\ reservation' \in [Keys -> Reservation] /\ reservation'[k] = row
           /\ \A j \in Keys \ {k} : reservation'[j] = reservation[j]
BY Typing
-----------------------------------------------------------------------------
(* Actions are spent once.                                                    *)

\* Reservations that are active were, and hold what they held.
KeepsUnits ==
    \A j \in Keys :
        /\ reservation'[j].units = reservation[j].units
        /\ reservation'[j].status \in {"reserved", "committed"} =>
             reservation[j].status \in {"reserved", "committed"}

KeepsSold == \A p \in Packs : pack[p].credit # "none" => pack'[p].credit # "none"

LEMMA UnitsStay ==
    ASSUME Inv, KeepsUnits, KeepsSold
    PROVE  SoldInv' /\ NeverOverdrawn'
<1>1. Active' \subseteq Active
  BY DEF KeepsUnits, Active
<1>2. NeverOverdrawn'
  BY <1>1 DEF Inv, NeverOverdrawn, KeepsUnits, Active
<1>3. SoldInv'
  BY DEF Inv, SoldInv, KeepsUnits, KeepsSold
<1> QED BY <1>2, <1>3

\* What a new reservation takes is in no other active one.
LEMMA UnitsReserved ==
    ASSUME Inv, NEW k \in Keys, NEW base \in Nat, NEW U \in SUBSET Units, Reserve(k, base, U),
           UNCHANGED <<month, pack>>
    PROVE  /\ reservation' \in [Keys -> Reservation]
           /\ SoldInv' /\ NeverOverdrawn'
<1> DEFINE row == [status |-> "reserved", base |-> base, units |-> U, outcome |-> "none"]
<1>1. /\ reservation[k].status = "none" /\ U \subseteq Spendable /\ Cardinality(U) = Cost[k]
      /\ reservation' = [j \in Keys |->
           IF j = k THEN row
           ELSE IF j \in ToRelease THEN [reservation[j] EXCEPT !.status = "released"]
           ELSE reservation[j]]
  BY DEF Reserve, Allocation
<1>2. row \in Reservation /\ row.units = U
  BY DEF Reservation
<1> HIDE DEF row
<1>3. \A j \in Keys : reservation[j] \in Reservation
  BY Typing
<1>4. \A j \in Keys : [reservation[j] EXCEPT !.status = "released"] \in Reservation
  BY <1>3 DEF Reservation
<1>5. reservation' \in [Keys -> Reservation]
  BY <1>1, <1>2, <1>3, <1>4
<1>6. \A j \in Keys \ {k} : reservation'[j].units = reservation[j].units
  BY <1>1, <1>3 DEF Reservation
<1>7. reservation'[k].units = U
  BY <1>1, <1>2
<1>8. Active' \subseteq (Active \ ToRelease) \cup {k}
  <2> SUFFICES ASSUME NEW j \in Keys, j # k, reservation'[j].status \in {"reserved", "committed"}
               PROVE  j \in Active \ ToRelease
    BY DEF Active
  <2>1. CASE j \in ToRelease
    <3>1. reservation'[j] = [reservation[j] EXCEPT !.status = "released"]
      BY <1>1, <2>1
    <3>2. reservation'[j].status = "released"
      BY <1>3, <3>1 DEF Reservation
    <3> QED BY <3>2
  <2>2. CASE j \notin ToRelease
    BY <1>1, <2>2 DEF Active
  <2> QED BY <2>1, <2>2
<1>9. \A j \in Active \ ToRelease : U \cap reservation[j].units = {}
  BY <1>1 DEF Spendable, UnitsOf
<1>10. NeverOverdrawn'
  <2>1. \A j \in Active : /\ Cardinality(reservation[j].units) = Cost[j]
                          /\ \A i \in Active \ {j} : reservation[j].units \cap reservation[i].units = {}
    BY DEF Inv, NeverOverdrawn
  <2>2. Active \subseteq Keys /\ Active' \subseteq Keys
    BY DEF Active
  <2> SUFFICES ASSUME NEW j \in Active'
               PROVE  /\ Cardinality(reservation'[j].units) = Cost[j]
                      /\ \A i \in Active' \ {j} : reservation'[j].units \cap reservation'[i].units = {}
    BY DEF NeverOverdrawn
  <2>3. CASE j = k
    <3>1. \A i \in Active' \ {k} : i \in Active \ ToRelease /\ reservation'[i].units = reservation[i].units
      BY <1>6, <1>8, <2>2
    <3> QED BY <1>1, <1>7, <1>9, <2>3, <3>1
  <2>4. CASE j # k
    <3>1. j \in Active \ ToRelease /\ reservation'[j].units = reservation[j].units
      BY <1>6, <1>8, <2>2, <2>4
    <3>2. ASSUME NEW i \in Active', i # j PROVE reservation'[j].units \cap reservation'[i].units = {}
      <4>1. CASE i = k
        BY <1>7, <1>9, <3>1, <4>1
      <4>2. CASE i # k
        <5>1. i \in Active \ ToRelease /\ reservation'[i].units = reservation[i].units
          BY <1>6, <1>8, <2>2, <4>2
        <5> QED BY <2>1, <3>1, <3>2, <5>1
      <4> QED BY <4>1, <4>2
    <3> QED BY <2>1, <3>1, <3>2
  <2> QED BY <2>3, <2>4
<1>11. \A u \in U : SourceOf[u] \in Packs => pack[SourceOf[u]].credit = "live"
  <2>1. U \subseteq {u \in Units : Live(u)} /\ month \in Months
    BY <1>1, Typing DEF Spendable
  <2> QED BY <2>1, CreditAssumption DEF Live
<1>12. SoldInv'
  BY <1>6, <1>7, <1>11 DEF Inv, SoldInv
<1> QED BY <1>5, <1>10, <1>12
-----------------------------------------------------------------------------
(* The history is a chain.                                                    *)

LEMMA SaveKeeps ==
    ASSUME Inv, NEW key \in Keys \cup Saves, NEW base \in Nat, AppendIfNew(key, base)
    PROVE  /\ edits' \in Seq(Edit) /\ EditsChain'
           /\ IF Saved(key, base) = "accepted" THEN Accepted' = Accepted \cup {key} /\ key \notin Accepted
              ELSE edits' = edits /\ Accepted' = Accepted
<1>1. edits \in Seq(Edit) /\ EditsChain
  BY Typing DEF Inv
<1>2. CASE Saved(key, base) # "accepted"
  <2>1. edits' = edits
    BY <1>2 DEF AppendIfNew
  <2> QED BY <1>1, <1>2, <2>1 DEF EditsChain, Accepted
<1>3. CASE Saved(key, base) = "accepted"
  <2> DEFINE e == [key |-> key, base |-> base]
             n == Len(edits)
  <2>1. key \notin Accepted /\ base = n /\ edits' = Append(edits, e)
    BY <1>3 DEF AppendIfNew, Saved, Revision
  <2>2. e \in Edit /\ e.key = key /\ e.base = base
    BY DEF Edit
  <2> HIDE DEF e
  <2>3. /\ n \in Nat /\ DOMAIN edits = 1..n /\ DOMAIN edits' = 1..(n + 1)
        /\ edits' \in Seq(Edit) /\ edits'[n + 1] = e
        /\ \A i \in 1..n : edits'[i] = edits[i]
    BY <1>1, <2>1, <2>2
  <2> HIDE DEF n
  <2>4. \A i \in 1..n : edits[i].key # key
    BY <2>1, <2>3 DEF Accepted
  <2>5. Accepted' = Accepted \cup {key}
    <3>1. ASSUME NEW i \in 1..(n + 1) PROVE edits'[i].key \in Accepted \cup {key}
      <4>1. CASE i = n + 1
        BY <2>2, <2>3, <4>1
      <4>2. CASE i \in 1..n
        BY <2>3, <4>2 DEF Accepted
      <4> QED BY <2>3, <4>1, <4>2
    <3>2. \A i \in 1..n : edits[i].key \in Accepted'
      BY <2>3 DEF Accepted
    <3>3. key \in Accepted'
      BY <2>2, <2>3 DEF Accepted
    <3> QED BY <2>3, <3>1, <3>2, <3>3 DEF Accepted
  <2>6. EditsChain'
    <3> SUFFICES ASSUME NEW i \in 1..(n + 1)
                 PROVE  /\ edits'[i].base = i - 1
                        /\ \A j \in 1..(n + 1) : edits'[i].key = edits'[j].key => i = j
      BY <2>3 DEF EditsChain
    <3>1. \A j \in 1..n : edits[j].base = j - 1 /\ \A l \in 1..n : edits[j].key = edits[l].key => j = l
      BY <1>1, <2>3 DEF EditsChain
    <3>2. CASE i = n + 1
      <4>1. edits'[i].base = i - 1
        BY <2>1, <2>2, <2>3, <3>2
      <4>2. ASSUME NEW j \in 1..n PROVE edits'[i].key # edits'[j].key
        BY <2>2, <2>3, <2>4, <3>2
      <4> QED BY <2>3, <3>2, <4>1, <4>2
    <3>3. CASE i \in 1..n
      <4>1. edits'[i].key # edits'[n + 1].key
        BY <2>2, <2>3, <2>4, <3>3
      <4> QED BY <2>3, <3>1, <3>3, <4>1
    <3> QED BY <2>3, <3>2, <3>3
  <2> QED BY <1>3, <2>1, <2>3, <2>5, <2>6
<1> QED BY <1>2, <1>3
-----------------------------------------------------------------------------
(* What requests know stays true.                                             *)

\* Rows other than k's stay, or are released because their release had failed.
OthersRows(k) ==
    \A j \in Keys \ {k} :
        \/ reservation'[j] = reservation[j]
        \/ /\ j \in ToRelease
           /\ reservation'[j].status = "released" /\ reservation'[j].outcome = "releasePending"

\* The row of k goes the way of a reservation.
RowMoves(k) ==
    /\ reservation[k].status = "committed" => reservation'[k].status = "committed"
    /\ reservation[k].status = "released" => reservation'[k] = reservation[k]
    /\ reservation[k].status # "none" => reservation'[k].status # "none"

\* A step of request w on its key k that all the other requests survive.
LEMMA OthersKnow ==
    ASSUME Inv, NEW w \in Workers, NEW k \in Keys, UNCHANGED pack,
           \A v \in Workers \ {w} : req'[v] = req[v],
           OthersRows(k), RowMoves(k), Accepted \subseteq Accepted', Accepted' \subseteq Accepted \cup {k},
           reservation[k] \in Reservation,
           reservation[k].status = "reserved" /\ reservation[k].outcome = "releasePending"
             => reservation'[k].status = "released" \/ reservation'[k] = reservation[k],
           \A v \in Workers \ {w} : req[v].step \in Unsaved /\ Key(v) = k => Lapsed(k) /\ k \notin Accepted'
    PROVE  \A v \in Workers \ {w} : Knows(v)'
<1> SUFFICES ASSUME NEW v \in Workers, v # w PROVE Knows(v)'
  OBVIOUS
<1> DEFINE j == Key(v)
<1>1. req'[v] = req[v] /\ Key(v)' = j /\ Knows(v)
  BY Typing DEF Key
<1>2. CASE j \in Keys /\ j = k
  <2>1. req[v].step \in Unsaved => Lapsed(k)' /\ k \notin Accepted'
    BY <1>1, <1>2 DEF Lapsed, RowMoves
  <2>2. req[v].step = "rerelease" =>
             \/ reservation'[k].status = "released"
             \/ reservation'[k].status = "reserved" /\ reservation'[k].outcome = "releasePending"
    BY <1>1, <1>2 DEF Knows, RowMoves
  <2> QED BY <1>1, <1>2, <2>1, <2>2 DEF Knows, RowMoves
<1>3. CASE j \in Keys /\ j # k
  <2>1. j \in Accepted' <=> j \in Accepted
    BY <1>3
  <2>2. CASE reservation'[j] = reservation[j]
    BY <1>1, <1>3, <2>1, <2>2 DEF Knows, Waiting, Lapsed
  <2>3. CASE /\ j \in ToRelease /\ reservation'[j].status = "released"
    <3>1. reservation[j].status = "reserved" /\ reservation[j].outcome = "releasePending"
      BY <2>3 DEF ToRelease
    <3>2. req[v].step \notin Unsaved /\ req[v].step # "reapply"
      BY <1>1, <3>1 DEF Knows, Waiting, Lapsed
    <3> QED BY <1>1, <1>3, <2>1, <2>3, <3>2 DEF Knows
  <2> QED BY <1>3, <2>2, <2>3 DEF OthersRows
<1>4. CASE j \notin Keys
  BY <1>1, <1>4 DEF Knows, Unsaved
<1> QED BY <1>2, <1>3, <1>4

\* One request at a time works on a reservation it made; what the others that
\* hold its key may be doing.
LEMMA Alone ==
    ASSUME Inv, NEW v \in Workers, NEW w \in Workers, v # w, Key(v) = Key(w), req[v].step \in Unsaved,
           req[w].step \notin {"idle", "reserve"}
    PROVE  req[w].step = "rerelease" /\ Lapsed(Key(w)) /\ Key(w) \notin Accepted
<1>1. req[w].step \notin Owning
  BY DEF Inv, RequestInv, Owning
<1>2. Key(w) \notin Accepted /\ (Waiting(Key(w)) \/ Lapsed(Key(w)))
  BY Typing DEF Knows
<1>3. Knows(w) /\ req[w] \in Request
  BY Typing
<1> QED BY <1>1, <1>2, <1>3 DEF Knows, Waiting, Lapsed, Request, Steps, Owning, Unsaved

\* A request's step keeps the invariant when it leaves true what it and the
\* other requests know.
LEMMA RequestsStay ==
    ASSUME Inv, RequestTyped', NEW w \in Workers, \A v \in Workers \ {w} : req'[v] = req[v],
           \A v \in Workers : Knows(v)',
           \A j \in Keys : reservation[j].status # "none" => reservation'[j].status # "none",
           req'[w].step \in Owning =>
             /\ reservation'[Key(w)'].status # "none"
             /\ \/ req[w].step \in Owning /\ Key(w)' = Key(w)
                \/ reservation[Key(w)'].status = "none",
           \A j \in Keys :
             /\ reservation'[j].status = "none" => j \notin Accepted'
             /\ reservation'[j].status = "reserved" /\ reservation'[j].outcome = "releasePending"
                  => j \notin Accepted'
    PROVE  RequestInv'
<1>1. \A v \in Workers : req[v].step \in Owning => Key(v) \in Keys /\ reservation[Key(v)].status # "none"
  BY Typing DEF Inv, RequestInv, Knows, Owning, Unsaved
<1>2. \A v \in Workers \ {w} : Key(v)' = Key(v)
  BY DEF Key
<1>3. \A v \in Workers : req'[v].step \in Owning => reservation'[Key(v)'].status # "none"
  BY <1>1, <1>2
<1>4. ASSUME NEW v \in Workers, NEW u \in Workers, req'[v].step \in Owning, req'[u].step \in Owning,
             Key(v)' = Key(u)'
      PROVE  v = u
  <2>1. \A x, y \in Workers :
          req[x].step \in Owning /\ req[y].step \in Owning /\ Key(x) = Key(y) => x = y
    BY DEF Inv, RequestInv
  <2>2. CASE v # w /\ u # w
    BY <1>2, <1>4, <2>1, <2>2
  <2>3. CASE v = w /\ u # w
    BY <1>1, <1>2, <1>4, <2>1, <2>3
  <2>4. CASE v # w /\ u = w
    BY <1>1, <1>2, <1>4, <2>1, <2>4
  <2> QED BY <2>2, <2>3, <2>4
<1> QED BY <1>3, <1>4 DEF RequestInv

\* A step that changes nothing but where a request goes.
LEMMA OnlyGoes ==
    ASSUME Inv, NEW w \in Workers, UNCHANGED <<month, pack, reservation, edits>>,
           req' \in [Workers -> Request], \A v \in Workers \ {w} : req'[v] = req[v], Knows(w)',
           req'[w].step \in Owning => req[w].step \in Owning /\ Key(w)' = Key(w)
    PROVE  Inv'
<1>1. Accepted' = Accepted
  BY DEF Accepted
<1>2. RequestTyped'
  BY Typing DEF RequestTyped
<1>3. \A v \in Workers \ {w} : Knows(v)'
  BY <1>1, Typing DEF Knows, Key, Waiting, Lapsed
<1>4. req'[w].step \in Owning => reservation'[Key(w)'].status # "none"
  BY DEF Inv, RequestInv
<1>5. \A j \in Keys :
        /\ reservation'[j].status = "none" => j \notin Accepted'
        /\ reservation'[j].status = "reserved" /\ reservation'[j].outcome = "releasePending"
             => j \notin Accepted'
  BY <1>1 DEF Inv, RequestInv
<1>6. \A v \in Workers : Knows(v)'
  BY <1>3
<1>7. RequestInv'
  BY <1>2, <1>4, <1>5, <1>6, RequestsStay
<1>8. PackInv' /\ SoldInv'
  BY DEF Inv, PackInv, PackTyped, SoldInv
<1>9. NeverOverdrawn' /\ EditsChain'
  BY DEF Inv, NeverOverdrawn, Active, EditsChain
<1> QED BY <1>7, <1>8, <1>9 DEF Inv

LEMMA IdleKnows == ASSUME NEW w \in Workers, req'[w].step \in {"idle"} PROVE Knows(w)'
BY DEF Knows, Unsaved

LEMMA ReadKeeps ==
    ASSUME Inv, NEW w \in Workers, NEW k \in Keys, NEW apply \in BOOLEAN, Read(w, k, apply)
    PROVE  Inv'
<1> DEFINE recovers == apply /\ k \in Accepted
           row == [step |-> IF recovers THEN "recover" ELSE "reserve", key |-> k, apply |-> apply,
                   base |-> IF recovers THEN reservation[k].base ELSE Revision]
<1>1. reservation[k].base \in Nat /\ Revision \in Nat
  BY Typing DEF Reservation, Revision
<1>2. row \in Request /\ row.key = k /\ row.step = (IF recovers THEN "recover" ELSE "reserve")
  BY <1>1 DEF Request, Steps
<1>3. req' = [req EXCEPT ![w] = row] /\ UNCHANGED <<month, pack, reservation, edits>>
  BY DEF Read, creditVars
<1> HIDE DEF row
<1>4. req' \in [Workers -> Request] /\ req'[w] = row /\ \A v \in Workers \ {w} : req'[v] = req[v]
  BY <1>2, <1>3, Typing
<1>5. Knows(w)' /\ req'[w].step \notin Owning
  BY <1>2, <1>3, <1>4 DEF Knows, Key, Accepted, Unsaved, Owning
<1> QED BY <1>3, <1>4, <1>5, OnlyGoes

LEMMA GenerateKeeps ==
    ASSUME Inv, NEW w \in Workers, Generate(w)
    PROVE  Inv'
<1>1. PICK step \in {"commitReview", "release", "apply"} : Goes(w, step)
  BY DEF Generate
<1>2. req[w].step = "generate" /\ UNCHANGED <<month, pack, reservation, edits>>
  BY DEF Generate, At, creditVars
<1>3. /\ req' \in [Workers -> Request] /\ \A v \in Workers \ {w} : req'[v] = req[v]
      /\ req'[w].step = step /\ Key(w)' = Key(w)
  BY <1>1, Going DEF Steps
<1>4. Knows(w) /\ Accepted' = Accepted
  BY <1>2, Typing DEF Accepted
<1>5. Knows(w)'
  BY <1>2, <1>3, <1>4 DEF Knows, Unsaved, Waiting, Lapsed
<1> QED BY <1>2, <1>3, <1>5, OnlyGoes DEF Owning, Unsaved

\* A request that fails: after the save it only settles.
LEMMA ErrorKeeps ==
    ASSUME Inv, NEW w \in Workers, UNCHANGED <<month, pack, reservation, edits>>,
           Goes(w, OnError(req[w].step)) \/ Goes(w, "idle")
    PROVE  Inv'
<1> DEFINE next == OnError(req[w].step)
<1>1. Knows(w) /\ Accepted' = Accepted
  BY Typing DEF Accepted
<1>2. CASE Goes(w, "idle")
  <2>1. req' \in [Workers -> Request] /\ req'[w].step = "idle" /\ \A v \in Workers \ {w} : req'[v] = req[v]
    BY <1>2, Going DEF Steps
  <2> QED BY <2>1, IdleKnows, OnlyGoes DEF Owning, Unsaved
<1>3. CASE Goes(w, next) /\ next # "idle"
  <2>1. /\ next \in {"release", "markSettle", "markRelease"}
        /\ next = "release" => req[w].step \in {"apply", "commitReview"}
        /\ next = "markSettle" => req[w].step = "commitDone"
        /\ next = "markRelease" => req[w].step = "release"
    BY <1>3 DEF OnError
  <2>2. /\ req' \in [Workers -> Request] /\ req'[w].step = next /\ Key(w)' = Key(w)
        /\ \A v \in Workers \ {w} : req'[v] = req[v]
    BY <1>3, <2>1, Going DEF Steps
  <2> HIDE DEF next
  <2>3. Knows(w)'
    BY <1>1, <2>1, <2>2 DEF Knows, Unsaved, Waiting, Lapsed
  <2> QED BY <2>1, <2>2, <2>3, OnlyGoes DEF Owning, Unsaved
<1> QED BY <1>2, <1>3
-----------------------------------------------------------------------------
(* The steps of a request that change more.                                   *)

\* A step of w that changes the row of its key, keeps what it holds and keeps
\* the history.
LEMMA RowStepKeeps ==
    ASSUME Inv, NEW w \in Workers, NEW row \in Reservation, Key(w) \in Keys,
           req[w].step \notin {"idle", "reserve"}, Goes(w, "idle"),
           UNCHANGED <<month, pack, edits>>, reservation' = [reservation EXCEPT ![Key(w)] = row],
           row.units = reservation[Key(w)].units,
           row.status \in {"reserved", "committed"} => reservation[Key(w)].status \in {"reserved", "committed"},
           reservation[Key(w)].status = "none" => row.status # "reserved",
           reservation[Key(w)].status # "none" => row.status # "none",
           reservation[Key(w)].status = "committed" => row.status = "committed",
           reservation[Key(w)].status = "released" => row = reservation[Key(w)],
           reservation[Key(w)].status = "reserved" /\ reservation[Key(w)].outcome = "releasePending"
             => row.status = "released" \/ row = reservation[Key(w)],
           row.status = "reserved" /\ row.outcome = "releasePending" => Key(w) \notin Accepted,
           row.status = "none" => Key(w) \notin Accepted
    PROVE  Inv'
<1> DEFINE k == Key(w)
<1>1. /\ reservation' \in [Keys -> Reservation] /\ reservation'[k] = row
      /\ \A j \in Keys \ {k} : reservation'[j] = reservation[j]
  BY Rowing
<1>2. /\ req' \in [Workers -> Request] /\ req'[w].step = "idle"
      /\ \A v \in Workers \ {w} : req'[v] = req[v]
  BY Going DEF Steps
<1>3. Accepted' = Accepted
  BY DEF Accepted
<1>4. OthersRows(k) /\ RowMoves(k)
  BY <1>1 DEF OthersRows, RowMoves
<1>5. \A v \in Workers \ {w} : req[v].step \in Unsaved /\ Key(v) = k => Lapsed(k) /\ k \notin Accepted'
  BY <1>3, Alone
<1>6. reservation[k] \in Reservation
  BY Typing
<1>7. \A v \in Workers \ {w} : Knows(v)'
  BY <1>1, <1>2, <1>3, <1>4, <1>5, <1>6, OthersKnow
<1>8. \A v \in Workers : Knows(v)'
  BY <1>2, <1>7, IdleKnows
<1>9. RequestTyped'
  BY <1>1, <1>2, Typing DEF RequestTyped
<1>10. \A j \in Keys :
        /\ reservation'[j].status = "none" => j \notin Accepted'
        /\ reservation'[j].status = "reserved" /\ reservation'[j].outcome = "releasePending"
             => j \notin Accepted'
  BY <1>1, <1>3 DEF Inv, RequestInv
<1>11. \A j \in Keys : reservation[j].status # "none" => reservation'[j].status # "none"
  BY <1>1
<1>12. RequestInv'
  BY <1>2, <1>8, <1>9, <1>10, <1>11, RequestsStay DEF Owning, Unsaved
<1>13. KeepsUnits /\ KeepsSold
  BY <1>1 DEF KeepsUnits, KeepsSold
<1>14. PackInv' /\ EditsChain'
  BY DEF Inv, PackInv, PackTyped, EditsChain
<1> QED BY <1>12, <1>13, <1>14, UnitsStay DEF Inv

LEMMA CommitKeeps ==
    ASSUME Inv, NEW w \in Workers, CommitActions(w)
    PROVE  Inv'
<1> DEFINE k == Key(w)
           step == req[w].step
           outcome == IF step = "commitReview" THEN "review" ELSE "done"
           row == [status |-> "committed", base |-> reservation[k].base,
                   units |-> reservation[k].units, outcome |-> outcome]
<1>1. /\ step \in {"recover", "commitReview", "commitDone", "updateDone"}
      /\ UNCHANGED <<month, pack, edits>>
  BY DEF CommitActions
<1>2. k \in Keys /\ reservation[k] \in Reservation /\ Knows(w)
  BY <1>1, Typing DEF Knows
<1>3. CASE Commit(k, outcome) /\ Goes(w, "idle")
  <2>1. reservation' = [reservation EXCEPT ![k] = row]
    BY <1>2, <1>3, Typing DEF Commit
  <2>2. row \in Reservation /\ row.status = "committed" /\ row.units = reservation[k].units
    BY <1>2 DEF Reservation
  <2>3. reservation[k].status \in {"reserved", "committed"}
    BY <1>3 DEF Commit, CanCommit
  <2>4. ~(reservation[k].status = "reserved" /\ reservation[k].outcome = "releasePending")
    <3>1. CASE step = "commitReview"
      BY <1>2, <3>1 DEF Knows, Unsaved, Waiting, Lapsed
    <3>2. CASE step # "commitReview"
      <4>1. k \in Accepted
        BY <1>1, <1>2, <3>2 DEF Knows
      <4> QED BY <1>2, <4>1 DEF Inv, RequestInv
    <3> QED BY <3>1, <3>2
  <2> HIDE DEF row
  <2> QED BY <1>1, <1>2, <1>3, <2>1, <2>2, <2>3, <2>4, RowStepKeeps
<1>4. CASE Goes(w, OnError(step)) /\ UNCHANGED reservation
  BY <1>1, <1>4, ErrorKeeps
<1> QED BY <1>3, <1>4 DEF CommitActions

LEMMA ReleaseKeeps ==
    ASSUME Inv, NEW w \in Workers, ReleaseActions(w)
    PROVE  Inv'
<1> DEFINE k == Key(w)
           row == Settled(reservation[k])
<1>1. /\ req[w].step \in {"release", "rerelease"} /\ Goes(w, "idle")
      /\ UNCHANGED <<month, pack, edits>>
  BY DEF ReleaseActions
<1>2. k \in Keys /\ reservation[k] \in Reservation /\ Knows(w)
  BY <1>1, Typing DEF Knows
<1>3. reservation' = [reservation EXCEPT ![k] = row]
  BY <1>2, Typing DEF ReleaseActions, Release
<1>4. /\ row \in Reservation /\ row.units = reservation[k].units
      /\ reservation[k].status = "reserved" => row.status = "released"
      /\ reservation[k].status # "reserved" => row = reservation[k]
  BY <1>2 DEF Reservation, Settled
<1>5. reservation[k].status = "none" => k \notin Accepted
  BY <1>2 DEF Inv, RequestInv
<1> HIDE DEF row
<1> QED BY <1>1, <1>2, <1>3, <1>4, <1>5, RowStepKeeps

LEMMA NoteKeeps ==
    ASSUME Inv, NEW w \in Workers, NotePending(w)
    PROVE  Inv'
<1> DEFINE k == Key(w)
           outcome == IF At(w, "markSettle") THEN "settlementPending" ELSE "releasePending"
           row == IF reservation[k].status = "reserved"
                  THEN [reservation[k] EXCEPT !.outcome = outcome] ELSE reservation[k]
<1>1. /\ req[w].step \in {"markSettle", "markRelease"} /\ Goes(w, "idle")
      /\ UNCHANGED <<month, pack, edits>>
  BY DEF NotePending
<1>2. k \in Keys /\ reservation[k] \in Reservation /\ Knows(w)
  BY <1>1, Typing DEF Knows
<1>3. reservation' = [reservation EXCEPT ![k] = row]
  BY <1>2, Typing DEF NotePending, RecordPending
<1>4. /\ row \in Reservation /\ row.units = reservation[k].units /\ row.status = reservation[k].status
      /\ reservation[k].status = "reserved" => row.outcome = outcome
      /\ reservation[k].status # "reserved" => row = reservation[k]
  BY <1>2 DEF Reservation
<1>5. reservation[k].status = "none" => k \notin Accepted
  BY <1>2 DEF Inv, RequestInv
<1>6. /\ At(w, "markSettle") => outcome = "settlementPending" /\ k \in Accepted
      /\ ~At(w, "markSettle") => /\ outcome = "releasePending" /\ k \notin Accepted
                                 /\ Waiting(k) \/ Lapsed(k)
  BY <1>1, <1>2 DEF At, Knows, Unsaved
<1>7. ~(reservation[k].status = "reserved" /\ reservation[k].outcome = "releasePending")
  BY <1>2, <1>6 DEF Inv, RequestInv, Waiting, Lapsed
<1>8. row.status = "reserved" /\ row.outcome = "releasePending" => k \notin Accepted
  BY <1>4, <1>6
<1> HIDE DEF row, outcome
<1> QED BY <1>1, <1>2, <1>3, <1>4, <1>5, <1>7, <1>8, RowStepKeeps

LEMMA ReserveKeeps ==
    ASSUME Inv, NEW w \in Workers, ReserveActions(w)
    PROVE  Inv'
<1> DEFINE k == Key(w)
<1>1. At(w, "reserve") /\ UNCHANGED <<month, pack, edits>>
  BY DEF ReserveActions
<1>2. k \in Keys /\ reservation[k] \in Reservation /\ Knows(w) /\ req[w].base \in Nat
  BY <1>1, Typing DEF Knows, At, Request
<1>3. Accepted' = Accepted
  BY <1>1 DEF Accepted
<1>4. ASSUME NEW U \in SUBSET Units, Reserve(k, req[w].base, U), Goes(w, "generate") PROVE Inv'
  <2>1. reservation' \in [Keys -> Reservation] /\ SoldInv' /\ NeverOverdrawn'
    BY <1>1, <1>2, <1>4, UnitsReserved
  <2>2. /\ req' \in [Workers -> Request] /\ req'[w].step = "generate" /\ Key(w)' = k
        /\ \A v \in Workers \ {w} : req'[v] = req[v]
    BY <1>4, Going DEF Steps
  <2>3. /\ reservation[k].status = "none" /\ reservation'[k].status = "reserved"
        /\ reservation'[k].outcome = "none"
    BY <1>2, <1>4 DEF Reserve
  <2>4. OthersRows(k)
    <3> SUFFICES ASSUME NEW j \in Keys \ {k}
                 PROVE  \/ reservation'[j] = reservation[j]
                        \/ /\ j \in ToRelease
                           /\ reservation'[j].status = "released" /\ reservation'[j].outcome = "releasePending"
      BY DEF OthersRows
    <3>1. reservation'[j] = IF j \in ToRelease THEN [reservation[j] EXCEPT !.status = "released"] ELSE reservation[j]
      BY <1>4 DEF Reserve
    <3>2. CASE j \in ToRelease
      <4>1. reservation[j] \in Reservation /\ reservation[j].outcome = "releasePending"
        BY <3>2, Typing DEF ToRelease
      <4>2. reservation'[j] = [reservation[j] EXCEPT !.status = "released"]
        BY <3>1, <3>2
      <4>3. reservation'[j].status = "released" /\ reservation'[j].outcome = "releasePending"
        BY <4>1, <4>2 DEF Reservation
      <4> QED BY <3>2, <4>3
    <3>3. CASE j \notin ToRelease
      BY <3>1, <3>3
    <3> QED BY <3>2, <3>3
  <2>5. RowMoves(k)
    BY <2>3 DEF RowMoves
  <2>6. \A v \in Workers \ {w} : ~(req[v].step \in Unsaved /\ Key(v) = k)
    BY <2>3 DEF Inv, RequestInv, Owning
  <2>7. \A v \in Workers \ {w} : Knows(v)'
    BY <1>1, <1>2, <1>3, <2>2, <2>3, <2>4, <2>5, <2>6, OthersKnow
  <2>8. k \notin Accepted
    BY <1>2, <2>3 DEF Inv, RequestInv
  <2>9. Knows(w)'
    BY <1>2, <1>3, <2>2, <2>3, <2>8 DEF Knows, Waiting, Unsaved
  <2>10. \A v \in Workers : Knows(v)'
    BY <2>7, <2>9
  <2>11. RequestTyped'
    BY <1>1, <2>1, <2>2, Typing DEF RequestTyped
  <2>12. \A j \in Keys :
        /\ reservation[j].status # "none" => reservation'[j].status # "none"
        /\ reservation'[j].status = "none" => j \notin Accepted'
        /\ reservation'[j].status = "reserved" /\ reservation'[j].outcome = "releasePending"
             => j \notin Accepted'
    BY <1>3, <2>3, <2>4 DEF OthersRows, Inv, RequestInv
  <2>13. RequestInv'
    BY <2>2, <2>3, <2>10, <2>11, <2>12, RequestsStay
  <2>14. PackInv' /\ EditsChain'
    BY <1>1 DEF Inv, PackInv, PackTyped, EditsChain
  <2> QED BY <2>1, <2>13, <2>14 DEF Inv
<1>5. ASSUME NEW step \in {"idle", "rerelease", "reapply"}, Goes(w, step), UNCHANGED reservation,
             step = "rerelease" => reservation[k].status = "reserved" /\ reservation[k].outcome = "releasePending",
             step = "reapply" => reservation[k].status = "committed"
      PROVE  Inv'
  <2>1. /\ req' \in [Workers -> Request] /\ req'[w].step = step /\ (step # "idle" => Key(w)' = k)
        /\ \A v \in Workers \ {w} : req'[v] = req[v]
    BY <1>5, Going DEF Steps
  <2>2. Knows(w)'
    BY <1>2, <1>3, <1>5, <2>1 DEF Knows, Unsaved
  <2> QED BY <1>1, <1>5, <2>1, <2>2, OnlyGoes DEF Owning, Unsaved
<1>6. CASE Goes(w, "idle") /\ UNCHANGED reservation
  BY <1>5, <1>6
<1>7. CASE /\ Goes(w, IF reservation[k].base # req[w].base THEN "idle"
                      ELSE IF reservation[k].status = "reserved" /\ reservation[k].outcome = "releasePending"
                      THEN "rerelease"
                      ELSE IF reservation[k].status = "committed" /\ reservation[k].outcome = "review" /\ req[w].apply
                      THEN "reapply" ELSE "idle")
           /\ UNCHANGED reservation
  <2>1. \/ Goes(w, "idle")
        \/ Goes(w, "rerelease") /\ reservation[k].status = "reserved" /\ reservation[k].outcome = "releasePending"
        \/ Goes(w, "reapply") /\ reservation[k].status = "committed"
    BY <1>7
  <2> QED BY <1>5, <1>7, <2>1
<1> QED BY <1>4, <1>6, <1>7 DEF ReserveActions

LEMMA ApplyKeeps ==
    ASSUME Inv, NEW w \in Workers, Apply(w)
    PROVE  Inv'
<1> DEFINE k == Key(w)
           base == req[w].base
<1>1. /\ req[w].step \in {"apply", "reapply"} /\ AppendIfNew(k, base)
      /\ UNCHANGED <<month, pack, reservation>>
  BY DEF Apply, creditVars
<1>2. k \in Keys /\ base \in Nat /\ Knows(w)
  BY <1>1, Typing DEF Knows, Request
<1>3. /\ edits' \in Seq(Edit) /\ EditsChain'
      /\ IF Saved(k, base) = "accepted" THEN Accepted' = Accepted \cup {k} /\ k \notin Accepted
         ELSE edits' = edits /\ Accepted' = Accepted
  BY <1>1, <1>2, SaveKeeps
<1>4. PICK step \in {"release", "idle", "commitDone", "updateDone"} :
        /\ Goes(w, step)
        /\ step \in {"release", "commitDone"} => req[w].step = "apply"
        /\ step = "release" => Saved(k, base) = "conflict"
        /\ step \in {"commitDone", "updateDone"} => Saved(k, base) # "conflict"
  BY <1>1 DEF Apply, At
<1>5. /\ req' \in [Workers -> Request] /\ req'[w].step = step /\ (step # "idle" => Key(w)' = k)
      /\ \A v \in Workers \ {w} : req'[v] = req[v]
  BY <1>4, Going DEF Steps
<1>6. Saved(k, base) # "conflict" => k \in Accepted'
  BY <1>3 DEF Saved
<1>7. \A v \in Workers \ {w} : req[v].step \in Unsaved => Key(v) # k
  BY <1>1, Alone
<1>8. OthersRows(k) /\ RowMoves(k)
  BY <1>1 DEF OthersRows, RowMoves
<1>9. \A v \in Workers \ {w} : Knows(v)'
  BY <1>1, <1>2, <1>3, <1>5, <1>7, <1>8, OthersKnow, Typing
<1>10. Knows(w)'
  BY <1>1, <1>2, <1>3, <1>4, <1>5, <1>6 DEF Knows, Unsaved, Waiting, Lapsed
<1>11. \A v \in Workers : Knows(v)'
  BY <1>9, <1>10
<1>12. RequestTyped'
  BY <1>1, <1>3, <1>5, Typing DEF RequestTyped
<1>13. reservation[k].status # "none"
       /\ ~(reservation[k].status = "reserved" /\ reservation[k].outcome = "releasePending")
  BY <1>1, <1>2 DEF Knows, Unsaved, Waiting, Lapsed
<1>14. \A j \in Keys :
        /\ reservation[j].status # "none" => reservation'[j].status # "none"
        /\ reservation'[j].status = "none" => j \notin Accepted'
        /\ reservation'[j].status = "reserved" /\ reservation'[j].outcome = "releasePending"
             => j \notin Accepted'
  BY <1>1, <1>3, <1>13 DEF Inv, RequestInv
<1>15. req'[w].step \in Owning => req[w].step \in Owning /\ Key(w)' = k
  BY <1>4, <1>5 DEF Owning, Unsaved
<1>16. RequestInv'
  BY <1>1, <1>5, <1>11, <1>12, <1>13, <1>14, <1>15, RequestsStay
<1>17. PackInv' /\ SoldInv' /\ NeverOverdrawn'
  BY <1>1 DEF Inv, PackInv, PackTyped, SoldInv, NeverOverdrawn, Active
<1> QED BY <1>3, <1>16, <1>17 DEF Inv

LEMMA HandKeeps ==
    ASSUME Inv, NEW s \in Saves, SaveByHand(s)
    PROVE  Inv'
<1>1. PICK base \in 0..Revision : AppendIfNew(s, base)
  BY DEF SaveByHand
<1>2. UNCHANGED <<month, pack, reservation, req>> /\ base \in Nat
  BY Typing DEF SaveByHand, creditVars, Revision
<1>3. /\ edits' \in Seq(Edit) /\ EditsChain'
      /\ Accepted' \subseteq Accepted \cup {s} /\ Accepted \subseteq Accepted'
  BY <1>1, <1>2, SaveKeeps
<1>4. \A k \in Keys : k \in Accepted' <=> k \in Accepted
  BY <1>3, NameAssumption
<1>5. \A w \in Workers : Knows(w)'
  BY <1>2, <1>4, Typing DEF Knows, Key, Waiting, Lapsed, Unsaved
<1>6. RequestInv'
  BY <1>2, <1>3, <1>4, <1>5, Typing DEF Inv, RequestInv, RequestTyped, Key
<1>7. PackInv' /\ SoldInv' /\ NeverOverdrawn'
  BY <1>2 DEF Inv, PackInv, PackTyped, SoldInv, NeverOverdrawn, Active
<1> QED BY <1>3, <1>6, <1>7 DEF Inv
-----------------------------------------------------------------------------
(* Packs.                                                                     *)

UsesPack(k, p) == \E u \in reservation[k].units : SourceOf[u] = p

\* What any step of a pack does to its row.
PackMoves(p, row) ==
    /\ pack' = [pack EXCEPT ![p] = row] /\ UNCHANGED month
    /\ pack[p].recorded \subseteq row.recorded
    /\ pack[p].credit # "none" => row.credit # "none"
    /\ row.credit = "live" => row.recorded = {}
    /\ row.credit = "revoked" => row.recorded # {}

\* Reservations stay; a reversal of a live pack ends those that wait on it.
Keeps(p, row) ==
    /\ UNCHANGED reservation
    /\ row.recorded = pack[p].recorded \/ pack[p].credit = "none" \/ pack[p].recorded # {}

Reverses(p, row) ==
    /\ pack[p].credit = "live" /\ row.credit = "revoked"
    /\ reservation' = [k \in Keys |-> IF UsesPack(k, p) THEN Settled(reservation[k]) ELSE reservation[k]]

LEMMA PackSteps ==
    ASSUME Inv, NEW p \in Packs, PackStep(p)
    PROVE  \E row \in PackRow : PackMoves(p, row) /\ (Keeps(p, row) \/ Reverses(p, row))
<1> DEFINE Goal == \E row \in PackRow : PackMoves(p, row) /\ (Keeps(p, row) \/ Reverses(p, row))
           old == pack[p]
<1>1. /\ old \in PackRow /\ reservation \in [Keys -> Reservation]
      /\ old.credit = "live" => old.recorded = {}
      /\ old.credit = "revoked" => old.recorded # {}
  BY Typing DEF Inv, PackInv
<1>2. ASSUME NEW row \in PackRow, SetPack(p, row), row.credit = old.credit, row.recorded = old.recorded,
             UNCHANGED <<month, reservation>>
      PROVE  Goal
  BY <1>1, <1>2 DEF SetPack, PackMoves, Keeps
<1>3. CASE RequestPack(p)
  <2> DEFINE status == IF old.order = "absent" THEN "creating" ELSE old.order
             row == [old EXCEPT !.order = status, !.reading = @ \cup {status}]
  <2>1. SetPack(p, row) /\ UNCHANGED <<month, reservation>> /\ status \in {"creating", "approval_pending"}
    BY <1>3 DEF RequestPack
  <2>2. row \in PackRow /\ row.credit = old.credit /\ row.recorded = old.recorded
    BY <1>1, <2>1 DEF PackRow, OrderStatuses
  <2> HIDE DEF row
  <2> QED BY <1>2, <2>1, <2>2
<1>4. ASSUME NEW s \in OrderStatuses, VerifyPack(p, s) PROVE Goal
  <2> DEFINE open == old.paypal \in {"none", "created"}
             write == IF ~open THEN {"reconciliation_required"}
                      ELSE IF s = "creating" THEN {"approval_pending"} ELSE {}
             row == [old EXCEPT !.paypal = IF @ = "none" THEN "created" ELSE @,
                                !.reading = @ \ {s}, !.writing = @ \cup write]
  <2>1. SetPack(p, row) /\ UNCHANGED <<month, reservation>>
    BY <1>4 DEF VerifyPack
  <2>2. write \subseteq {"approval_pending", "reconciliation_required"}
    OBVIOUS
  <2> HIDE DEF write
  <2>3. row \in PackRow /\ row.credit = old.credit /\ row.recorded = old.recorded
    BY <1>1, <2>2 DEF PackRow
  <2> HIDE DEF row
  <2> QED BY <1>2, <2>1, <2>3
<1>5. ASSUME NEW s \in OrderStatuses, WriteVerified(p, s) PROVE Goal
  <2> DEFINE row == [old EXCEPT !.order = s, !.writing = @ \ {s}]
  <2>1. SetPack(p, row) /\ UNCHANGED <<month, reservation>>
    BY <1>5 DEF WriteVerified
  <2>2. row \in PackRow /\ row.credit = old.credit /\ row.recorded = old.recorded
    BY <1>1 DEF PackRow
  <2> HIDE DEF row
  <2> QED BY <1>2, <2>1, <2>2
<1>6. ASSUME NEW now \in {"approved", "held", "captured"}, SetPack(p, [old EXCEPT !.paypal = now]),
             UNCHANGED <<month, reservation>>
      PROVE  Goal
  <2> DEFINE row == [old EXCEPT !.paypal = now]
  <2>1. row \in PackRow /\ row.credit = old.credit /\ row.recorded = old.recorded
    BY <1>1 DEF PackRow
  <2>2. SetPack(p, row)
    BY <1>6
  <2> HIDE DEF row
  <2> QED BY <1>2, <1>6, <2>1, <2>2
<1>7. CASE ApprovePack(p) \/ CapturePack(p) \/ HeldCaptureSettles(p)
  BY <1>6, <1>7 DEF ApprovePack, CapturePack, HeldCaptureSettles
<1>8. CASE FinalizePack(p)
  <2>1. UNCHANGED <<month, reservation>>
    BY <1>8 DEF FinalizePack
  <2>2. CASE SetPack(p, [old EXCEPT !.order = "reconciliation_required"])
    <3> DEFINE row == [old EXCEPT !.order = "reconciliation_required"]
    <3>1. row \in PackRow /\ row.credit = old.credit /\ row.recorded = old.recorded /\ SetPack(p, row)
      BY <1>1, <2>2 DEF PackRow, OrderStatuses
    <3> HIDE DEF row
    <3> QED BY <1>2, <2>1, <3>1
  <2>3. CASE /\ old.credit = "none" /\ old.recorded = {}
             /\ SetPack(p, [old EXCEPT !.order = "completed", !.credit = "live"])
    <3> DEFINE row == [old EXCEPT !.order = "completed", !.credit = "live"]
    <3>1. row \in PackRow /\ row.credit = "live" /\ row.recorded = old.recorded /\ SetPack(p, row)
      BY <1>1, <2>3 DEF PackRow, OrderStatuses
    <3> HIDE DEF row
    <3> QED BY <2>1, <2>3, <3>1 DEF SetPack, PackMoves, Keeps
  <2>4. CASE /\ old.credit = "none" /\ old.recorded # {}
             /\ SetPack(p, [old EXCEPT !.order = ReversedStatus(old.recorded), !.credit = "revoked"])
    <3> DEFINE status == ReversedStatus(old.recorded)
               row == [old EXCEPT !.order = status, !.credit = "revoked"]
    <3>1. status \in OrderStatuses
      BY DEF ReversedStatus, OrderStatuses
    <3> HIDE DEF status
    <3>2. row \in PackRow /\ row.credit = "revoked" /\ row.recorded = old.recorded
      BY <1>1, <3>1 DEF PackRow
    <3>3. SetPack(p, row)
      BY <2>4 DEF status
    <3> HIDE DEF row
    <3> QED BY <2>1, <2>4, <3>2, <3>3 DEF SetPack, PackMoves, Keeps
  <2> QED BY <1>8, <2>2, <2>3, <2>4 DEF FinalizePack
<1>9. ASSUME NEW kind \in Kinds, ReversePack(p, kind) PROVE Goal
  <2>1. CASE /\ old.credit = "none" /\ UNCHANGED <<month, reservation>>
             /\ SetPack(p, [old EXCEPT !.recorded = @ \cup {kind}])
    <3> DEFINE row == [old EXCEPT !.recorded = @ \cup {kind}]
    <3>1. row \in PackRow /\ row.credit = "none" /\ row.recorded = old.recorded \cup {kind} /\ SetPack(p, row)
      BY <1>1, <2>1 DEF PackRow
    <3> HIDE DEF row
    <3> QED BY <2>1, <3>1 DEF SetPack, PackMoves, Keeps
  <2>2. CASE old.credit # "none"
    <3> DEFINE status == IF old.order = "refunded" THEN old.order ELSE ReversedStatus({kind})
               row == [old EXCEPT !.recorded = @ \cup {kind}, !.known = @ \cup {kind},
                                  !.credit = "revoked", !.order = status]
    <3>1. status \in OrderStatuses
      BY <1>1 DEF ReversedStatus, OrderStatuses, PackRow
    <3>2. /\ SetPack(p, row) /\ UNCHANGED month
          /\ reservation' = [k \in Keys |->
               IF old.credit = "live" /\ UsesPack(k, p) THEN Settled(reservation[k]) ELSE reservation[k]]
      BY <1>9, <2>2 DEF ReversePack, UsesPack
    <3> HIDE DEF status
    <3>3. row \in PackRow /\ row.credit = "revoked" /\ row.recorded = old.recorded \cup {kind}
      BY <1>1, <3>1 DEF PackRow
    <3> HIDE DEF row
    <3>4. PackMoves(p, row)
      BY <3>2, <3>3 DEF SetPack, PackMoves
    <3>5. CASE old.credit = "live"
      BY <3>2, <3>3, <3>4, <3>5 DEF Reverses
    <3>6. CASE old.credit # "live"
      <4>1. old.credit = "revoked"
        BY <1>1, <2>2, <3>6 DEF PackRow
      <4>2. reservation' = reservation
        BY <1>1, <3>2, <3>6
      <4> QED BY <1>1, <3>3, <3>4, <4>1, <4>2 DEF Keeps
    <3> QED BY <3>5, <3>6
  <2> QED BY <1>9, <2>1, <2>2 DEF ReversePack
<1> QED BY <1>3, <1>4, <1>5, <1>7, <1>8, <1>9 DEF PackStep

\* The row of each reservation after a pack's step.
LEMMA PackRows ==
    ASSUME Inv, NEW p \in Packs, NEW row \in PackRow, PackMoves(p, row), Keeps(p, row) \/ Reverses(p, row)
    PROVE  /\ reservation' \in [Keys -> Reservation]
           /\ \A k \in Keys :
                \/ reservation'[k] = reservation[k]
                \/ /\ reservation[k].status = "reserved" /\ UsesPack(k, p) /\ Reverses(p, row)
                   /\ reservation'[k].status = "released"
                   /\ reservation'[k].units = reservation[k].units
<1>1. reservation \in [Keys -> Reservation]
  BY Typing
<1>2. \A k \in Keys : /\ Settled(reservation[k]) \in Reservation
                      /\ Settled(reservation[k]).units = reservation[k].units
                      /\ \/ Settled(reservation[k]) = reservation[k]
                         \/ reservation[k].status = "reserved" /\ Settled(reservation[k]).status = "released"
  BY <1>1 DEF Settled, Reservation
<1>3. CASE Keeps(p, row)
  BY <1>1, <1>3 DEF Keeps
<1>4. CASE Reverses(p, row)
  <2>1. \A k \in Keys : reservation'[k] = IF UsesPack(k, p) THEN Settled(reservation[k]) ELSE reservation[k]
    BY <1>4 DEF Reverses
  <2>2. reservation' \in [Keys -> Reservation]
    BY <1>1, <1>2, <1>4 DEF Reverses
  <2> QED BY <1>2, <1>4, <2>1, <2>2
<1> QED BY <1>3, <1>4

LEMMA PackKeeps ==
    ASSUME Inv, NEW p \in Packs, PackStep(p), UNCHANGED requestVars
    PROVE  Inv'
<1>1. PICK row \in PackRow : PackMoves(p, row) /\ (Keeps(p, row) \/ Reverses(p, row))
  BY PackSteps
<1>2. /\ reservation' \in [Keys -> Reservation]
      /\ \A k \in Keys :
           \/ reservation'[k] = reservation[k]
           \/ /\ reservation[k].status = "reserved" /\ UsesPack(k, p) /\ Reverses(p, row)
              /\ reservation'[k].status = "released"
              /\ reservation'[k].units = reservation[k].units
  BY <1>1, PackRows
<1>3. /\ pack'[p] = row /\ pack' \in [Packs -> PackRow] /\ month' = month
      /\ \A q \in Packs \ {p} : pack'[q] = pack[q]
  BY <1>1, Typing DEF PackMoves
<1>4. PackInv'
  BY <1>1, <1>3 DEF Inv, PackInv, PackTyped, PackMoves
<1>5. KeepsUnits /\ KeepsSold
  BY <1>1, <1>2, <1>3 DEF KeepsUnits, KeepsSold, PackMoves
<1>6. UNCHANGED <<req, edits>> /\ Accepted' = Accepted
  BY DEF requestVars, Accepted
<1>7. \A q \in Packs : pack[q].recorded \subseteq pack'[q].recorded
  BY <1>1, <1>3 DEF PackMoves
<1>8. ASSUME NEW k \in Keys
      PROVE  /\ Waiting(k) \/ Lapsed(k) => Waiting(k)' \/ Lapsed(k)'
             /\ reservation[k].status = "committed" => reservation'[k].status = "committed"
             /\ reservation[k].status = "released" => reservation'[k].status = "released"
             /\ reservation'[k].status = "none" <=> reservation[k].status = "none"
             /\ reservation'[k].status = "reserved" => reservation'[k] = reservation[k]
             /\ reservation[k].status = "reserved" /\ reservation'[k].status # "released"
                  => reservation'[k] = reservation[k]
  <2>1. CASE reservation'[k] = reservation[k]
    <3>1. Lapsed(k) => Lapsed(k)'
      BY <1>7, <2>1 DEF Lapsed
    <3> QED BY <2>1, <3>1 DEF Waiting
  <2>2. CASE /\ reservation[k].status = "reserved" /\ UsesPack(k, p) /\ Reverses(p, row)
             /\ reservation'[k].status = "released"
             /\ reservation'[k].units = reservation[k].units
    <3>1. pack'[p].recorded # {}
      BY <1>1, <1>3, <2>2 DEF Reverses, PackMoves
    <3>2. Lapsed(k)'
      BY <2>2, <3>1 DEF Lapsed, UsesPack
    <3> QED BY <2>2, <3>2
  <2> QED BY <1>2, <2>1, <2>2
<1>9. ASSUME NEW w \in Workers PROVE Knows(w)'
  <2>1. Knows(w) /\ Key(w)' = Key(w) /\ req'[w] = req[w]
    BY <1>6, Typing DEF Key
  <2>2. CASE Key(w) \in Keys
    BY <1>6, <1>8, <2>1, <2>2 DEF Knows
  <2>3. CASE Key(w) \notin Keys
    BY <2>1, <2>3 DEF Knows, Unsaved
  <2> QED BY <2>2, <2>3
<1>10. RequestInv'
  <2>1. \A w \in Workers : req[w].step \in Owning => Key(w) \in Keys /\ reservation[Key(w)].status # "none"
    BY Typing DEF Inv, RequestInv, Knows, Owning, Unsaved
  <2>2. \A w \in Workers : req'[w].step \in Owning => reservation'[Key(w)'].status # "none"
    BY <1>6, <1>8, <2>1 DEF Key
  <2>3. \A v, w \in Workers :
         req'[v].step \in Owning /\ req'[w].step \in Owning /\ Key(v)' = Key(w)' => v = w
    BY <1>6 DEF Inv, RequestInv, Key
  <2>4. RequestTyped'
    BY <1>2, <1>6, Typing DEF RequestTyped
  <2>5. \A k \in Keys :
         /\ reservation'[k].status = "none" => k \notin Accepted'
         /\ reservation'[k].status = "reserved" /\ reservation'[k].outcome = "releasePending"
              => k \notin Accepted'
    BY <1>6, <1>8 DEF Inv, RequestInv
  <2> QED BY <1>9, <2>2, <2>3, <2>4, <2>5 DEF RequestInv
<1>11. EditsChain'
  BY <1>6 DEF Inv, EditsChain
<1> QED BY <1>4, <1>5, <1>10, <1>11, UnitsStay DEF Inv
-----------------------------------------------------------------------------
(* The inductive invariant.                                                   *)

LEMMA InitInv == Init => Inv
<1> SUFFICES ASSUME Init PROVE Inv
  OBVIOUS
<1> USE DEF Init, CreditInit
<1>1. PackInv
  BY CreditAssumption DEF PackInv, PackTyped, PackRow, NoPack, OrderStatuses
<1>2. /\ NoReservation \in Reservation /\ Idle \in Request
      /\ NoReservation.units = {} /\ NoReservation.status = "none" /\ Idle.step = "idle"
  BY DEF NoReservation, Idle, Reservation, Request, Steps
<1>3. SoldInv /\ NeverOverdrawn
  BY <1>2 DEF SoldInv, NeverOverdrawn, Active
<1>4. EditsChain /\ Accepted = {} /\ edits \in Seq(Edit)
  BY DEF EditsChain, Accepted
<1>5. RequestInv
  BY <1>2, <1>4 DEF RequestInv, RequestTyped, Knows, Unsaved, Owning
<1> QED BY <1>1, <1>3, <1>4, <1>5 DEF Inv

LEMMA NextInv == Inv /\ [Next]_vars => Inv'
<1> SUFFICES ASSUME Inv, [Next]_vars PROVE Inv'
  OBVIOUS
<1>1. ASSUME NEW w \in Workers, Progress(w) PROVE Inv'
  BY <1>1, ReserveKeeps, GenerateKeeps, ApplyKeeps, CommitKeeps, ReleaseKeeps, NoteKeeps DEF Progress
<1>2. ASSUME NEW w \in Workers, TransactionFails(w) \/ RequestDies(w) PROVE Inv'
  <2>1. /\ UNCHANGED <<month, pack, reservation, edits>>
        /\ Goes(w, OnError(req[w].step)) \/ Goes(w, "idle")
    BY <1>2 DEF TransactionFails, RequestDies, creditVars
  <2> QED BY <2>1, ErrorKeeps
<1>3. ASSUME NEW w \in Workers, NEW k \in Keys, NEW apply \in BOOLEAN, Read(w, k, apply) PROVE Inv'
  BY <1>3, ReadKeeps
<1>4. ASSUME NEW s \in Saves, SaveByHand(s) PROVE Inv'
  BY <1>4, HandKeeps
<1>5. ASSUME NEW p \in Packs, PackStep(p), UNCHANGED requestVars PROVE Inv'
  BY <1>5, PackKeeps
<1>6. ASSUME month' = month \/ month' \in Months, UNCHANGED <<pack, reservation, req, edits>> PROVE Inv'
  <2>1. PackInv'
    BY <1>6 DEF Inv, PackInv, PackTyped
  <2>2. SoldInv' /\ NeverOverdrawn' /\ EditsChain' /\ Accepted' = Accepted
    BY <1>6 DEF Inv, SoldInv, NeverOverdrawn, Active, EditsChain, Accepted
  <2>3. \A w \in Workers : Knows(w)'
    BY <1>6, <2>2, Typing DEF Knows, Key, Waiting, Lapsed
  <2>4. RequestInv'
    BY <1>6, <2>2, <2>3 DEF Inv, RequestInv, RequestTyped, Key
  <2> QED BY <2>1, <2>2, <2>4 DEF Inv
<1>7. CASE NextMonth /\ UNCHANGED requestVars
  BY <1>6, <1>7 DEF NextMonth, requestVars
<1>8. CASE UNCHANGED vars
  BY <1>6, <1>8 DEF vars
<1> QED BY <1>1, <1>2, <1>3, <1>4, <1>5, <1>7, <1>8 DEF Next

LEMMA Invariant == Spec => []Inv
<1> QED BY InitInv, NextInv, PTL DEF Spec

\* No Action is spent twice: active reservations hold different Actions, each
\* as many as its request costs (reserve in ai-usage.js), for any number of
\* keys, requests, packs, Actions and months.
THEOREM ActionsAreSpentOnce == Spec => []NeverOverdrawn
<1>1. Inv => NeverOverdrawn
  BY DEF Inv
<1> QED BY <1>1, Invariant, PTL

\* Every accepted edit, by hand or by the AI, was made on the revision before
\* it, and no idempotency key is in the history twice (saveCode, saveVisual and
\* the apply step of editor-projects.js).
THEOREM HistoryIsAChain == Spec => []EditsChain
<1>1. Inv => EditsChain
  BY DEF Inv
<1> QED BY <1>1, Invariant, PTL
-----------------------------------------------------------------------------
(* The editor implements PaidEdits.                                           *)

ClaimOf(k) == Claim(reservation[k])
Uses(k) == {SourceOf[u] : u \in reservation[k].units} \cap Packs
Dead == {p \in Packs : pack[p].recorded # {}}
Edited == Keys \cap Accepted

LEMMA NothingPaid ==
    ASSUME \A k \in Keys : ClaimOf(k)' = ClaimOf(k) /\ reservation'[k].units = reservation[k].units,
           UNCHANGED <<Dead, Edited>>
    PROVE  UNCHANGED Paid!vars
<1>1. \A k \in Keys : Uses(k)' = Uses(k)
  BY DEF Uses
<1> QED BY <1>1 DEF Paid!vars, ClaimOf, Uses, Dead, Edited

\* One claim changes.
LEMMA OneClaim ==
    ASSUME NEW k \in Keys, NEW to, ClaimOf(k)' = to,
           \A j \in Keys \ {k} : ClaimOf(j)' = ClaimOf(j),
           \A j \in Keys : reservation'[j].units = reservation[j].units,
           UNCHANGED <<Dead, Edited>>
    PROVE  /\ [j \in Keys |-> ClaimOf(j)]' = [[j \in Keys |-> ClaimOf(j)] EXCEPT ![k] = to]
           /\ UNCHANGED <<[j \in Keys |-> Uses(j)], Dead, Edited>>
<1>1. \A j \in Keys : Uses(j)' = Uses(j)
  BY DEF Uses
<1> QED BY <1>1

\* A charge is on sources whose payment was not reversed.
LEMMA LiveUses ==
    ASSUME Inv, NEW k \in Keys,
           \A u \in reservation[k].units : SourceOf[u] \in Packs => pack[SourceOf[u]].credit # "revoked"
    PROVE  Uses(k) \cap Dead = {}
<1> SUFFICES ASSUME NEW u \in reservation[k].units, SourceOf[u] \in Packs
             PROVE  pack[SourceOf[u]].recorded = {}
  BY DEF Uses, Dead
<1>1. pack[SourceOf[u]] \in PackRow /\ pack[SourceOf[u]].credit # "none"
  BY Typing DEF Inv, SoldInv
<1>2. pack[SourceOf[u]].credit = "live"
  BY <1>1 DEF PackRow
<1> QED BY <1>2 DEF Inv, PackInv

LEMMA ReservePays ==
    ASSUME Inv, NEW w \in Workers, NEW k \in Keys, k = Key(w), ReserveActions(w)
    PROVE  [Paid!Next]_Paid!vars
<1>1. At(w, "reserve") /\ UNCHANGED <<month, pack, edits>>
  BY DEF ReserveActions
<1>2. k \in Keys
  BY <1>1, Typing DEF Knows, At
<1>3. UNCHANGED <<Dead, Edited>>
  BY <1>1 DEF Dead, Edited, Accepted
<1>4. CASE UNCHANGED reservation
  BY <1>3, <1>4, NothingPaid DEF ClaimOf
<1>5. ASSUME NEW U \in SUBSET Units, Reserve(k, req[w].base, U) PROVE Paid!Hold(k)
  <2> DEFINE D == ToRelease
             P == {SourceOf[u] : u \in U} \cap Packs
             row == [status |-> "reserved", base |-> req[w].base, units |-> U, outcome |-> "none"]
  <2>1. /\ reservation[k].status = "none" /\ U \subseteq Spendable
        /\ reservation' = [j \in Keys |->
             IF j = k THEN row
             ELSE IF j \in ToRelease THEN [reservation[j] EXCEPT !.status = "released"]
             ELSE reservation[j]]
    BY <1>5 DEF Reserve, Allocation
  <2>2. row.status = "reserved" /\ row.units = U
    OBVIOUS
  <2> HIDE DEF row
  <2>3. ASSUME NEW j \in Keys, j # k
        PROVE  /\ reservation'[j].units = reservation[j].units
               /\ j \in D => reservation'[j].status = "released"
               /\ j \notin D => reservation'[j] = reservation[j]
    BY <2>1, <2>3, Typing DEF Reservation
  <2>4. ClaimOf(k) = "none" /\ ClaimOf(k)' = "held" /\ Uses(k)' = P
    BY <1>2, <2>1, <2>2 DEF ClaimOf, Claim, Uses
  <2>5. \A j \in Keys \ {k} : /\ ClaimOf(j)' = (IF j \in D THEN "dropped" ELSE ClaimOf(j))
                               /\ Uses(j)' = Uses(j)
    BY <2>3 DEF ClaimOf, Claim, Uses
  <2>6. D \in SUBSET {j \in Keys \ Edited : ClaimOf(j) = "held"}
    BY DEF ToRelease, Inv, RequestInv, Edited, ClaimOf, Claim
  <2>7. P \in SUBSET (Packs \ Dead)
    <3>1. \A u \in U : Live(u) /\ month \in Months
      BY <2>1, Typing DEF Spendable
    <3>2. \A u \in U : SourceOf[u] \in Packs => pack[SourceOf[u]].credit = "live"
      BY <3>1, CreditAssumption DEF Live
    <3>3. \A u \in U : SourceOf[u] \in Packs => pack[SourceOf[u]].recorded = {}
      BY <3>2 DEF Inv, PackInv
    <3> QED BY <3>3 DEF Dead
  <2>8. [j \in Keys |-> Uses(j)]' = [[j \in Keys |-> Uses(j)] EXCEPT ![k] = P]
    BY <2>4, <2>5
  <2>9. [j \in Keys |-> ClaimOf(j)]' =
          [j \in Keys |-> IF j = k THEN "held" ELSE IF j \in D THEN "dropped"
                           ELSE [i \in Keys |-> ClaimOf(i)][j]]
    BY <2>4, <2>5
  <2>10. [j \in Keys |-> ClaimOf(j)][k] = "none"
    BY <1>2, <2>4
  <2>11. D \in SUBSET {j \in Keys \ Edited : [i \in Keys |-> ClaimOf(i)][j] = "held"}
    BY <2>6
  <2> HIDE DEF D, P
  <2> QED BY <1>3, <2>7, <2>8, <2>9, <2>10, <2>11 DEF Paid!Hold, ClaimOf, Uses, Dead, Edited
<1> QED BY <1>2, <1>4, <1>5 DEF ReserveActions, Paid!Next

LEMMA CommitPays ==
    ASSUME Inv, NEW w \in Workers, NEW k \in Keys, k = Key(w), CommitActions(w)
    PROVE  [Paid!Next]_Paid!vars
<1>1. req[w].step # "idle" /\ UNCHANGED <<month, pack, edits>>
  BY DEF CommitActions
<1>2. k \in Keys /\ reservation[k] \in Reservation
  BY <1>1, Typing DEF Knows
<1>3. UNCHANGED <<Dead, Edited>>
  BY <1>1 DEF Dead, Edited, Accepted
<1>4. CASE UNCHANGED reservation
  BY <1>3, <1>4, NothingPaid DEF ClaimOf
<1>5. ASSUME NEW outcome \in {"review", "done"}, Commit(k, outcome) PROVE [Paid!Next]_Paid!vars
  <2> DEFINE row == [status |-> "committed", base |-> reservation[k].base,
                     units |-> reservation[k].units, outcome |-> outcome]
  <2>1. reservation' = [reservation EXCEPT ![k] = row]
    BY <1>2, <1>5, Typing DEF Commit
  <2>2. row \in Reservation /\ row.status = "committed" /\ row.units = reservation[k].units
    BY <1>2 DEF Reservation
  <2> HIDE DEF row
  <2>3. reservation'[k] = row /\ \A j \in Keys \ {k} : reservation'[j] = reservation[j]
    BY <1>2, <2>1, <2>2, Rowing
  <2>4. ClaimOf(k)' = "charged" /\ \A j \in Keys \ {k} : ClaimOf(j)' = ClaimOf(j)
    BY <2>2, <2>3 DEF ClaimOf, Claim
  <2>5. \A j \in Keys : reservation'[j].units = reservation[j].units
    BY <2>2, <2>3
  <2>6. CASE reservation[k].status = "committed"
    <3>1. ClaimOf(k) = "charged"
      BY <2>6 DEF ClaimOf, Claim
    <3> QED BY <1>3, <2>4, <2>5, <3>1, NothingPaid
  <2>7. CASE reservation[k].status = "reserved"
    <3>1. Uses(k) \cap Dead = {}
      BY <1>2, <1>5, <2>7, LiveUses DEF Commit, CanCommit
    <3>2. ClaimOf(k) = "held"
      BY <2>7 DEF ClaimOf, Claim
    <3>3. /\ [j \in Keys |-> ClaimOf(j)]' = [[j \in Keys |-> ClaimOf(j)] EXCEPT ![k] = "charged"]
          /\ UNCHANGED <<[j \in Keys |-> Uses(j)], Dead, Edited>>
      BY <1>2, <1>3, <2>4, <2>5, OneClaim
    <3>4. [j \in Keys |-> ClaimOf(j)][k] = "held" /\ [j \in Keys |-> Uses(j)][k] \cap Dead = {}
      BY <1>2, <3>1, <3>2
    <3>5. Paid!Charge(k)
      BY <3>3, <3>4 DEF Paid!Charge, ClaimOf, Uses, Dead, Edited
    <3> QED BY <1>2, <3>5 DEF Paid!Next
  <2> QED BY <1>5, <2>6, <2>7 DEF Commit, CanCommit
<1> QED BY <1>4, <1>5 DEF CommitActions

LEMMA ReleasePays ==
    ASSUME Inv, NEW w \in Workers, NEW k \in Keys, k = Key(w), ReleaseActions(w)
    PROVE  [Paid!Next]_Paid!vars
<1> DEFINE row == Settled(reservation[k])
<1>1. req[w].step \in {"release", "rerelease"} /\ UNCHANGED <<month, pack, edits>>
  BY DEF ReleaseActions
<1>2. k \in Keys /\ reservation[k] \in Reservation /\ Knows(w)
  BY <1>1, Typing DEF Knows
<1>3. UNCHANGED <<Dead, Edited>>
  BY <1>1 DEF Dead, Edited, Accepted
<1>4. reservation' = [reservation EXCEPT ![k] = row]
  BY <1>2, Typing DEF ReleaseActions, Release
<1>5. /\ row \in Reservation /\ row.units = reservation[k].units
      /\ reservation[k].status = "reserved" => row.status = "released"
      /\ reservation[k].status # "reserved" => row = reservation[k]
  BY <1>2 DEF Reservation, Settled
<1> HIDE DEF row
<1>6. reservation'[k] = row /\ \A j \in Keys \ {k} : reservation'[j] = reservation[j]
  BY <1>2, <1>4, <1>5, Rowing
<1>7. \A j \in Keys : reservation'[j].units = reservation[j].units
  BY <1>5, <1>6
<1>8. \A j \in Keys \ {k} : ClaimOf(j)' = ClaimOf(j)
  BY <1>6 DEF ClaimOf
<1>9. CASE reservation[k].status # "reserved"
  <2>1. ClaimOf(k)' = ClaimOf(k)
    BY <1>5, <1>6, <1>9 DEF ClaimOf
  <2> QED BY <1>3, <1>7, <1>8, <2>1, NothingPaid
<1>10. CASE reservation[k].status = "reserved"
  <2>1. ClaimOf(k) = "held" /\ ClaimOf(k)' = "dropped"
    BY <1>5, <1>6, <1>10 DEF ClaimOf, Claim
  <2>2. k \notin Edited
    BY <1>1, <1>2, <1>10 DEF Knows, Unsaved, Inv, RequestInv, Edited
  <2>3. /\ [j \in Keys |-> ClaimOf(j)]' = [[j \in Keys |-> ClaimOf(j)] EXCEPT ![k] = "dropped"]
        /\ UNCHANGED <<[j \in Keys |-> Uses(j)], Dead, Edited>>
    BY <1>2, <1>3, <1>7, <1>8, <2>1, OneClaim
  <2>4. [j \in Keys |-> ClaimOf(j)][k] = "held"
    BY <1>2, <2>1
  <2>5. Paid!Drop(k)
    BY <2>2, <2>3, <2>4 DEF Paid!Drop, ClaimOf, Uses, Dead, Edited
  <2> QED BY <1>2, <2>5 DEF Paid!Next
<1> QED BY <1>9, <1>10

LEMMA NotePays ==
    ASSUME Inv, NEW w \in Workers, NEW k \in Keys, k = Key(w), NotePending(w)
    PROVE  UNCHANGED Paid!vars
<1> DEFINE outcome == IF At(w, "markSettle") THEN "settlementPending" ELSE "releasePending"
           row == IF reservation[k].status = "reserved"
                  THEN [reservation[k] EXCEPT !.outcome = outcome] ELSE reservation[k]
<1>1. req[w].step # "idle" /\ UNCHANGED <<month, pack, edits>>
  BY DEF NotePending
<1>2. k \in Keys /\ reservation[k] \in Reservation
  BY <1>1, Typing DEF Knows
<1>3. UNCHANGED <<Dead, Edited>>
  BY <1>1 DEF Dead, Edited, Accepted
<1>4. reservation' = [reservation EXCEPT ![k] = row]
  BY <1>2, Typing DEF NotePending, RecordPending
<1>5. row \in Reservation /\ row.units = reservation[k].units /\ row.status = reservation[k].status
  BY <1>2 DEF Reservation
<1> HIDE DEF row
<1>6. reservation'[k] = row /\ \A j \in Keys \ {k} : reservation'[j] = reservation[j]
  BY <1>2, <1>4, <1>5, Rowing
<1>7. \A j \in Keys : reservation'[j].units = reservation[j].units /\ ClaimOf(j)' = ClaimOf(j)
  BY <1>5, <1>6 DEF ClaimOf, Claim
<1> QED BY <1>3, <1>7, NothingPaid

LEMMA ApplyPays ==
    ASSUME Inv, NEW w \in Workers, NEW k \in Keys, k = Key(w), Apply(w)
    PROVE  [Paid!Next]_Paid!vars
<1> DEFINE base == req[w].base
<1>1. /\ req[w].step \in {"apply", "reapply"} /\ AppendIfNew(k, base)
      /\ UNCHANGED <<month, pack, reservation>>
  BY DEF Apply, creditVars
<1>2. k \in Keys /\ base \in Nat /\ Knows(w)
  BY <1>1, Typing DEF Knows, Request
<1>3. IF Saved(k, base) = "accepted" THEN Accepted' = Accepted \cup {k} /\ k \notin Accepted
      ELSE Accepted' = Accepted
  BY <1>1, <1>2, SaveKeeps
<1>4. UNCHANGED Dead /\ \A j \in Keys : ClaimOf(j)' = ClaimOf(j) /\ Uses(j)' = Uses(j)
  BY <1>1 DEF Dead, ClaimOf, Uses
<1>5. CASE Saved(k, base) # "accepted"
  BY <1>1, <1>3, <1>4, <1>5, NothingPaid DEF Edited
<1>6. CASE Saved(k, base) = "accepted"
  <2>1. Edited' = Edited \cup {k} /\ k \notin Edited
    BY <1>2, <1>3, <1>6 DEF Edited
  <2>2. \/ ClaimOf(k) \in {"held", "charged"}
        \/ ClaimOf(k) = "dropped" /\ Uses(k) \cap Dead # {}
    <3>1. \/ reservation[k].status \in {"reserved", "committed"}
          \/ Lapsed(k)
      BY <1>1, <1>2 DEF Knows, Unsaved, Waiting
    <3>2. Lapsed(k) => reservation[k].status = "released" /\ Uses(k) \cap Dead # {}
      BY DEF Lapsed, Uses, Dead
    <3> QED BY <3>1, <3>2 DEF ClaimOf, Claim
  <2>3. UNCHANGED <<[j \in Keys |-> ClaimOf(j)], [j \in Keys |-> Uses(j)], Dead>>
    BY <1>4
  <2>4. [j \in Keys |-> ClaimOf(j)][k] = ClaimOf(k) /\ [j \in Keys |-> Uses(j)][k] = Uses(k)
    BY <1>2
  <2>5. Paid!Edit(k)
    BY <2>1, <2>2, <2>3, <2>4 DEF Paid!Edit, ClaimOf, Uses, Dead, Edited
  <2> QED BY <1>2, <2>5 DEF Paid!Next
<1> QED BY <1>5, <1>6

LEMMA PackPays ==
    ASSUME Inv, NEW p \in Packs, PackStep(p), UNCHANGED requestVars
    PROVE  [Paid!Next]_Paid!vars
<1>1. PICK row \in PackRow : PackMoves(p, row) /\ (Keeps(p, row) \/ Reverses(p, row))
  BY PackSteps
<1>2. /\ pack'[p] = row /\ pack[p].recorded \subseteq row.recorded
      /\ \A q \in Packs \ {p} : pack'[q] = pack[q]
  BY <1>1, Typing DEF PackMoves
<1>3. UNCHANGED Edited
  BY DEF requestVars, Edited, Accepted
<1>4. CASE Keeps(p, row)
  <2>1. \A k \in Keys : ClaimOf(k)' = ClaimOf(k) /\ Uses(k)' = Uses(k) /\ reservation'[k].units = reservation[k].units
    BY <1>4 DEF Keeps, ClaimOf, Uses
  <2>2. CASE UNCHANGED Dead
    BY <1>3, <2>1, <2>2, NothingPaid
  <2>3. CASE Dead' # Dead
    <3>1. pack[p].recorded = {} /\ row.recorded # {} /\ pack[p].credit = "none"
      BY <1>2, <1>4, <2>3 DEF Dead, Keeps
    <3>2. p \notin Dead /\ Dead' = Dead \cup {p}
      BY <1>2, <3>1 DEF Dead
    <3>3. \A k \in Keys : p \notin Uses(k)
      BY <3>1 DEF Inv, SoldInv, Uses
    <3>4. [k \in Keys |-> ClaimOf(k)]' =
            [k \in Keys |-> IF [j \in Keys |-> ClaimOf(j)][k] = "held" /\ p \in [j \in Keys |-> Uses(j)][k]
                             THEN "dropped" ELSE [j \in Keys |-> ClaimOf(j)][k]]
      BY <2>1, <3>3
    <3>5. UNCHANGED [k \in Keys |-> Uses(k)]
      BY <2>1
    <3>6. Paid!Revoke(p)
      BY <1>3, <3>2, <3>4, <3>5 DEF Paid!Revoke, ClaimOf, Uses, Dead, Edited
    <3> QED BY <3>6 DEF Paid!Next
  <2> QED BY <2>2, <2>3
<1>5. CASE Reverses(p, row)
  <2>1. pack[p].recorded = {} /\ row.recorded # {}
    BY <1>1, <1>5 DEF Reverses, PackMoves, Inv, PackInv
  <2>2. p \notin Dead /\ Dead' = Dead \cup {p}
    BY <1>2, <2>1 DEF Dead
  <2>3. ASSUME NEW k \in Keys
        PROVE  /\ reservation'[k].units = reservation[k].units
               /\ ClaimOf(k)' = IF ClaimOf(k) = "held" /\ p \in Uses(k) THEN "dropped" ELSE ClaimOf(k)
    <3>1. reservation'[k] = IF UsesPack(k, p) THEN Settled(reservation[k]) ELSE reservation[k]
      BY <1>5 DEF Reverses
    <3>2. UsesPack(k, p) <=> p \in Uses(k)
      BY DEF UsesPack, Uses
    <3>3. reservation[k] \in Reservation
      BY Typing
    <3>4. /\ Settled(reservation[k]).units = reservation[k].units
          /\ Claim(Settled(reservation[k])) = IF ClaimOf(k) = "held" THEN "dropped" ELSE ClaimOf(k)
      BY <3>3 DEF Settled, Reservation, Claim, ClaimOf
    <3>5. CASE UsesPack(k, p)
      <4>1. reservation'[k] = Settled(reservation[k])
        BY <3>1, <3>5
      <4> QED BY <3>2, <3>4, <3>5, <4>1 DEF ClaimOf
    <3>6. CASE ~UsesPack(k, p)
      <4>1. reservation'[k] = reservation[k]
        BY <3>1, <3>6
      <4> QED BY <3>2, <3>6, <4>1 DEF ClaimOf
    <3> QED BY <3>5, <3>6
  <2>4. UNCHANGED [k \in Keys |-> Uses(k)]
    BY <2>3 DEF Uses
  <2>5. [k \in Keys |-> ClaimOf(k)]' =
          [k \in Keys |-> IF [j \in Keys |-> ClaimOf(j)][k] = "held" /\ p \in [j \in Keys |-> Uses(j)][k]
                           THEN "dropped" ELSE [j \in Keys |-> ClaimOf(j)][k]]
    BY <2>3
  <2>6. Paid!Revoke(p)
    BY <1>3, <2>2, <2>4, <2>5 DEF Paid!Revoke, ClaimOf, Uses, Dead, Edited
  <2> QED BY <2>6 DEF Paid!Next
<1> QED BY <1>1, <1>4, <1>5

\* Whatever fails, an AI edit that is in the source was paid for with Actions
\* of live sources, its claim is charged at most once, and it is given up only
\* when the payment behind it went back (the orders of commit, release and
\* recovery in ai.js and editor-projects.js, against reversals of packs): each
\* step of the editor is one step of PaidEdits or none.
THEOREM EditorImplementsPaidEdits == Spec => ImplementsPaidEdits
<1>1. Init => Paid!Init
  <2> SUFFICES ASSUME Init PROVE Paid!Init
    OBVIOUS
  <2>1. \A k \in Keys : ClaimOf(k) = "none" /\ Uses(k) = {}
    BY DEF Init, CreditInit, NoReservation, ClaimOf, Claim, Uses
  <2>2. Dead = {} /\ Edited = {}
    BY DEF Init, CreditInit, NoPack, Dead, Edited, Accepted
  <2> QED BY <2>1, <2>2 DEF Paid!Init, ClaimOf, Uses, Dead, Edited
<1>2. ASSUME Inv, [Next]_vars PROVE [Paid!Next]_Paid!vars
  <2>1. ASSUME UNCHANGED <<pack, reservation, edits>> PROVE UNCHANGED Paid!vars
    BY <2>1, NothingPaid DEF ClaimOf, Dead, Edited, Accepted
  <2>2. ASSUME NEW w \in Workers, Progress(w) PROVE [Paid!Next]_Paid!vars
    <3>1. CASE Generate(w)
      BY <2>1, <3>1 DEF Generate, creditVars
    <3>2. PICK k \in Keys : k = Key(w)
      BY <1>2, <2>2, Typing DEF Knows, At, Progress, ReserveActions, Generate, Apply,
                                CommitActions, ReleaseActions, NotePending
    <3> QED BY <1>2, <2>2, <3>1, <3>2, ReservePays, ApplyPays, CommitPays, ReleasePays, NotePays DEF Progress
  <2>3. ASSUME NEW w \in Workers, TransactionFails(w) \/ RequestDies(w) PROVE UNCHANGED Paid!vars
    BY <2>1, <2>3 DEF TransactionFails, RequestDies, creditVars
  <2>4. ASSUME NEW w \in Workers, NEW k \in Keys, NEW apply \in BOOLEAN, Read(w, k, apply)
        PROVE  UNCHANGED Paid!vars
    BY <2>1, <2>4 DEF Read, creditVars
  <2>5. ASSUME NEW s \in Saves, SaveByHand(s) PROVE UNCHANGED Paid!vars
    <3>1. PICK base \in 0..Revision : AppendIfNew(s, base)
      BY <2>5 DEF SaveByHand
    <3>2. UNCHANGED <<pack, reservation>> /\ base \in Nat
      BY <2>5, Typing, <1>2 DEF SaveByHand, creditVars, Revision
    <3>3. Accepted' \subseteq Accepted \cup {s} /\ Accepted \subseteq Accepted'
      BY <1>2, <3>1, <3>2, SaveKeeps
    <3>4. UNCHANGED <<Dead, Edited>>
      BY <3>2, <3>3, NameAssumption DEF Dead, Edited
    <3> QED BY <3>2, <3>4, NothingPaid DEF ClaimOf
  <2>6. ASSUME NEW p \in Packs, PackStep(p), UNCHANGED requestVars PROVE [Paid!Next]_Paid!vars
    BY <1>2, <2>6, PackPays
  <2>7. CASE NextMonth /\ UNCHANGED requestVars
    BY <2>1, <2>7 DEF NextMonth, requestVars
  <2>8. CASE UNCHANGED vars
    BY <2>1, <2>8 DEF vars
  <2> QED BY <1>2, <2>2, <2>3, <2>4, <2>5, <2>6, <2>7, <2>8 DEF Next
<1>3. Inv /\ [Next]_vars => [Paid!Next]_Paid!vars
  BY <1>2
<1> QED BY <1>1, <1>3, Invariant, PTL DEF Spec, ImplementsPaidEdits, Paid!Spec
=============================================================================

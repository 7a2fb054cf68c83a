--------------------------- MODULE OfflineSync_proofs --------------------------
(****************************************************************************)
(* The offline client: types; what the feed brings it, changes and           *)
(* deletions; and what becomes of the mutations it sends.                    *)
(****************************************************************************)
EXTENDS MCExchange, ContactImport_proofs, FiniteSetTheorems, WellFoundedInduction, TLAPS

RequestPcs == {"idle", "lookup", "load", "claim", "write", "record", "delete", "insert", "after"}

Request ==
  [pc : RequestPcs, kind : Kinds, id : Ids \cup {None}, m : Mutations \cup {None},
   expected : Nat \cup {None}, stamp : Nat, held : Nat, kept : BOOLEAN]

Mutation ==
  [kind : Kinds, id : Ids \cup {None}, expected : Nat, base : Nat,
   state : {"none", "queued", "done", "refused"}, to : Requests \cup {None}]

Pull ==
  [gotRows : BOOLEAN, gotTombs : BOOLEAN, rows : SUBSET Entry, tombs : SUBSET Ids, next : Nat \X Nat]

(* What a request knows at each of its steps, and that it is about its mutation. *)
OnLead == {"load", "claim", "write", "record", "delete"}

ReqOK(w) ==
  /\ w.pc = "idle" => w.m = None
  /\ w.pc \in OnLead => w.id \in Ids /\ w.kind # "create"
  /\ w.pc = "insert" => w.kind = "create"
  /\ w.pc \in {"lookup", "load", "claim"} => w.m # None
  /\ w.pc = "claim" => w.expected # None
  /\ w.pc \in {"record", "delete"} => w.kind = "delete"

About(w, n) ==
  /\ n.state # "none" /\ w.kind = n.kind /\ w.id = n.id
  /\ w.kind # "create" => w.expected = n.expected /\ w.id \in Ids

MutOK(n) ==
  \/ n.state = "none"
  \/ n.kind = "create" /\ n.id = None
  \/ n.kind \in {"edit", "delete"} /\ n.id \in Ids

RequestsOK ==
  /\ req \in [Requests -> Request] /\ mut \in [Mutations -> Mutation]
  /\ \A x \in Requests : ReqOK(req[x])
  /\ \A x \in Requests : req[x].m # None => About(req[x], mut[req[x].m])
  /\ \A m \in Mutations : MutOK(mut[m])

(* A mutation keeps what it is about. *)
SameAs(n, o) ==
  o.state # "none" =>
    /\ n.state # "none" /\ n.kind = o.kind /\ n.id = o.id /\ n.expected = o.expected /\ n.base = o.base

LEMMA NoneApart ==
  /\ None \notin Ids /\ None \notin Mutations /\ None \notin Requests /\ None \notin Nat
  /\ Ids \subseteq Nat \ {0} /\ IsFiniteSet(Ids) /\ Limit \in Nat \ {0}
BY OfflineAssumption DEF OfflineAssumption

LEMMA IdleType == Idle \in Request /\ ReqOK(Idle) /\ Idle.m = None /\ Idle.pc = "idle"
BY DEF Idle, Request, ReqOK, RequestPcs, Kinds, OnLead

(* One request moves on; mutations keep what they are about. *)
LEMMA RequestPut ==
  ASSUME RequestsOK, NEW x \in Requests, NEW w \in Request, ReqOK(w),
         req' = [req EXCEPT ![x] = w],
         mut' \in [Mutations -> Mutation], \A m \in Mutations : SameAs(mut'[m], mut[m]) /\ MutOK(mut'[m]),
         w.m # None => About(w, mut[w.m])
  PROVE  RequestsOK'
<1>1. req' \in [Requests -> Request] /\ \A y \in Requests : req'[y] = IF y = x THEN w ELSE req[y]
  BY DEF RequestsOK
<1>2. \A y \in Requests : ReqOK(req'[y])
  BY <1>1 DEF RequestsOK
<1>3. ASSUME NEW y \in Requests, req'[y].m # None PROVE About(req'[y], mut'[req'[y].m])
  <2>1. About(req'[y], mut[req'[y].m]) /\ req'[y].m \in Mutations
    BY <1>1, <1>3 DEF RequestsOK, Request
  <2> QED BY <2>1 DEF About, SameAs
<1> QED BY <1>1, <1>2, <1>3 DEF RequestsOK

LEMMA MutsSame ==
  ASSUME RequestsOK
  PROVE  \A m \in Mutations : SameAs(mut[m], mut[m]) /\ MutOK(mut[m])
BY DEF RequestsOK, SameAs

(* The client hears an answer, or not. *)
LEMMA TellMuts ==
  ASSUME RequestsOK, NEW x \in Requests, NEW state \in {"queued", "done", "refused"}, Tell(x, state)
  PROVE  /\ req' = [req EXCEPT ![x] = Idle]
         /\ mut' \in [Mutations -> Mutation]
         /\ \A m \in Mutations :
              /\ SameAs(mut'[m], mut[m]) /\ MutOK(mut'[m])
              /\ \/ mut'[m] = mut[m]
                 \/ m = req[x].m /\ mut[m].to = x /\ mut'[m].state = state /\ mut'[m].to = None
<1>1. mut \in [Mutations -> Mutation] /\ \A m \in Mutations : MutOK(mut[m])
  BY DEF RequestsOK
<1>2. \A m \in Mutations :
        mut'[m] = IF m = req[x].m /\ mut[m].to = x THEN [mut[m] EXCEPT !.state = state, !.to = None] ELSE mut[m]
  BY DEF Tell
<1>3. ASSUME NEW m \in Mutations, m = req[x].m, mut[m].to = x
      PROVE  LET n == [mut[m] EXCEPT !.state = state, !.to = None]
             IN  n \in Mutation /\ SameAs(n, mut[m]) /\ MutOK(n) /\ n.state = state /\ n.to = None
  <2>1. mut[m] \in Mutation
    BY <1>1
  <2>2. m # None => mut[m].state # "none"
    BY <1>3 DEF RequestsOK, About
  <2>3. m # None
    BY NoneApart
  <2> QED BY <1>1, <2>1, <2>2, <2>3 DEF Mutation, SameAs, MutOK
<1>4. mut' \in [Mutations -> Mutation]
  <2>1. mut' = [m \in Mutations |-> mut'[m]]
    BY DEF Tell
  <2>2. \A m \in Mutations : mut'[m] \in Mutation
    BY <1>1, <1>2, <1>3
  <2> QED BY <2>1, <2>2
<1> QED BY <1>1, <1>2, <1>3, <1>4, MutsSame DEF Tell

LEMMA TellType ==
  ASSUME RequestsOK, NEW x \in Requests, NEW state \in {"queued", "done", "refused"}, Tell(x, state)
  PROVE  RequestsOK'
BY IdleType, TellMuts, RequestPut

(* A request goes on with the same mutation. *)
LEMMA GoesOn ==
  ASSUME RequestsOK, NEW x \in Requests, NEW w \in Request, ReqOK(w), req' = [req EXCEPT ![x] = w],
         w.m = req[x].m, w.kind = req[x].kind, w.id = req[x].id, w.expected = req[x].expected,
         UNCHANGED mut
  PROVE  RequestsOK'
<1>1. w.m # None => About(w, mut[w.m])
  BY DEF RequestsOK, About
<1>2. mut' \in [Mutations -> Mutation] /\ \A m \in Mutations : SameAs(mut'[m], mut[m]) /\ MutOK(mut'[m])
  BY MutsSame DEF RequestsOK
<1> QED BY <1>1, <1>2, RequestPut

LEMMA MutPut ==
  ASSUME RequestsOK, NEW m \in Mutations, NEW n \in Mutation, MutOK(n), SameAs(n, mut[m]),
         mut' = [mut EXCEPT ![m] = n], UNCHANGED req
  PROVE  RequestsOK'
<1>1. mut' \in [Mutations -> Mutation] /\ \A k \in Mutations : mut'[k] = IF k = m THEN n ELSE mut[k]
  BY DEF RequestsOK
<1>2. \A k \in Mutations : SameAs(mut'[k], mut[k]) /\ MutOK(mut'[k])
  BY <1>1, MutsSame DEF RequestsOK
<1>3. ASSUME NEW y \in Requests, req[y].m # None PROVE About(req[y], mut'[req[y].m])
  <2>1. About(req[y], mut[req[y].m]) /\ req[y].m \in Mutations
    BY <1>3 DEF RequestsOK, Request
  <2> QED BY <1>2, <2>1 DEF About, SameAs
<1> QED BY <1>1, <1>2, <1>3 DEF RequestsOK

LEMMA SendType ==
  ASSUME RequestsOK, NEW x \in Requests, NEW m \in Mutations, Send(x, m)
  PROVE  RequestsOK'
<1> DEFINE n == [mut[m] EXCEPT !.to = x]
           w == [Idle EXCEPT !.pc = "lookup", !.kind = mut[m].kind, !.id = mut[m].id, !.m = m,
                             !.expected = IF mut[m].kind = "create" THEN None ELSE mut[m].expected]
<1>1. mut[m] \in Mutation /\ MutOK(mut[m]) /\ mut[m].state = "queued"
  BY DEF RequestsOK, Send
<1>2. n \in Mutation /\ MutOK(n) /\ SameAs(n, mut[m])
  BY <1>1 DEF Mutation, MutOK, SameAs
<1>3. w \in Request /\ ReqOK(w) /\ w.m = m /\ About(w, mut[m])
  BY <1>1, IdleType, NoneApart DEF Mutation, Request, ReqOK, Idle, RequestPcs, About, MutOK, OnLead
<1>4. mut' = [mut EXCEPT ![m] = n] /\ req' = [req EXCEPT ![x] = w]
  BY <1>1 DEF Send, RequestsOK, Mutation
<1> HIDE DEF n, w
<1>5. mut' \in [Mutations -> Mutation] /\ \A k \in Mutations : SameAs(mut'[k], mut[k]) /\ MutOK(mut'[k])
  BY <1>2, <1>4, MutsSame DEF RequestsOK
<1> QED BY <1>3, <1>4, <1>5, RequestPut

(***************************************************************************)
(* OfflineTypes of the rest.                                                      *)
(***************************************************************************)
DataOK ==
  /\ now \in Nat /\ lastRead \in Nat /\ upsets \in Nat
  /\ row \in [Ids -> Lead]
  /\ tombs \subseteq Tomb /\ IsFiniteSet(tombs)
  /\ receipts \subseteq Mutations /\ storing \subseteq Mutations
  /\ copy \in [Ids -> [at : Nat, ver : Nat]]
  /\ cursor \in Nat \X Nat
  /\ late \subseteq Ids /\ blurred \subseteq Ids
  /\ torn \subseteq Ids /\ cut \subseteq Ids /\ unmarked \subseteq Ids
  /\ applied \in [Mutations -> Nat] /\ unsafe \subseteq Mutations

PullOK == pull \in Pull /\ Cardinality(pull.rows) <= Limit /\ (\A r \in pull.rows, s \in pull.rows : r.id = s.id => r = s)

OfflineTypes == RequestsOK /\ DataOK /\ PullOK

LEMMA TypesImply == OfflineTypes => TypeOK
BY DEF OfflineTypes, RequestsOK, DataOK, PullOK, TypeOK, Request, Mutation, Pull, RequestPcs

LEMMA NoPullType == NoPull \in Pull /\ Cardinality(NoPull.rows) <= Limit /\ NoPull.rows = {}
BY FS_EmptySet, NoneApart DEF NoPull, Pull

LEMMA InitTypes == Init => OfflineTypes
<1> SUFFICES ASSUME Init PROVE OfflineTypes
  OBVIOUS
<1>1. RequestsOK
  <2>1. req \in [Requests -> Request] /\ \A x \in Requests : ReqOK(req[x]) /\ req[x].m = None
    BY IdleType DEF Init
  <2>2. mut \in [Mutations -> Mutation] /\ \A m \in Mutations : MutOK(mut[m])
    BY DEF Init, NoMutation, Mutation, MutOK, Kinds
  <2> QED BY <2>1, <2>2 DEF RequestsOK
<1>2. DataOK
  <2>1. row \in [Ids -> Lead]
    BY DEF Init, NoLead, Lead
  <2>2. copy \in [Ids -> [at : Nat, ver : Nat]]
    BY DEF Init, NoCopy
  <2> QED BY <2>1, <2>2, FS_EmptySet DEF Init, DataOK
<1>3. PullOK
  BY NoPullType DEF Init, PullOK
<1> QED BY <1>1, <1>2, <1>3 DEF OfflineTypes

(* The order of the cursor. *)
LEMMA PosTyped == ASSUME DataOK, NEW i \in Ids PROVE Pos(i) \in Nat \X Nat /\ Pos(i)[1] = row[i].at /\ Pos(i)[2] = i
BY NoneApart DEF DataOK, Pos, Lead

LEMMA BeforeOrder ==
  ASSUME NEW p \in Nat \X Nat, NEW q \in Nat \X Nat, NEW r \in Nat \X Nat
  PROVE  /\ Before(p, q) /\ Before(q, r) => Before(p, r)
         /\ ~Before(p, p)
         /\ ~Before(p, q) /\ ~Before(q, p) => p = q
BY DEF Before

Ahead(p, i) == {j \in After(p) : Before(Pos(j), Pos(i))}

LEMMA AfterFinite ==
  ASSUME NEW p
  PROVE  /\ After(p) \subseteq Ids /\ IsFiniteSet(After(p)) /\ Page(p) \subseteq After(p)
         /\ \A i : IsFiniteSet(Ahead(p, i)) /\ Cardinality(Ahead(p, i)) \in Nat
         /\ \A i \in After(p) : i \in Page(p) <=> Cardinality(Ahead(p, i)) < Limit
<1>1. After(p) \subseteq Ids /\ IsFiniteSet(After(p)) /\ Page(p) \subseteq After(p)
  BY NoneApart, FS_Subset DEF After, Documents, Page
<1>2. \A i : Ahead(p, i) \subseteq After(p)
  BY DEF Ahead
<1> QED BY <1>1, <1>2, FS_Subset, FS_CardinalityType DEF Page, Ahead

(* A page runs up to its last lead, and leaves out none that comes before it. *)
LEMMA PageWhole ==
  ASSUME DataOK, NEW p, NEW last \in Page(p), \A i \in Page(p) : ~Before(Pos(last), Pos(i))
  PROVE  /\ \A i \in After(p) : i \in Page(p) \/ Before(Pos(last), Pos(i))
         /\ IsFiniteSet(Page(p)) /\ Cardinality(Page(p)) <= Limit
<1>1. last \in After(p) /\ last \in Ids /\ Cardinality(Ahead(p, last)) < Limit
  BY AfterFinite
<1>2. ASSUME NEW i \in After(p), ~Before(Pos(last), Pos(i)) PROVE i \in Page(p)
  <2>1. CASE i = last
    BY <2>1
  <2>2. CASE i # last
    <3>1. i \in Ids /\ Pos(i) \in Nat \X Nat /\ Pos(last) \in Nat \X Nat /\ Pos(i) # Pos(last)
      BY <1>1, <2>2, AfterFinite, PosTyped
    <3>2. Before(Pos(i), Pos(last))
      BY <1>2, <3>1, BeforeOrder
    <3>3. Ahead(p, i) \subseteq Ahead(p, last)
      <4> SUFFICES ASSUME NEW j \in After(p), Before(Pos(j), Pos(i)) PROVE Before(Pos(j), Pos(last))
        BY DEF Ahead
      <4> QED BY <3>1, <3>2, AfterFinite, PosTyped, BeforeOrder
    <3>4. Cardinality(Ahead(p, i)) <= Cardinality(Ahead(p, last))
      BY <3>3, AfterFinite, FS_Subset
    <3> QED BY <1>1, <3>4, AfterFinite, NoneApart
  <2> QED BY <2>1, <2>2
<1>3. Page(p) \subseteq Ahead(p, last) \cup {last}
  <2> SUFFICES ASSUME NEW i \in Page(p), i # last PROVE i \in After(p) /\ Before(Pos(i), Pos(last))
    BY DEF Ahead
  <2>1. i \in After(p) /\ i \in Ids /\ ~Before(Pos(last), Pos(i))
    BY AfterFinite
  <2>2. Pos(i) \in Nat \X Nat /\ Pos(last) \in Nat \X Nat /\ Pos(i) # Pos(last)
    BY <1>1, <2>1, PosTyped
  <2> QED BY <2>1, <2>2, BeforeOrder
<1>4. IsFiniteSet(Page(p)) /\ Cardinality(Page(p)) <= Limit
  <2>1. IsFiniteSet(Ahead(p, last)) /\ Cardinality(Ahead(p, last)) \in Nat
    BY AfterFinite
  <2>2. IsFiniteSet(Ahead(p, last) \cup {last})
        /\ Cardinality(Ahead(p, last) \cup {last}) <= Cardinality(Ahead(p, last)) + 1
    BY <2>1, FS_AddElement
  <2>3. IsFiniteSet(Page(p)) /\ Cardinality(Page(p)) <= Cardinality(Ahead(p, last) \cup {last})
    BY <1>3, <2>2, FS_Subset
  <2>4. Cardinality(Page(p)) \in Nat /\ Cardinality(Ahead(p, last) \cup {last}) \in Nat
    BY <2>2, <2>3, FS_CardinalityType
  <2> QED BY <1>1, <2>1, <2>2, <2>3, <2>4, NoneApart
<1> QED BY <1>2, <1>4

EntryOf(i) == [id |-> i, at |-> row[i].at, ver |-> row[i].ver]

(* What the reading of the rows does to the pull. *)
LEMMA ReadRowsDoes ==
  ASSUME OfflineTypes, ReadRows
  PROVE  /\ pull' \in Pull /\ pull'.gotRows /\ pull'.gotTombs = pull.gotTombs /\ pull'.tombs = pull.tombs
         /\ pull'.rows = {EntryOf(i) : i \in Page(cursor)}
         /\ Cardinality(pull'.rows) <= Limit
         /\ \/ Page(cursor) = {} /\ pull'.next = cursor
            \/ \E last \in Page(cursor) :
                 /\ \A i \in Page(cursor) : ~Before(Pos(last), Pos(i))
                 /\ pull'.next = Pos(last)
         /\ \A i \in After(cursor) : i \in Page(cursor) \/ (Before(pull'.next, Pos(i)) /\ Page(cursor) # {})
<1> DEFINE rows == {EntryOf(i) : i \in Page(cursor)}
<1>0. DataOK /\ pull \in Pull
  BY DEF OfflineTypes, PullOK
<1>1. rows \subseteq Entry
  <2>1. \A i \in Page(cursor) : i \in Ids
    BY AfterFinite
  <2> QED BY <1>0, <2>1 DEF EntryOf, Entry, DataOK, Lead
<1>2. \E n \in Nat \X Nat :
        /\ pull' = [pull EXCEPT !.gotRows = TRUE, !.rows = rows, !.next = n]
        /\ \/ Page(cursor) = {} /\ n = cursor
           \/ \E last \in Page(cursor) :
                /\ \A i \in Page(cursor) : ~Before(Pos(last), Pos(i))
                /\ n = Pos(last)
  <2>1. CASE Page(cursor) = {} /\ pull' = [pull EXCEPT !.gotRows = TRUE, !.rows = rows, !.next = cursor]
    BY <1>0, <2>1 DEF DataOK
  <2>2. CASE \E last \in Page(cursor) :
               /\ \A i \in Page(cursor) : ~Before(Pos(last), Pos(i))
               /\ pull' = [pull EXCEPT !.gotRows = TRUE, !.rows = rows, !.next = Pos(last)]
    <3>1. \A i \in Page(cursor) : i \in Ids
      BY AfterFinite
    <3> QED BY <1>0, <2>2, <3>1, PosTyped
  <2> QED BY <1>0, <2>1, <2>2 DEF ReadRows, EntryOf, Pull
<1>3. PICK n \in Nat \X Nat :
        /\ pull' = [pull EXCEPT !.gotRows = TRUE, !.rows = rows, !.next = n]
        /\ \/ Page(cursor) = {} /\ n = cursor
           \/ \E last \in Page(cursor) :
                /\ \A i \in Page(cursor) : ~Before(Pos(last), Pos(i))
                /\ n = Pos(last)
  BY <1>2
<1> HIDE DEF rows
<1>4. /\ pull' \in Pull /\ pull'.gotRows /\ pull'.gotTombs = pull.gotTombs /\ pull'.tombs = pull.tombs
      /\ pull'.rows = rows /\ pull'.next = n
  BY <1>0, <1>1, <1>3 DEF Pull
<1>5. IsFiniteSet(Page(cursor)) /\ Cardinality(Page(cursor)) <= Limit
      /\ \A i \in After(cursor) : i \in Page(cursor) \/ (Before(n, Pos(i)) /\ Page(cursor) # {})
  <2>1. CASE Page(cursor) = {}
    <3>1. ASSUME NEW i \in After(cursor) PROVE i \in Page(cursor)
      <4>1. PICK k \in After(cursor) : \A j \in After(cursor) : ~Before(Pos(j), Pos(k))
        <5> DEFINE size(j) == Cardinality(Ahead(cursor, j))
        <5>1. \E k \in After(cursor) : \A j \in After(cursor) : ~Before(Pos(j), Pos(k))
          <6> DEFINE S == {size(j) : j \in After(cursor)}
          <6>1. S \subseteq Nat /\ S # {}
            BY AfterFinite, <3>1
          <6>2. PICK s \in S : \A t \in S : s <= t
            <7> HIDE DEF S
            <7> DEFINE R == OpToRel(<, Nat)
            <7>1. PICK s \in S : \A t \in S : ~(<<t, s>> \in R)
              <8> HIDE DEF R
              <8>1. IsWellFoundedOn(R, Nat)
                BY NatLessThanWellFounded DEF R
              <8> QED BY <6>1, <8>1, WFMin
            <7>2. \A t \in S : ~(t < s)
              BY <6>1, <7>1 DEF OpToRel
            <7> HIDE DEF R
            <7>3. \A t \in S : s <= t
              BY <6>1, <7>2
            <7> QED BY <7>3
          <6>3. PICK k \in After(cursor) : size(k) = s
            BY <6>2
          <6>4. ASSUME NEW j \in After(cursor), Before(Pos(j), Pos(k)) PROVE FALSE
            <7>1. Ahead(cursor, j) \subseteq Ahead(cursor, k) /\ j \in Ahead(cursor, k) /\ j \notin Ahead(cursor, j)
              <8>1. \A y \in After(cursor) : Pos(y) \in Nat \X Nat
                BY <1>0, AfterFinite, PosTyped
              <8> QED BY <6>4, <8>1, BeforeOrder DEF Ahead
            <7>2. Cardinality(Ahead(cursor, j)) < Cardinality(Ahead(cursor, k))
              <8>1. /\ IsFiniteSet(Ahead(cursor, k)) /\ IsFiniteSet(Ahead(cursor, j))
                    /\ Cardinality(Ahead(cursor, k)) \in Nat /\ Cardinality(Ahead(cursor, j)) \in Nat
                BY AfterFinite
              <8>2. Cardinality(Ahead(cursor, j)) <= Cardinality(Ahead(cursor, k))
                    /\ (Cardinality(Ahead(cursor, j)) = Cardinality(Ahead(cursor, k)) => Ahead(cursor, j) = Ahead(cursor, k))
                BY <7>1, <8>1, FS_Subset
              <8> QED BY <7>1, <8>1, <8>2
            <7>3. s <= size(j)
              BY <6>2
            <7> QED BY <6>3, <7>2, <7>3, AfterFinite
          <6> QED BY <6>4
        <5> QED BY <5>1
      <4>2. Ahead(cursor, k) = {}
        BY <4>1 DEF Ahead
      <4>3. k \in Page(cursor)
        BY <4>2, AfterFinite, FS_EmptySet, NoneApart
      <4> QED BY <2>1, <4>3
    <3>2. IsFiniteSet(Page(cursor)) /\ Cardinality(Page(cursor)) <= Limit
      BY <2>1, FS_EmptySet, NoneApart
    <3> QED BY <3>1, <3>2
  <2>2. CASE Page(cursor) # {}
    BY <1>0, <1>3, <2>2, PageWhole
  <2> QED BY <2>1, <2>2
<1>6. Cardinality(rows) <= Limit
  <2>1. IsFiniteSet(rows) /\ Cardinality(rows) <= Cardinality(Page(cursor))
    <3> DEFINE f == [i \in Page(cursor) |-> EntryOf(i)]
    <3>1. f \in Surjection(Page(cursor), rows)
      BY DEF Surjection, rows
    <3> QED BY <1>5, <3>1, FS_Surjection
  <2>2. Cardinality(rows) \in Nat /\ Cardinality(Page(cursor)) \in Nat
    BY <1>5, <2>1, FS_CardinalityType
  <2> QED BY <1>5, <2>1, <2>2, NoneApart
<1> QED BY <1>3, <1>4, <1>5, <1>6 DEF rows

(* One action at a time. *)
LEMMA TickTypes == ASSUME OfflineTypes, Tick PROVE OfflineTypes'
<1>1. RequestsOK'
  BY DEF OfflineTypes, Tick, RequestsOK
<1>2. DataOK' /\ PullOK'
  BY DEF OfflineTypes, Tick, DataOK, PullOK, client, versions, ghosts, effects
<1> QED BY <1>1, <1>2 DEF OfflineTypes

LEMMA BusyLeads ==
  ASSUME RequestsOK
  PROVE  {req[x].id : x \in {y \in Requests : req[y].pc \in {"record", "delete"}}} \subseteq Ids
BY DEF RequestsOK, ReqOK, OnLead

LEMMA ReadRowsTypes == ASSUME OfflineTypes, ReadRows PROVE OfflineTypes'
<1>1. RequestsOK'
  BY DEF OfflineTypes, ReadRows, RequestsOK
<1>2. DataOK'
  BY BusyLeads DEF OfflineTypes, ReadRows, DataOK, effects
<1>3. PullOK'
  <2>1. pull' \in Pull /\ Cardinality(pull'.rows) <= Limit /\ pull'.rows = {EntryOf(i) : i \in Page(cursor)}
    BY ReadRowsDoes
  <2> QED BY <2>1 DEF PullOK, EntryOf
<1> QED BY <1>1, <1>2, <1>3 DEF OfflineTypes

(* What the reading of the tombstones does. *)
LEMMA ReadTombsDoes ==
  ASSUME OfflineTypes, ReadTombs
  PROVE  /\ pull' \in Pull /\ pull'.gotTombs /\ pull'.gotRows = pull.gotRows /\ pull'.rows = pull.rows
         /\ pull'.next = pull.next
         /\ \A t \in Due : t.id \in pull'.tombs \cup cut'
         /\ \A i \in pull'.tombs : \E t \in tombs : t.id = i
         /\ cut \subseteq cut' /\ cut' \subseteq Ids
<1> DEFINE page == {t \in Due : Cardinality({u \in Due : Before(<<u.at, u.n>>, <<t.at, t.n>>)}) < Limit}
           got == {t.id : t \in page}
           lost == {t.id : t \in Due \ page}
<1>1. page \subseteq Due /\ \A t \in Due : t \in tombs /\ t.id \in Ids
  BY DEF Due, OfflineTypes, DataOK, Tomb
<1>2. pull' = [pull EXCEPT !.gotTombs = TRUE, !.tombs = got] /\ cut' = cut \cup lost /\ pull \in Pull /\ cut \subseteq Ids
  BY DEF ReadTombs, OfflineTypes, PullOK, DataOK
<1> HIDE DEF page
<1>3. /\ got \subseteq Ids /\ lost \subseteq Ids /\ (\A t \in Due : t.id \in got \cup lost)
      /\ \A i \in got : \E t \in tombs : t.id = i
  BY <1>1
<1> HIDE DEF got, lost
<1> QED BY <1>2, <1>3 DEF Pull

LEMMA ReadTombsTypes == ASSUME OfflineTypes, ReadTombs PROVE OfflineTypes'
<1>1. RequestsOK'
  BY DEF OfflineTypes, ReadTombs, RequestsOK
<1>2. DataOK'
  BY BusyLeads, ReadTombsDoes DEF OfflineTypes, ReadTombs, DataOK, versions, effects
<1>3. PullOK'
  BY ReadTombsDoes DEF PullOK, OfflineTypes
<1> QED BY <1>1, <1>2, <1>3 DEF OfflineTypes

(* What the client makes of an answer. *)
LEMMA ApplyDoes ==
  ASSUME OfflineTypes, Apply
  PROVE  /\ copy' \in [Ids -> [at : Nat, ver : Nat]]
         /\ \A i \in pull.tombs : i \in Ids => copy'[i] = NoCopy
         /\ \A r \in pull.rows : r.id \in Ids /\ (r.id \notin pull.tombs => copy'[r.id] = [at |-> r.at, ver |-> r.ver])
         /\ \A i \in Ids : i \notin pull.tombs /\ (\A r \in pull.rows : r.id # i) => copy'[i] = copy[i]
<1>1. \A r \in pull.rows : r.id \in Ids /\ r.at \in Nat /\ r.ver \in Nat
  BY DEF OfflineTypes, PullOK, Pull, Entry
<1>2. \A r \in pull.rows : (CHOOSE s \in pull.rows : s.id = r.id) = r
  BY DEF OfflineTypes, PullOK
<1>3. \A i \in Ids :
        copy'[i] = IF i \in pull.tombs THEN NoCopy
                   ELSE IF \E r \in pull.rows : r.id = i
                        THEN LET r == CHOOSE r \in pull.rows : r.id = i IN [at |-> r.at, ver |-> r.ver]
                        ELSE copy[i]
  BY DEF Apply
<1>8. \A i \in Ids : i \in pull.tombs => copy'[i] = NoCopy
  BY <1>3
<1>4. \A r \in pull.rows : r.id \notin pull.tombs => copy'[r.id] = [at |-> r.at, ver |-> r.ver]
  BY <1>1, <1>2, <1>3
<1>5. \A i \in Ids : copy'[i] \in [at : Nat, ver : Nat]
  <2> TAKE i \in Ids
  <2>1. CASE i \in pull.tombs
    <3>1. copy'[i] = NoCopy
      BY <1>8, <2>1
    <3> QED BY <3>1 DEF NoCopy
  <2>2. CASE i \notin pull.tombs /\ \E r \in pull.rows : r.id = i
    <3>1. PICK r \in pull.rows : r.id = i
      BY <2>2
    <3>2. copy'[i] = [at |-> r.at, ver |-> r.ver] /\ r.at \in Nat /\ r.ver \in Nat
      BY <1>1, <1>4, <2>2, <3>1
    <3> QED BY <3>2
  <2>3. CASE i \notin pull.tombs /\ ~\E r \in pull.rows : r.id = i
    BY <1>3, <2>3 DEF OfflineTypes, DataOK
  <2> QED BY <2>1, <2>2, <2>3
<1>6. copy' \in [Ids -> [at : Nat, ver : Nat]]
  <2>1. copy' = [i \in Ids |-> copy'[i]]
    BY DEF Apply
  <2> QED BY <1>5, <2>1
<1> QED BY <1>1, <1>3, <1>4, <1>6, <1>8

LEMMA ApplyTypes == ASSUME OfflineTypes, Apply PROVE OfflineTypes'
<1>1. RequestsOK'
  BY DEF OfflineTypes, Apply, RequestsOK
<1>2. DataOK'
  <2>1. cursor' \in Nat \X Nat
    BY DEF OfflineTypes, Apply, PullOK, Pull
  <2> QED BY <2>1, ApplyDoes DEF OfflineTypes, Apply, DataOK, versions, ghosts, effects
<1>3. PullOK'
  BY NoPullType DEF PullOK, Apply
<1> QED BY <1>1, <1>2, <1>3 DEF OfflineTypes

LEMMA PullLostTypes == ASSUME OfflineTypes, PullLost PROVE OfflineTypes'
<1>1. RequestsOK'
  BY DEF OfflineTypes, PullLost, RequestsOK
<1>2. DataOK' /\ PullOK'
  BY NoPullType DEF OfflineTypes, PullLost, DataOK, PullOK, versions, ghosts, effects
<1> QED BY <1>1, <1>2 DEF OfflineTypes

(* What is queued. *)
LEMMA QueueDoes ==
  ASSUME OfflineTypes, NEW m \in Mutations, Queue(m)
  PROVE  /\ mut[m].state = "none"
         /\ \E n \in Mutation :
              /\ mut' = [mut EXCEPT ![m] = n] /\ n.state = "queued" /\ n.to = None
              /\ \/ /\ n.kind \in {"edit", "delete"} /\ n.id \in Ids /\ copy[n.id].ver > 0
                    /\ n.expected = copy[n.id].at /\ n.base = copy[n.id].ver
                 \/ n.kind = "create" /\ n.id = None
<1>1. CASE \E i \in Ids, kind \in {"edit", "delete"} :
             /\ copy[i].ver > 0
             /\ mut' = [mut EXCEPT ![m] = [kind |-> kind, id |-> i, expected |-> copy[i].at,
                                           base |-> copy[i].ver, state |-> "queued", to |-> None]]
  <2>1. PICK i \in Ids, kind \in {"edit", "delete"} :
          /\ copy[i].ver > 0
          /\ mut' = [mut EXCEPT ![m] = [kind |-> kind, id |-> i, expected |-> copy[i].at,
                                        base |-> copy[i].ver, state |-> "queued", to |-> None]]
    BY <1>1
  <2>2. [kind |-> kind, id |-> i, expected |-> copy[i].at, base |-> copy[i].ver, state |-> "queued", to |-> None]
          \in Mutation
    BY DEF OfflineTypes, DataOK, Mutation, Kinds
  <2> QED BY <2>1, <2>2 DEF Queue
<1>2. CASE mut' = [mut EXCEPT ![m] = [NoMutation EXCEPT !.kind = "create", !.state = "queued"]]
  <2>1. [NoMutation EXCEPT !.kind = "create", !.state = "queued"] \in Mutation
    BY DEF NoMutation, Mutation, Kinds
  <2> QED BY <1>2, <2>1 DEF Queue, NoMutation
<1> QED BY <1>1, <1>2 DEF Queue

LEMMA QueueTypes == ASSUME OfflineTypes, NEW m \in Mutations, Queue(m) PROVE OfflineTypes'
<1>1. RequestsOK'
  <2>1. PICK n \in Mutation :
          /\ mut' = [mut EXCEPT ![m] = n] /\ n.state = "queued"
          /\ (n.kind \in {"edit", "delete"} /\ n.id \in Ids) \/ (n.kind = "create" /\ n.id = None)
    BY QueueDoes
  <2>2. SameAs(n, mut[m]) /\ MutOK(n) /\ UNCHANGED req
    BY <2>1, QueueDoes DEF SameAs, MutOK, Queue
  <2> QED BY <2>1, <2>2, MutPut DEF OfflineTypes
<1>2. DataOK' /\ PullOK'
  BY DEF OfflineTypes, Queue, DataOK, PullOK, client, versions, ghosts, effects
<1> QED BY <1>1, <1>2 DEF OfflineTypes

LEMMA GiveUpTypes == ASSUME OfflineTypes, NEW m \in Mutations, GiveUp(m) PROVE OfflineTypes'
<1>1. RequestsOK'
  <2> DEFINE n == [mut[m] EXCEPT !.to = None]
  <2>1. mut[m] \in Mutation /\ MutOK(mut[m])
    BY DEF OfflineTypes, RequestsOK
  <2>2. n \in Mutation /\ MutOK(n) /\ SameAs(n, mut[m])
    BY <2>1 DEF Mutation, MutOK, SameAs
  <2>3. mut' = [mut EXCEPT ![m] = n] /\ UNCHANGED req
    BY DEF GiveUp
  <2> HIDE DEF n
  <2> QED BY <2>2, <2>3, MutPut DEF OfflineTypes
<1>2. DataOK' /\ PullOK'
  BY DEF OfflineTypes, GiveUp, Upset, DataOK, PullOK, client, versions, ghosts, effects
<1> QED BY <1>1, <1>2 DEF OfflineTypes

LEMMA SendTypes == ASSUME OfflineTypes, NEW x \in Requests, NEW m \in Mutations, Send(x, m) PROVE OfflineTypes'
<1>1. RequestsOK'
  BY SendType DEF OfflineTypes
<1>2. DataOK' /\ PullOK'
  BY DEF OfflineTypes, Send, DataOK, PullOK, client, versions, ghosts
<1> QED BY <1>1, <1>2 DEF OfflineTypes

(* A request, seen alone. *)
LEMMA ReqTyped ==
  ASSUME RequestsOK, NEW x \in Requests
  PROVE  req[x] \in Request /\ ReqOK(req[x]) /\ req[x].m \in Mutations \cup {None}
BY DEF RequestsOK, Request

LEMMA OnlineDoes ==
  ASSUME OfflineTypes, NEW x \in Requests, NEW kind \in Kinds, NEW i \in Ids \cup {None}, Online(x, kind, i)
  PROVE  \E w \in Request :
           /\ req' = [req EXCEPT ![x] = w] /\ ReqOK(w) /\ w.m = None /\ w.id = i /\ w.stamp = now
           /\ w.pc \in {"insert", "write", "record"} /\ w.kind = kind /\ ~w.kept
           /\ w.pc # "insert" => i \in Ids /\ row[i].status = "live"
<1> DEFINE w == [Idle EXCEPT !.pc = IF kind = "create" THEN "insert" ELSE Work(kind),
                             !.kind = kind, !.id = i, !.stamp = now]
<1>1. req' = [req EXCEPT ![x] = w] /\ (kind # "create" => i \in Ids /\ row[i].status = "live")
  BY DEF Online
<1>2. w.pc \in {"insert", "write", "record"} /\ (w.pc = "insert" <=> kind = "create") /\ (w.pc = "record" => kind = "delete")
  BY DEF Work, Kinds
<1>3. w \in Request /\ w.m = None /\ w.id = i /\ w.stamp = now /\ w.kind = kind /\ w.kept = FALSE
  BY <1>2, IdleType DEF Idle, Request, RequestPcs, OfflineTypes, DataOK
<1>4. ReqOK(w)
  BY <1>1, <1>2, <1>3 DEF ReqOK, OnLead
<1> HIDE DEF w
<1> QED BY <1>1, <1>2, <1>3, <1>4

LEMMA OnlineTypes ==
  ASSUME OfflineTypes, NEW x \in Requests, NEW kind \in Kinds, NEW i \in Ids \cup {None}, Online(x, kind, i)
  PROVE  OfflineTypes'
<1>1. RequestsOK'
  <2>1. PICK w \in Request : req' = [req EXCEPT ![x] = w] /\ ReqOK(w) /\ w.m = None
    BY OnlineDoes
  <2>2. mut' \in [Mutations -> Mutation] /\ \A m \in Mutations : SameAs(mut'[m], mut[m]) /\ MutOK(mut'[m])
    BY MutsSame DEF OfflineTypes, RequestsOK, Online
  <2> QED BY <2>1, <2>2, RequestPut DEF OfflineTypes
<1>2. DataOK' /\ PullOK'
  BY DEF OfflineTypes, Online, Upset, DataOK, PullOK, client, versions, ghosts, effects
<1> QED BY <1>1, <1>2 DEF OfflineTypes

(* A request that goes on, and what it has then. *)
GoesTo(x, w) ==
  /\ w \in Request /\ ReqOK(w) /\ req' = [req EXCEPT ![x] = w] /\ UNCHANGED mut
  /\ w.m = req[x].m /\ w.kind = req[x].kind /\ w.id = req[x].id /\ w.expected = req[x].expected
  /\ w.stamp \in {req[x].stamp, now} /\ w.kept \in {req[x].kept, TRUE} /\ w.held \in {req[x].held, req[x].stamp}

LEMMA GoesToTypes ==
  ASSUME RequestsOK, NEW x \in Requests, NEW w, GoesTo(x, w) PROVE RequestsOK'
BY GoesOn DEF GoesTo

LEMMA LookupDoes ==
  ASSUME OfflineTypes, NEW x \in Requests, Lookup(x)
  PROVE  /\ req[x].pc = "lookup" /\ req[x].m \in Mutations
         /\ \/ req[x].m \in receipts /\ Tell(x, "done")
            \/ /\ req[x].m \notin receipts
               /\ \E w : GoesTo(x, w) /\ w.pc = Handler(req[x].kind) /\ w.kept /\ w.stamp = now
<1>1. req[x].pc = "lookup" /\ req[x].m \in Mutations /\ req[x] \in Request /\ ReqOK(req[x]) /\ now \in Nat
  BY ReqTyped DEF Lookup, ReqOK, OfflineTypes, DataOK
<1>2. CASE req[x].m \in receipts
  BY <1>1, <1>2 DEF Lookup, Known
<1>3. CASE req[x].m \notin receipts
  <2> DEFINE w == [req[x] EXCEPT !.pc = Handler(req[x].kind), !.kept = TRUE, !.stamp = now]
  <2>1. req' = [req EXCEPT ![x] = w] /\ UNCHANGED mut
    BY <1>1, <1>3 DEF Lookup, Known, OfflineTypes, RequestsOK
  <2>2. w \in Request /\ w.m = req[x].m /\ w.kind = req[x].kind /\ w.id = req[x].id /\ w.expected = req[x].expected
        /\ w.stamp = now /\ w.kept /\ w.held = req[x].held /\ w.pc = Handler(req[x].kind)
    BY <1>1 DEF Request, Handler, RequestPcs
  <2>3. ReqOK(w)
    <3>1. req[x].kind # "create" => req[x].id \in Ids
      BY <1>1, NoneApart DEF OfflineTypes, RequestsOK, About
    <3> QED BY <1>1, <2>2, <3>1 DEF ReqOK, Handler, OnLead
  <2> HIDE DEF w
  <2> QED BY <1>1, <1>3, <2>1, <2>2, <2>3 DEF GoesTo
<1> QED BY <1>2, <1>3

LEMMA LookupTypes == ASSUME OfflineTypes, NEW x \in Requests, Lookup(x) PROVE OfflineTypes'
<1>1. RequestsOK'
  BY LookupDoes, TellType, GoesToTypes DEF OfflineTypes
<1>2. DataOK' /\ PullOK'
  BY DEF OfflineTypes, Lookup, DataOK, PullOK, client, versions, ghosts, effects
<1> QED BY <1>1, <1>2 DEF OfflineTypes

LEMMA LookupFailsDoes ==
  ASSUME OfflineTypes, NEW x \in Requests, LookupFails(x)
  PROVE  /\ req[x].pc = "lookup" /\ req[x].m \in Mutations /\ unsafe' = unsafe \cup {req[x].m}
         /\ \E w : GoesTo(x, w) /\ w.pc = Handler(req[x].kind) /\ w.stamp = now
<1>1. req[x].pc = "lookup" /\ req[x].m \in Mutations /\ req[x] \in Request /\ ReqOK(req[x]) /\ now \in Nat
      /\ unsafe' = unsafe \cup {req[x].m}
  BY ReqTyped DEF LookupFails, ReqOK, OfflineTypes, DataOK
<1> DEFINE w == [req[x] EXCEPT !.pc = Handler(req[x].kind), !.stamp = now]
<1>2. req' = [req EXCEPT ![x] = w] /\ UNCHANGED mut
  BY <1>1 DEF LookupFails, Stamped, OfflineTypes, RequestsOK
<1>3. w \in Request /\ w.m = req[x].m /\ w.kind = req[x].kind /\ w.id = req[x].id /\ w.expected = req[x].expected
      /\ w.stamp = now /\ w.kept = req[x].kept /\ w.held = req[x].held /\ w.pc = Handler(req[x].kind)
  BY <1>1 DEF Request, Handler, RequestPcs
<1>4. ReqOK(w)
  <2>1. req[x].kind # "create" => req[x].id \in Ids
    BY <1>1, NoneApart DEF OfflineTypes, RequestsOK, About
  <2> QED BY <1>1, <1>3, <2>1 DEF ReqOK, Handler, OnLead
<1> HIDE DEF w
<1> QED BY <1>1, <1>2, <1>3, <1>4 DEF GoesTo

LEMMA LookupFailsTypes == ASSUME OfflineTypes, NEW x \in Requests, LookupFails(x) PROVE OfflineTypes'
<1>1. RequestsOK'
  BY LookupFailsDoes, GoesToTypes DEF OfflineTypes
<1>2. DataOK' /\ PullOK'
  BY LookupFailsDoes DEF OfflineTypes, LookupFails, Upset, DataOK, PullOK, client, versions, ghosts
<1> QED BY <1>1, <1>2 DEF OfflineTypes

LEMMA LoadDoes ==
  ASSUME OfflineTypes, NEW x \in Requests, Load(x)
  PROVE  /\ req[x].pc = "load" /\ req[x].m \in Mutations /\ req[x].id \in Ids
         /\ \/ row[req[x].id].status # "live" /\ Tell(x, "refused")
            \/ \E w : GoesTo(x, w) /\ w.pc = "claim" /\ w.stamp = now
<1>1. req[x].pc = "load" /\ req[x].m \in Mutations /\ req[x] \in Request /\ ReqOK(req[x]) /\ now \in Nat /\ req[x].id \in Ids
  BY ReqTyped DEF Load, ReqOK, OfflineTypes, DataOK, OnLead
<1>2. req[x].expected # None
  <2>1. About(req[x], mut[req[x].m]) /\ mut[req[x].m] \in Mutation /\ req[x].kind # "create"
    BY <1>1, NoneApart DEF OfflineTypes, RequestsOK, ReqOK, OnLead
  <2> QED BY <2>1, NoneApart DEF About, Mutation
<1>3. CASE row[req[x].id].status # "live"
  BY <1>1, <1>3 DEF Load
<1>4. CASE row[req[x].id].status = "live"
  <2> DEFINE w == [req[x] EXCEPT !.pc = "claim", !.stamp = now]
  <2>1. req' = [req EXCEPT ![x] = w] /\ UNCHANGED mut
    BY <1>1, <1>2, <1>4 DEF Load, Stamped, OfflineTypes, RequestsOK
  <2>2. w \in Request /\ w.m = req[x].m /\ w.kind = req[x].kind /\ w.id = req[x].id /\ w.expected = req[x].expected
        /\ w.stamp = now /\ w.kept = req[x].kept /\ w.held = req[x].held /\ w.pc = "claim"
    BY <1>1 DEF Request, RequestPcs
  <2>3. ReqOK(w)
    BY <1>1, <1>2, <2>2 DEF ReqOK, OnLead
  <2> HIDE DEF w
  <2> QED BY <1>1, <2>1, <2>2, <2>3 DEF GoesTo
<1> QED BY <1>3, <1>4

LEMMA LoadTypes == ASSUME OfflineTypes, NEW x \in Requests, Load(x) PROVE OfflineTypes'
<1>1. RequestsOK'
  BY LoadDoes, TellType, GoesToTypes DEF OfflineTypes
<1>2. DataOK' /\ PullOK'
  BY DEF OfflineTypes, Load, DataOK, PullOK, client, versions, ghosts, effects
<1> QED BY <1>1, <1>2 DEF OfflineTypes

(* A write of a lead. *)
LEMMA CommitType ==
  ASSUME OfflineTypes, NEW i \in Ids, NEW t, Commit(i, t)
  PROVE  lastRead' \in Nat /\ late' \subseteq Ids /\ blurred' \subseteq Ids
BY DEF OfflineTypes, DataOK, Commit

LEMMA RowPut ==
  ASSUME OfflineTypes, NEW i \in Ids, NEW r \in Lead, row' = [row EXCEPT ![i] = r]
  PROVE  row' \in [Ids -> Lead] /\ \A j \in Ids : row'[j] = IF j = i THEN r ELSE row[j]
BY DEF OfflineTypes, DataOK

LEMMA ClaimDoes ==
  ASSUME OfflineTypes, NEW x \in Requests, Claim(x)
  PROVE  /\ req[x].pc = "claim" /\ req[x].m \in Mutations /\ req[x].id \in Ids /\ req[x].expected \in Nat
         /\ \/ ~Matches(x) /\ Tell(x, "refused") /\ UNCHANGED <<row, versions>>
            \/ /\ Matches(x) /\ Commit(req[x].id, req[x].stamp)
               /\ \E w : GoesTo(x, w) /\ w.pc = Work(req[x].kind) /\ w.held = req[x].stamp /\ w.stamp = now
               /\ row' \in [Ids -> Lead]
               /\ \A j \in Ids \ {req[x].id} : row'[j] = row[j]
               /\ LET i == req[x].id
                  IN  row'[i].status = row[i].status /\ row'[i].ver = row[i].ver /\ row'[i].at = req[x].stamp
<1>1. req[x].pc = "claim" /\ req[x].m \in Mutations /\ req[x] \in Request /\ ReqOK(req[x]) /\ now \in Nat
      /\ req[x].id \in Ids /\ req[x].expected \in Nat
  BY ReqTyped DEF Claim, ReqOK, OfflineTypes, DataOK, OnLead, Request
<1>2. CASE ~Matches(x)
  BY <1>1, <1>2 DEF Claim
<1>3. CASE Matches(x)
  <2> DEFINE w == [req[x] EXCEPT !.pc = Work(req[x].kind), !.held = req[x].stamp, !.stamp = now]
             r == [row[req[x].id] EXCEPT !.at = req[x].stamp]
  <2>1. req' = [req EXCEPT ![x] = w] /\ UNCHANGED mut /\ Commit(req[x].id, req[x].stamp)
        /\ row' = [row EXCEPT ![req[x].id] = r]
    BY <1>1, <1>3 DEF Claim, Claimed, OfflineTypes, RequestsOK
  <2>2. w \in Request /\ w.m = req[x].m /\ w.kind = req[x].kind /\ w.id = req[x].id /\ w.expected = req[x].expected
        /\ w.stamp = now /\ w.kept = req[x].kept /\ w.held = req[x].stamp /\ w.pc = Work(req[x].kind)
    BY <1>1 DEF Request, RequestPcs, Work
  <2>3. ReqOK(w)
    <3>1. Work(req[x].kind) \in {"write", "record"} /\ (Work(req[x].kind) = "record" => req[x].kind = "delete")
      BY <1>1 DEF Work, ReqOK, OnLead, Request, Kinds
    <3> QED BY <1>1, <2>2, <3>1 DEF ReqOK, OnLead
  <2>4. r \in Lead /\ r.status = row[req[x].id].status /\ r.ver = row[req[x].id].ver /\ r.at = req[x].stamp
    BY <1>1 DEF OfflineTypes, DataOK, Lead, Request
  <2> HIDE DEF w, r
  <2>5. GoesTo(x, w)
    BY <2>1, <2>2, <2>3 DEF GoesTo
  <2>6. row' \in [Ids -> Lead] /\ \A j \in Ids : row'[j] = IF j = req[x].id THEN r ELSE row[j]
    BY <1>1, <2>1, <2>4, RowPut
  <2> QED BY <1>1, <1>3, <2>1, <2>2, <2>4, <2>5, <2>6
<1> QED BY <1>2, <1>3

LEMMA ClaimTypes == ASSUME OfflineTypes, NEW x \in Requests, Claim(x) PROVE OfflineTypes'
<1>1. RequestsOK'
  BY ClaimDoes, TellType, GoesToTypes DEF OfflineTypes
<1>2. DataOK' /\ PullOK'
  <2>1. row' \in [Ids -> Lead] /\ lastRead' \in Nat /\ late' \subseteq Ids /\ blurred' \subseteq Ids
    BY ClaimDoes, CommitType DEF OfflineTypes, DataOK, versions
  <2> QED BY <2>1 DEF OfflineTypes, Claim, DataOK, PullOK, client, ghosts, effects
<1> QED BY <1>1, <1>2 DEF OfflineTypes

(* How often mutations took effect. *)
LEMMA CountType ==
  ASSUME OfflineTypes, NEW x \in Requests
  PROVE  /\ Count(x) \in [Mutations -> Nat]
         /\ \A m \in Mutations : Count(x)[m] = IF m = req[x].m THEN applied[m] + 1 ELSE applied[m]
<1>1. applied \in [Mutations -> Nat]
  BY DEF OfflineTypes, DataOK
<1> QED BY <1>1 DEF Count

LEMMA GotoDoes ==
  ASSUME OfflineTypes, NEW x \in Requests, NEW pc \in RequestPcs, Goto(x, pc), UNCHANGED mut,
         ReqOK([req[x] EXCEPT !.pc = pc])
  PROVE  \E w : /\ GoesTo(x, w) /\ w.pc = pc /\ w.kept = req[x].kept /\ w.stamp = req[x].stamp
                /\ w.held = req[x].held
<1> DEFINE w == [req[x] EXCEPT !.pc = pc]
<1>1. req[x] \in Request /\ req' = [req EXCEPT ![x] = w]
  BY ReqTyped DEF Goto, OfflineTypes, RequestsOK
<1>2. w \in Request /\ w.m = req[x].m /\ w.kind = req[x].kind /\ w.id = req[x].id /\ w.expected = req[x].expected
      /\ w.stamp = req[x].stamp /\ w.kept = req[x].kept /\ w.held = req[x].held /\ w.pc = pc
  BY <1>1 DEF Request
<1>3. ReqOK(w)
  OBVIOUS
<1> HIDE DEF w
<1> QED BY <1>1, <1>2, <1>3 DEF GoesTo

LEMMA AfterOK ==
  ASSUME OfflineTypes, NEW x \in Requests, req[x].pc # "idle"
  PROVE  ReqOK([req[x] EXCEPT !.pc = "after"])
<1>1. req[x] \in Request
  BY ReqTyped DEF OfflineTypes
<1> QED BY <1>1 DEF ReqOK, OnLead, Request

LEMMA GoesAfter ==
  ASSUME OfflineTypes, NEW x \in Requests, req[x].pc # "idle", Goto(x, "after"), UNCHANGED mut
  PROVE  \E w : GoesTo(x, w) /\ w.pc = "after" /\ w.kept = req[x].kept
<1>1. "after" \in RequestPcs /\ ReqOK([req[x] EXCEPT !.pc = "after"])
  BY AfterOK DEF RequestPcs
<1>2. \E w : /\ GoesTo(x, w) /\ w.pc = "after" /\ w.kept = req[x].kept /\ w.stamp = req[x].stamp
             /\ w.held = req[x].held
  BY <1>1, GotoDoes
<1> QED BY <1>2

LEMMA WriteDoes ==
  ASSUME OfflineTypes, NEW x \in Requests, Write(x)
  PROVE  /\ req[x].pc = "write" /\ req[x].id \in Ids /\ req[x].stamp \in Nat
         /\ \/ ~Finds(x) /\ Tell(x, "queued") /\ UNCHANGED <<row, versions, applied>>
            \/ /\ Finds(x) /\ Commit(req[x].id, req[x].stamp) /\ applied' = Count(x)
               /\ \E w : /\ GoesTo(x, w) /\ w.pc = "after" /\ w.kept = req[x].kept
               /\ row' \in [Ids -> Lead]
               /\ \A j \in Ids \ {req[x].id} : row'[j] = row[j]
               /\ LET i == req[x].id
                  IN  row'[i].status \in {row[i].status, "soft"} /\ row'[i].ver = row[i].ver + 1
                      /\ row'[i].at = req[x].stamp
<1>1. req[x].pc = "write" /\ req[x] \in Request /\ ReqOK(req[x]) /\ req[x].id \in Ids /\ req[x].stamp \in Nat
  BY ReqTyped DEF Write, ReqOK, OfflineTypes, OnLead, Request
<1>2. CASE ~Finds(x)
  BY <1>1, <1>2 DEF Write
<1>3. CASE Finds(x)
  <2> DEFINE old == row[req[x].id]
             r == [status |-> IF req[x].kind = "soft" THEN "soft" ELSE old.status, at |-> req[x].stamp,
                   ver |-> old.ver + 1]
  <2>1. Goto(x, "after") /\ UNCHANGED mut /\ Commit(req[x].id, req[x].stamp) /\ applied' = Count(x)
        /\ row' = [row EXCEPT ![req[x].id] = r]
    BY <1>1, <1>3 DEF Write, OfflineTypes, DataOK
  <2>2. r \in Lead /\ r.status \in {old.status, "soft"} /\ r.ver = old.ver + 1 /\ r.at = req[x].stamp
    <3>1. old \in Lead
      BY <1>1 DEF OfflineTypes, DataOK
    <3> QED BY <1>1, <3>1 DEF Lead
  <2>3. \E w : GoesTo(x, w) /\ w.pc = "after" /\ w.kept = req[x].kept
    BY <1>1, <2>1, GoesAfter
  <2> HIDE DEF r
  <2>4. row' \in [Ids -> Lead] /\ \A j \in Ids : row'[j] = IF j = req[x].id THEN r ELSE row[j]
    BY <1>1, <2>1, <2>2, RowPut
  <2> QED BY <1>1, <1>3, <2>1, <2>2, <2>3, <2>4
<1> QED BY <1>2, <1>3

LEMMA WriteTypes == ASSUME OfflineTypes, NEW x \in Requests, Write(x) PROVE OfflineTypes'
<1>1. RequestsOK'
  BY WriteDoes, TellType, GoesToTypes DEF OfflineTypes
<1>2. DataOK' /\ PullOK'
  <2>1. row' \in [Ids -> Lead] /\ lastRead' \in Nat /\ late' \subseteq Ids /\ blurred' \subseteq Ids
        /\ applied' \in [Mutations -> Nat]
    BY WriteDoes, CommitType, CountType DEF OfflineTypes, DataOK, versions
  <2> QED BY <2>1 DEF OfflineTypes, Write, DataOK, PullOK, client, ghosts
<1> QED BY <1>1, <1>2 DEF OfflineTypes

LEMMA RecordDoes ==
  ASSUME OfflineTypes, NEW x \in Requests, Record(x)
  PROVE  /\ req[x].pc = "record" /\ req[x].id \in Ids /\ req[x].stamp \in Nat
         /\ \E w : /\ GoesTo(x, w) /\ w.pc = "delete" /\ w.kept = req[x].kept /\ w.stamp = req[x].stamp
                   /\ w.held = req[x].held
         /\ torn' \subseteq Ids /\ torn \subseteq torn' /\ (Half => req[x].id \in torn')
         /\ unmarked' \subseteq Ids /\ unmarked \subseteq unmarked' /\ upsets' \in Nat
         /\ tombs' \subseteq Tomb /\ IsFiniteSet(tombs') /\ tombs \subseteq tombs'
         /\ req[x].id \in unmarked' \/ \E t \in tombs' : t.id = req[x].id /\ t.at = req[x].stamp
         /\ tombs' = tombs \/ \E t \in Tomb : t.id = req[x].id /\ t.at = req[x].stamp /\ tombs' = tombs \cup {t}
<1>1. req[x].pc = "record" /\ req[x] \in Request /\ ReqOK(req[x]) /\ req[x].id \in Ids /\ req[x].stamp \in Nat
  BY ReqTyped DEF Record, ReqOK, OfflineTypes, OnLead, Request
<1>2. \E w : /\ GoesTo(x, w) /\ w.pc = "delete" /\ w.kept = req[x].kept /\ w.stamp = req[x].stamp
             /\ w.held = req[x].held
  <2>1. ReqOK([req[x] EXCEPT !.pc = "delete"])
    BY <1>1 DEF ReqOK, OnLead, Request
  <2>2. "delete" \in RequestPcs /\ Goto(x, "delete") /\ UNCHANGED mut
    BY DEF Record, RequestPcs
  <2>3. \E w : /\ GoesTo(x, w) /\ w.pc = "delete" /\ w.kept = req[x].kept /\ w.stamp = req[x].stamp
               /\ w.held = req[x].held
    BY <1>1, <2>1, <2>2, GotoDoes
  <2> QED BY <2>3
<1>3. torn' \subseteq Ids /\ torn \subseteq torn' /\ (Half => req[x].id \in torn')
  BY <1>1 DEF Record, Overlap, OfflineTypes, DataOK
<1>4. tombs \subseteq Tomb /\ IsFiniteSet(tombs) /\ Cardinality(tombs) \in Nat /\ unmarked \subseteq Ids /\ upsets \in Nat
  BY FS_CardinalityType DEF OfflineTypes, DataOK
<1> DEFINE t == [id |-> req[x].id, at |-> req[x].stamp, n |-> Cardinality(tombs) + 1]
<1>5. t \in Tomb /\ t.id = req[x].id /\ t.at = req[x].stamp
  BY <1>1, <1>4 DEF Tomb
<1>6. CASE tombs' = tombs \cup {t} /\ UNCHANGED <<upsets, unmarked>>
  <2> HIDE DEF t
  <2>1. IsFiniteSet(tombs')
    BY <1>4, <1>6, FS_AddElement
  <2> QED BY <1>1, <1>2, <1>3, <1>4, <1>5, <1>6, <2>1
<1>7. CASE Upset /\ unmarked' = unmarked \cup {req[x].id} /\ UNCHANGED tombs
  BY <1>1, <1>2, <1>3, <1>4, <1>7 DEF Upset
<1> QED BY <1>6, <1>7 DEF Record

LEMMA RecordTypes == ASSUME OfflineTypes, NEW x \in Requests, Record(x) PROVE OfflineTypes'
<1>1. RequestsOK'
  BY RecordDoes, GoesToTypes DEF OfflineTypes
<1>2. DataOK' /\ PullOK'
  BY RecordDoes DEF OfflineTypes, Record, DataOK, PullOK, client, versions, effects
<1> QED BY <1>1, <1>2 DEF OfflineTypes

LEMMA DeleteDoes ==
  ASSUME OfflineTypes, NEW x \in Requests, Delete(x)
  PROVE  /\ req[x].pc = "delete" /\ req[x].id \in Ids /\ req[x].stamp \in Nat
         /\ \E w : /\ GoesTo(x, w) /\ w.pc = "after" /\ w.kept = req[x].kept
         /\ torn' \subseteq Ids /\ torn \subseteq torn' /\ (Half => req[x].id \in torn')
         /\ row' \in [Ids -> Lead]
         /\ \A j \in Ids \ {req[x].id} : row'[j] = row[j]
         /\ LET i == req[x].id
            IN  row'[i].status = "gone" /\ row'[i].ver = row[i].ver /\ row'[i].at = row[i].at
         /\ applied' \in [Mutations -> Nat] /\ applied' = IF req[x].id \in Documents THEN Count(x) ELSE applied
<1>1. req[x].pc = "delete" /\ req[x] \in Request /\ ReqOK(req[x]) /\ req[x].id \in Ids /\ req[x].stamp \in Nat
  BY ReqTyped DEF Delete, ReqOK, OfflineTypes, OnLead, Request
<1>2. \E w : GoesTo(x, w) /\ w.pc = "after" /\ w.kept = req[x].kept
  BY <1>1, GoesAfter DEF Delete
<1>3. torn' \subseteq Ids /\ torn \subseteq torn' /\ (Half => req[x].id \in torn')
  BY <1>1 DEF Delete, Overlap, OfflineTypes, DataOK
<1> DEFINE r == [row[req[x].id] EXCEPT !.status = "gone"]
<1>4. row' = [row EXCEPT ![req[x].id] = r]
  BY <1>1 DEF Delete, OfflineTypes, DataOK
<1>5. r \in Lead /\ r.status = "gone" /\ r.ver = row[req[x].id].ver /\ r.at = row[req[x].id].at
  BY <1>1 DEF OfflineTypes, DataOK, Lead
<1>6. applied' \in [Mutations -> Nat] /\ applied' = IF req[x].id \in Documents THEN Count(x) ELSE applied
  BY CountType DEF Delete, OfflineTypes, DataOK
<1> HIDE DEF r
<1>7. row' \in [Ids -> Lead] /\ \A j \in Ids : row'[j] = IF j = req[x].id THEN r ELSE row[j]
  BY <1>1, <1>4, <1>5, RowPut
<1> QED BY <1>1, <1>2, <1>3, <1>5, <1>6, <1>7

LEMMA DeleteTypes == ASSUME OfflineTypes, NEW x \in Requests, Delete(x) PROVE OfflineTypes'
<1>1. RequestsOK'
  BY DeleteDoes, GoesToTypes DEF OfflineTypes
<1>2. DataOK' /\ PullOK'
  BY DeleteDoes DEF OfflineTypes, Delete, DataOK, PullOK, client, versions
<1> QED BY <1>1, <1>2 DEF OfflineTypes

LEMMA InsertDoes ==
  ASSUME OfflineTypes, NEW x \in Requests, Insert(x)
  PROVE  /\ req[x].pc = "insert" /\ req[x].stamp \in Nat /\ applied' = Count(x)
         /\ \E w : /\ GoesTo(x, w) /\ w.pc = "after" /\ w.kept = req[x].kept
         /\ \E i \in Ids :
              /\ row[i].status = "unborn" /\ Commit(i, req[x].stamp)
              /\ row' \in [Ids -> Lead]
              /\ \A j \in Ids \ {i} : row'[j] = row[j]
              /\ row'[i].status = "live" /\ row'[i].ver = 1 /\ row'[i].at = req[x].stamp
<1>1. req[x].pc = "insert" /\ req[x] \in Request /\ ReqOK(req[x]) /\ req[x].stamp \in Nat
  BY ReqTyped DEF Insert, ReqOK, OfflineTypes, OnLead, Request
<1>2. \E w : GoesTo(x, w) /\ w.pc = "after" /\ w.kept = req[x].kept
  BY <1>1, GoesAfter DEF Insert
<1> DEFINE r == [status |-> "live", at |-> req[x].stamp, ver |-> 1]
<1>3. PICK i \in Ids : row[i].status = "unborn" /\ Commit(i, req[x].stamp) /\ row' = [row EXCEPT ![i] = r]
  BY DEF Insert
<1>4. r \in Lead /\ r.status = "live" /\ r.at = req[x].stamp /\ r.ver = 1
  BY <1>1 DEF Lead
<1> HIDE DEF r
<1>5. row' \in [Ids -> Lead] /\ \A j \in Ids : row'[j] = IF j = i THEN r ELSE row[j]
  BY <1>3, <1>4, RowPut
<1>6. \E k \in Ids :
              /\ row[k].status = "unborn" /\ Commit(k, req[x].stamp)
              /\ row' \in [Ids -> Lead]
              /\ \A j \in Ids \ {k} : row'[j] = row[j]
              /\ row'[k].status = "live" /\ row'[k].ver = 1 /\ row'[k].at = req[x].stamp
  BY <1>3, <1>4, <1>5
<1> QED BY <1>1, <1>2, <1>6 DEF Insert

LEMMA InsertTypes == ASSUME OfflineTypes, NEW x \in Requests, Insert(x) PROVE OfflineTypes'
<1>1. RequestsOK'
  BY InsertDoes, GoesToTypes DEF OfflineTypes
<1>2. DataOK' /\ PullOK'
  <2>1. row' \in [Ids -> Lead] /\ lastRead' \in Nat /\ late' \subseteq Ids /\ blurred' \subseteq Ids
        /\ applied' \in [Mutations -> Nat]
    BY InsertDoes, CommitType, CountType
  <2> QED BY <2>1 DEF OfflineTypes, Insert, DataOK, PullOK, client, ghosts
<1> QED BY <1>1, <1>2 DEF OfflineTypes

LEMMA ThrowsTypes == ASSUME OfflineTypes, NEW x \in Requests, Throws(x) PROVE OfflineTypes'
<1>1. RequestsOK'
  BY TellType DEF OfflineTypes, Throws
<1>2. DataOK' /\ PullOK'
  <2>1. unsafe' \subseteq Mutations /\ upsets' \in Nat
    BY ReqTyped DEF OfflineTypes, DataOK, Throws, Upset
  <2> QED BY <2>1 DEF OfflineTypes, Throws, DataOK, PullOK, client, versions, ghosts
<1> QED BY <1>1, <1>2 DEF OfflineTypes

(* Only a mutation's answer is kept. *)
KeptOK == \A x \in Requests : req[x].kept => req[x].m # None

LEMMA AnswerTypes == ASSUME OfflineTypes, KeptOK, NEW x \in Requests, Answer(x) PROVE OfflineTypes'
<1>1. RequestsOK'
  BY TellType DEF OfflineTypes, Answer
<1>2. DataOK' /\ PullOK'
  <2>1. storing' \subseteq Mutations
    BY ReqTyped DEF OfflineTypes, DataOK, Answer, Keeps, KeptOK
  <2> QED BY <2>1 DEF OfflineTypes, Answer, DataOK, PullOK, client, versions, ghosts, effects
<1> QED BY <1>1, <1>2 DEF OfflineTypes

LEMMA StoreTypes == ASSUME OfflineTypes, NEW m \in Mutations, Store(m) \/ StoreFails(m) PROVE OfflineTypes'
<1>1. RequestsOK'
  BY DEF OfflineTypes, RequestsOK, Store, StoreFails
<1>2. DataOK' /\ PullOK'
  BY DEF OfflineTypes, Store, StoreFails, Upset, DataOK, PullOK, client, versions, ghosts, effects
<1> QED BY <1>1, <1>2 DEF OfflineTypes

LEMMA CrashTypes == ASSUME OfflineTypes, Crash PROVE OfflineTypes'
<1>1. RequestsOK'
  <2>1. mut' \in [Mutations -> Mutation] /\ \A m \in Mutations : MutOK(mut'[m])
    <3>1. \A m \in Mutations : mut[m] \in Mutation /\ MutOK(mut[m])
      BY DEF OfflineTypes, RequestsOK
    <3>2. \A m \in Mutations : [mut[m] EXCEPT !.to = None] \in Mutation /\ MutOK([mut[m] EXCEPT !.to = None])
      BY <3>1 DEF Mutation, MutOK
    <3> QED BY <3>2 DEF Crash
  <2>2. req' \in [Requests -> Request] /\ \A x \in Requests : ReqOK(req'[x]) /\ req'[x].m = None
    BY IdleType DEF Crash
  <2> QED BY <2>1, <2>2 DEF RequestsOK
<1>2. DataOK' /\ PullOK'
  <2> DEFINE held == {req[x].m : x \in {y \in Requests : req[y].pc = "after"}} \ {None}
  <2>1. held \subseteq Mutations
    BY ReqTyped DEF OfflineTypes
  <2>2. unsafe' = unsafe \cup storing \cup held /\ upsets' \in Nat
    BY DEF Crash, Upset, OfflineTypes, DataOK
  <2> HIDE DEF held
  <2> QED BY <2>1, <2>2 DEF OfflineTypes, Crash, DataOK, PullOK, client, versions, ghosts
<1> QED BY <1>1, <1>2 DEF OfflineTypes

(***************************************************************************)
(* What the feed brings.                                                   *)
(***************************************************************************)
(* No stamp is of the future, and no position is ahead of the last reading. *)
Clock ==
  /\ lastRead <= now /\ cursor[1] <= lastRead /\ pull.next[1] <= lastRead
  /\ \A i \in Ids : row[i].at <= now
  /\ \A x \in Requests : req[x].stamp <= now

(* A page under way, once it is applied, will have skipped nothing either. *)
PageSound ==
  pull.gotRows =>
    \A i \in Documents \ late :
      ~Before(pull.next, Pos(i)) =>
        \/ \E t \in tombs : t.id = i
        \/ \E r \in pull.rows : r.id = i /\ r.ver = row[i].ver
        \/ copy[i].ver = row[i].ver /\ \A r \in pull.rows : r.id # i

(* What the answer takes away has a tombstone. *)
TakenAway == \A i \in pull.tombs : \E t \in tombs : t.id = i

(* The tombstone of a deletion under way is ahead of every position. *)
Marking(x) ==
  req[x].pc \in {"record", "delete"} =>
    /\ req[x].id \notin torn => lastRead <= req[x].stamp
    /\ req[x].pc = "delete" /\ req[x].id \notin unmarked =>
         \E t \in tombs : t.id = req[x].id /\ t.at = req[x].stamp

Untouched == Ids \ (torn \cup cut \cup unmarked)

(* What a page under way does to a lead that is gone: half read, and read. *)
GoneInPage(i) ==
  /\ pull.gotRows /\ ~pull.gotTombs => \A r \in pull.rows : r.id # i
  /\ pull.gotTombs /\ ~pull.gotRows /\ copy[i].ver > 0 => i \in pull.tombs
  /\ /\ pull.gotRows /\ pull.gotTombs /\ i \notin pull.tombs
     /\ copy[i].ver > 0 \/ \E r \in pull.rows : r.id = i
     => \E t \in tombs : t.id = i /\ pull.next[1] <= t.at

DeletionsPaged == \A i \in Untouched : row[i].status = "gone" => GoneInPage(i)

Marked == \A x \in Requests : Marking(x)

PageEmpty == ~pull.gotRows => pull.rows = {}

FeedInv ==
  /\ Clock /\ NothingSkipped /\ PageSound /\ TakenAway
  /\ Marked /\ DeletionsArrive /\ DeletionsPaged /\ PageEmpty

(***************************************************************************)
(* What becomes of the mutations.                                          *)
(***************************************************************************)
(* A version somebody saw of lead i, and what it said: the version cannot come back. *)
Seen(i, at, ver) == at <= row[i].at /\ (at = row[i].at => ver = row[i].ver)

SeenSound ==
  \A i \in Ids \ blurred :
    /\ copy[i].ver > 0 => Seen(i, copy[i].at, copy[i].ver)
    /\ \A r \in pull.rows : r.id = i => Seen(i, r.at, r.ver)
    /\ \A m \in Mutations : mut[m].id = i /\ mut[m].state # "none" => Seen(i, mut[m].expected, mut[m].base)

(* Past the check of its version. *)
Past(x) == req[x].pc \in {"write", "record", "delete"} /\ req[x].m # None

(* A request that has moved the version of its lead. *)
ClaimSound ==
  \A x \in Requests : Past(x) /\ req[x].id \notin blurred =>
    Seen(req[x].id, req[x].held, mut[req[x].m].base) /\ mut[req[x].m].expected < row[req[x].id].at

(* A mutation made against a version takes effect once. *)
OnceByVersion ==
  \A m \in Mutations : mut[m].kind # "create" /\ mut[m].state # "none" /\ mut[m].id \notin blurred =>
    /\ applied[m] > 0 => mut[m].expected < row[mut[m].id].at
    /\ applied[m] <= 1
    /\ applied[m] = 1 => \A x \in Requests : Past(x) => req[x].m # m
    /\ \A x \in Requests, y \in Requests : Past(x) /\ Past(y) /\ req[x].m = m /\ req[y].m = m => x = y

(* A mutation under the protection of its receipt takes effect once. *)
OnceByReceipt ==
  \A m \in Mutations \ unsafe :
    /\ \A x \in Requests, y \in Requests : req[x].m = m /\ req[y].m = m => x = y
    /\ \A x \in Requests : req[x].m = m =>
         /\ m \notin storing
         /\ req[x].pc # "lookup" => req[x].kept
         /\ req[x].pc \notin {"lookup", "after"} => applied[m] = 0
         /\ mut[m].state = "queued"
    /\ applied[m] > 0 => m \in receipts \cup storing \/ \E x \in Requests : req[x].m = m /\ req[x].pc = "after"
    /\ applied[m] <= 1
    /\ mut[m].state = "refused" => applied[m] = 0

(* It took effect, or there was nothing left to delete. *)
Effected(m) == applied[m] > 0 \/ (mut[m].kind = "delete" /\ row[mut[m].id].status = "gone")

AnswersSound ==
  \A m \in Mutations :
    /\ m \in receipts \cup storing \/ mut[m].state = "done" => Effected(m) /\ mut[m].state # "none"
    /\ \A x \in Requests : req[x].m = m /\ req[x].pc = "after" => Effected(m)
    /\ mut[m].state = "none" => applied[m] = 0

VersionInv == SeenSound /\ ClaimSound /\ OnceByVersion
ReceiptInv == OnceByReceipt /\ AnswersSound

(* The steps, as the feed sees them. *)
RequestsFresh ==
  \A x \in Requests :
    \/ req'[x] = req[x]
    \/ /\ req'[x].stamp <= now
       /\ req'[x].pc \in {"record", "delete"} => req'[x].pc = "record" /\ req'[x].stamp = now

Written(x, i) ==
  /\ Commit(i, req[x].stamp) /\ row[i].status # "gone"
  /\ row' \in [Ids -> Lead] /\ \A j \in Ids \ {i} : row'[j] = row[j]
  /\ row'[i].at = req[x].stamp /\ row'[i].status # "gone"
  /\ UNCHANGED <<now, tombs, client, ghosts>>

OnlyTime == now <= now' /\ now' \in Nat /\ UNCHANGED <<row, tombs, client, versions, ghosts>>

LEMMA FreshTell ==
  ASSUME OfflineTypes, Clock, NEW x \in Requests, NEW state, Tell(x, state) PROVE RequestsFresh
<1>1. req' = [req EXCEPT ![x] = Idle] /\ req \in [Requests -> Request] /\ now \in Nat
  BY DEF OfflineTypes, RequestsOK, DataOK, Tell
<1>2. Idle.stamp = 0 /\ Idle.pc = "idle"
  BY DEF Idle
<1> QED BY <1>1, <1>2 DEF RequestsFresh

LEMMA FreshGoes ==
  ASSUME OfflineTypes, Clock, NEW x \in Requests, NEW w, GoesTo(x, w),
         w.pc \in {"record", "delete"} => w.pc = "record" /\ w.stamp = now
  PROVE  RequestsFresh
BY DEF OfflineTypes, RequestsOK, DataOK, Clock, GoesTo, RequestsFresh

LEMMA FreshSame ==
  ASSUME UNCHANGED req PROVE RequestsFresh
BY DEF RequestsFresh

LEMMA RequestSteps ==
  ASSUME OfflineTypes, Clock, NEW x \in Requests, RequestStep(x)
  PROVE  \/ Delete(x) \/ Record(x)
         \/ (\E i \in Ids : Written(x, i)) /\ RequestsFresh
         \/ OnlyTime /\ RequestsFresh
<1>0. now \in Nat /\ req \in [Requests -> Request]
  BY DEF OfflineTypes, DataOK, RequestsOK
<1>1. ASSUME NEW kind \in Kinds, NEW i \in Ids \cup {None}, Online(x, kind, i) PROVE OnlyTime /\ RequestsFresh
  <2>1. OnlyTime
    BY <1>0, <1>1 DEF Online, OnlyTime
  <2>2. PICK w \in Request :
           /\ req' = [req EXCEPT ![x] = w] /\ w.stamp = now /\ w.pc \in {"insert", "write", "record"}
    BY <1>1, OnlineDoes
  <2>3. RequestsFresh
    BY <1>0, <2>2 DEF RequestsFresh
  <2> QED BY <2>1, <2>3
<1>2. ASSUME Lookup(x) PROVE OnlyTime /\ RequestsFresh
  <2>1. OnlyTime
    BY <1>0, <1>2 DEF Lookup, OnlyTime
  <2>2. CASE Tell(x, "done")
    BY <2>1, <2>2, FreshTell
  <2>3. CASE \E w : GoesTo(x, w) /\ w.pc = Handler(req[x].kind)
    BY <2>1, <2>3, FreshGoes DEF Handler
  <2> QED BY <1>2, <2>2, <2>3, LookupDoes
<1>3. ASSUME LookupFails(x) PROVE OnlyTime /\ RequestsFresh
  <2>1. OnlyTime
    BY <1>0, <1>3 DEF LookupFails, OnlyTime
  <2>2. \E w : GoesTo(x, w) /\ w.pc = Handler(req[x].kind)
    BY <1>3, LookupFailsDoes
  <2> QED BY <2>1, <2>2, FreshGoes DEF Handler
<1>4. ASSUME Load(x) PROVE OnlyTime /\ RequestsFresh
  <2>1. OnlyTime
    BY <1>0, <1>4 DEF Load, OnlyTime
  <2>2. CASE Tell(x, "refused")
    BY <2>1, <2>2, FreshTell
  <2>3. CASE \E w : GoesTo(x, w) /\ w.pc = "claim"
    BY <2>1, <2>3, FreshGoes
  <2> QED BY <1>4, <2>2, <2>3, LoadDoes
<1>5. ASSUME Claim(x) PROVE (OnlyTime /\ RequestsFresh) \/ ((\E i \in Ids : Written(x, i)) /\ RequestsFresh)
  <2>1. CASE Tell(x, "refused") /\ UNCHANGED <<row, versions>>
    <3>1. OnlyTime
      BY <1>0, <1>5, <2>1 DEF Claim, OnlyTime
    <3> QED BY <2>1, <3>1, FreshTell
  <2>2. CASE ~(Tell(x, "refused") /\ UNCHANGED <<row, versions>>)
    <3>1. PICK w : GoesTo(x, w) /\ w.pc = Work(req[x].kind) /\ w.stamp = now
      BY <1>5, <2>2, ClaimDoes
    <3>2. RequestsFresh
      BY <3>1, FreshGoes DEF Work
    <3>3. req[x].id \in Ids /\ Matches(x) /\ Commit(req[x].id, req[x].stamp) /\ row' \in [Ids -> Lead]
          /\ (\A j \in Ids \ {req[x].id} : row'[j] = row[j])
          /\ row'[req[x].id].status = row[req[x].id].status /\ row'[req[x].id].at = req[x].stamp
      BY <1>5, <2>2, ClaimDoes
    <3>4. UNCHANGED <<now, tombs, client, ghosts>>
      BY <1>5 DEF Claim
    <3>5. Written(x, req[x].id)
      BY <3>3, <3>4 DEF Written, Matches
    <3> QED BY <3>2, <3>3, <3>5
  <2> QED BY <2>1, <2>2
<1>6. ASSUME Write(x) PROVE (OnlyTime /\ RequestsFresh) \/ ((\E i \in Ids : Written(x, i)) /\ RequestsFresh)
  <2>1. CASE Tell(x, "queued") /\ UNCHANGED <<row, versions>>
    <3>1. OnlyTime
      BY <1>0, <1>6, <2>1 DEF Write, OnlyTime
    <3> QED BY <2>1, <3>1, FreshTell
  <2>2. CASE ~(Tell(x, "queued") /\ UNCHANGED <<row, versions>>)
    <3>1. PICK w : GoesTo(x, w) /\ w.pc = "after"
      BY <1>6, <2>2, WriteDoes
    <3>2. RequestsFresh
      BY <3>1, FreshGoes
    <3>3. req[x].id \in Ids /\ Finds(x) /\ Commit(req[x].id, req[x].stamp) /\ row' \in [Ids -> Lead]
          /\ (\A j \in Ids \ {req[x].id} : row'[j] = row[j])
          /\ row'[req[x].id].status \in {row[req[x].id].status, "soft"} /\ row'[req[x].id].at = req[x].stamp
      BY <1>6, <2>2, WriteDoes
    <3>4. UNCHANGED <<now, tombs, client, ghosts>>
      BY <1>6 DEF Write
    <3>5. Written(x, req[x].id)
      BY <3>3, <3>4 DEF Written, Finds
    <3> QED BY <3>2, <3>3, <3>5
  <2> QED BY <2>1, <2>2
<1>7. ASSUME Insert(x) PROVE (\E i \in Ids : Written(x, i)) /\ RequestsFresh
  <2>1. PICK w : GoesTo(x, w) /\ w.pc = "after"
    BY <1>7, InsertDoes
  <2>2. RequestsFresh
    BY <2>1, FreshGoes
  <2>3. PICK i \in Ids :
          /\ row[i].status = "unborn" /\ Commit(i, req[x].stamp)
          /\ row' \in [Ids -> Lead]
          /\ \A j \in Ids \ {i} : row'[j] = row[j]
          /\ row'[i].status = "live" /\ row'[i].ver = 1 /\ row'[i].at = req[x].stamp
    BY <1>7, InsertDoes
  <2>4. UNCHANGED <<now, tombs, client, ghosts>>
    BY <1>7 DEF Insert
  <2>5. Written(x, i)
    BY <2>3, <2>4 DEF Written
  <2> QED BY <2>2, <2>5
<1>8. ASSUME Throws(x) PROVE OnlyTime /\ RequestsFresh
  BY <1>0, <1>8, FreshTell DEF Throws, OnlyTime
<1>9. ASSUME Answer(x) PROVE OnlyTime /\ RequestsFresh
  BY <1>0, <1>9, FreshTell DEF Answer, OnlyTime
<1> QED BY <1>1, <1>2, <1>3, <1>4, <1>5, <1>6, <1>7, <1>8, <1>9 DEF RequestStep

LEMMA FeedSteps ==
  ASSUME OfflineTypes, Clock, Next
  PROVE  \/ FeedStep \/ \E x \in Requests : Delete(x) \/ Record(x)
         \/ (\E x \in Requests, i \in Ids : Written(x, i)) /\ RequestsFresh
         \/ OnlyTime /\ RequestsFresh
<1>0. now \in Nat /\ req \in [Requests -> Request]
  BY DEF OfflineTypes, DataOK, RequestsOK
<1>1. ASSUME Tick PROVE OnlyTime /\ RequestsFresh
  BY <1>0, <1>1, FreshSame DEF Tick, OnlyTime
<1>2. ASSUME ClientStep PROVE OnlyTime /\ RequestsFresh
  <2>1. ASSUME NEW m \in Mutations, Queue(m) \/ GiveUp(m) PROVE OnlyTime /\ RequestsFresh
    BY <1>0, <2>1, FreshSame DEF Queue, GiveUp, OnlyTime
  <2>2. ASSUME NEW m \in Mutations, NEW x \in Requests, Send(x, m) PROVE OnlyTime /\ RequestsFresh
    <3>1. OnlyTime
      BY <1>0, <2>2 DEF Send, OnlyTime
    <3>2. RequestsFresh
      <4>1. \A y \in Requests : y # x => req'[y] = req[y]
        BY <1>0, <2>2 DEF Send
      <4>2. req'[x].stamp = 0 /\ req'[x].pc = "lookup"
        BY <1>0, <2>2 DEF Send, Idle
      <4> QED BY <1>0, <4>1, <4>2 DEF RequestsFresh
    <3> QED BY <3>1, <3>2
  <2> QED BY <1>2, <2>1, <2>2 DEF ClientStep
<1>3. ASSUME ReceiptStep PROVE OnlyTime /\ RequestsFresh
  BY <1>0, <1>3, FreshSame DEF ReceiptStep, Store, StoreFails, OnlyTime
<1>4. ASSUME Crash PROVE OnlyTime /\ RequestsFresh
  <2>1. OnlyTime
    BY <1>0, <1>4 DEF Crash, OnlyTime
  <2>2. \A y \in Requests : req'[y].stamp = 0 /\ req'[y].pc = "idle"
    BY <1>4 DEF Crash, Idle
  <2> QED BY <1>0, <2>1, <2>2 DEF RequestsFresh
<1> QED BY <1>1, <1>2, <1>3, <1>4, RequestSteps DEF Next

(* What each of the steps means for what the feed is about. *)
LEMMA ClockStep ==
  ASSUME OfflineTypes, OfflineTypes', FeedInv, Next PROVE Clock'
<1>0. Clock /\ now \in Nat /\ lastRead \in Nat /\ req \in [Requests -> Request] /\ DataOK /\ cursor \in Nat \X Nat
  BY DEF FeedInv, OfflineTypes, DataOK, RequestsOK
<1>1. CASE ReadRows
  <2>1. pull'.next[1] <= now
    <3>1. CASE pull'.next = cursor
      BY <1>0, <3>1 DEF Clock
    <3>2. CASE \E last \in Page(cursor) : pull'.next = Pos(last)
      <4>1. PICK last \in Ids : pull'.next = Pos(last)
        BY <3>2, AfterFinite
      <4> QED BY <1>0, <4>1, PosTyped DEF Clock
    <3>3. pull'.next = cursor \/ \E last \in Page(cursor) : pull'.next = Pos(last)
      BY <1>1, ReadRowsDoes
    <3> QED BY <3>1, <3>2, <3>3
  <2>2. lastRead' = now /\ UNCHANGED <<now, row, req, cursor>>
    BY <1>1 DEF ReadRows
  <2>3. cursor[1] \in Nat /\ cursor[1] <= now
    BY <1>0 DEF Clock
  <2> QED BY <1>0, <2>1, <2>2, <2>3 DEF Clock
<1>2. CASE ReadTombs
  BY <1>0, <1>2, ReadTombsDoes DEF ReadTombs, Clock, versions
<1>3. CASE Apply
  BY <1>0, <1>3 DEF Apply, Clock, versions, NoPull
<1>4. CASE PullLost
  BY <1>0, <1>4 DEF PullLost, Clock, versions, NoPull
<1>5. ASSUME NEW x \in Requests, Delete(x) PROVE Clock'
  <2>1. PICK w : GoesTo(x, w)
    BY <1>5, DeleteDoes
  <2>2. \A y \in Requests : req'[y].stamp <= now
    BY <1>0, <2>1 DEF GoesTo, Clock
  <2>3. \A i \in Ids : row'[i].at = row[i].at
    BY <1>5, DeleteDoes
  <2> QED BY <1>0, <1>5, <2>2, <2>3 DEF Delete, Clock, client, versions
<1>6. ASSUME NEW x \in Requests, Record(x) PROVE Clock'
  <2>1. PICK w : GoesTo(x, w)
    BY <1>6, RecordDoes
  <2>2. \A y \in Requests : req'[y].stamp <= now
    BY <1>0, <2>1 DEF GoesTo, Clock
  <2> QED BY <1>0, <1>6, <2>2 DEF Record, Clock, client, versions
<1>7. ASSUME NEW x \in Requests, NEW i \in Ids, Written(x, i), RequestsFresh PROVE Clock'
  <2>1. \A y \in Requests : req'[y].stamp <= now
    BY <1>0, <1>7 DEF RequestsFresh, Clock
  <2>2. \A j \in Ids : row'[j].at <= now
    BY <1>0, <1>7 DEF Written, Clock
  <2> QED BY <1>0, <1>7, <2>1, <2>2 DEF Written, Commit, Clock, client
<1>8. CASE OnlyTime /\ RequestsFresh
  <2>1. \A y \in Requests : req'[y].stamp <= now /\ req'[y].stamp \in Nat
    BY <1>0, <1>8 DEF RequestsFresh, Clock, OfflineTypes, RequestsOK, Request
  <2>2. \A i \in Ids : row[i].at <= now /\ row[i].at \in Nat
    BY <1>0 DEF Clock, DataOK, Lead
  <2> QED BY <1>0, <1>8, <2>1, <2>2 DEF OnlyTime, Clock, client, versions
<1> QED BY <1>0, <1>1, <1>2, <1>3, <1>4, <1>5, <1>6, <1>7, <1>8, FeedSteps DEF FeedStep

(* A lead written is ahead of every position, or late. *)
LEMMA WrittenAhead ==
  ASSUME OfflineTypes, OfflineTypes', Clock, NEW x \in Requests, NEW i \in Ids, Written(x, i),
         NEW p \in Nat \X Nat, p[1] <= lastRead
  PROVE  /\ \A j \in Documents' \ late' : ~Before(p, Pos(j)') => j # i
         /\ \A j \in Ids : j # i => Pos(j)' = Pos(j) /\ row'[j] = row[j] /\ (j \in Documents' <=> j \in Documents)
         /\ \A j \in Ids : j # i /\ j \notin late' => j \notin late
<1>1. i \notin late' => lastRead < req[x].stamp
  <2>1. req[x].stamp \in Nat /\ lastRead \in Nat
    BY DEF OfflineTypes, RequestsOK, Request, DataOK
  <2> QED BY <2>1 DEF Written, Commit
<1>2. Pos(i)'[1] = req[x].stamp /\ req[x].stamp \in Nat /\ lastRead \in Nat
  BY DEF Written, Pos, OfflineTypes, RequestsOK, Request, DataOK
<1>3. i \notin late' => Before(p, Pos(i)')
  BY <1>1, <1>2 DEF Before
<1> QED BY <1>3 DEF Written, Commit, Pos, Documents

LEMMA SkipStep ==
  ASSUME OfflineTypes, OfflineTypes', FeedInv, Next PROVE NothingSkipped'
<1>0. Clock /\ NothingSkipped /\ PageSound /\ TakenAway /\ cursor \in Nat \X Nat /\ DataOK
  BY DEF FeedInv, OfflineTypes, DataOK
<1>1. CASE ReadRows \/ ReadTombs \/ PullLost
  BY <1>0, <1>1 DEF ReadRows, ReadTombs, PullLost, NothingSkipped, Documents, Pos, versions
<1>2. CASE Apply
  <2> SUFFICES ASSUME NEW i \in Documents \ late, ~Before(pull.next, Pos(i)), ~\E t \in tombs : t.id = i
               PROVE  copy'[i].ver = row[i].ver
    BY <1>0, <1>2 DEF NothingSkipped, Apply, Documents, Pos, versions
  <2>1. i \in Ids /\ pull.gotRows /\ i \notin pull.tombs
    BY <1>0, <1>2 DEF Documents, Apply, TakenAway
  <2>2. CASE \E r \in pull.rows : r.id = i /\ r.ver = row[i].ver
    <3>1. PICK r \in pull.rows : r.id = i /\ r.ver = row[i].ver
      BY <2>2
    <3>2. copy'[r.id] = [at |-> r.at, ver |-> r.ver]
      BY <1>2, <2>1, <3>1, ApplyDoes
    <3> QED BY <3>1, <3>2
  <2>3. CASE copy[i].ver = row[i].ver /\ \A r \in pull.rows : r.id # i
    BY <1>2, <2>1, <2>3, ApplyDoes
  <2> QED BY <1>0, <2>1, <2>2, <2>3 DEF PageSound
<1>5. ASSUME NEW x \in Requests, Delete(x) PROVE NothingSkipped'
  <2>1. \A i \in Documents' : i \in Documents /\ Pos(i)' = Pos(i) /\ row'[i].ver = row[i].ver
    BY <1>5, DeleteDoes DEF Documents, Pos
  <2> QED BY <1>0, <1>5, <2>1 DEF Delete, NothingSkipped, client, versions
<1>6. ASSUME NEW x \in Requests, Record(x) PROVE NothingSkipped'
  <2>1. tombs \subseteq tombs' /\ UNCHANGED <<row, client, versions>>
    BY <1>6, RecordDoes DEF Record
  <2> QED BY <1>0, <2>1 DEF NothingSkipped, Documents, Pos, client, versions
<1>7. ASSUME NEW x \in Requests, NEW i \in Ids, Written(x, i) PROVE NothingSkipped'
  <2> SUFFICES ASSUME NEW j \in Documents' \ late', ~Before(cursor, Pos(j)')
               PROVE  copy[j].ver = row'[j].ver \/ \E t \in tombs : t.id = j
    BY <1>7 DEF NothingSkipped, Written, client
  <2>1. j \in Ids
    BY DEF Documents
  <2>2. cursor[1] <= lastRead
    BY <1>0 DEF Clock
  <2>3. j # i /\ Pos(j)' = Pos(j) /\ row'[j] = row[j] /\ j \in Documents /\ j \notin late
    BY <1>0, <1>7, <2>1, <2>2, WrittenAhead
  <2> QED BY <1>0, <2>3 DEF NothingSkipped
<1>8. CASE OnlyTime
  BY <1>0, <1>8 DEF OnlyTime, NothingSkipped, Documents, Pos, client, versions
<1> QED BY <1>0, <1>1, <1>2, <1>5, <1>6, <1>7, <1>8, FeedSteps DEF FeedStep

LEMMA PageStep ==
  ASSUME OfflineTypes, OfflineTypes', FeedInv, Next PROVE PageSound'
<1>0. Clock /\ NothingSkipped /\ PageSound /\ TakenAway /\ cursor \in Nat \X Nat /\ DataOK /\ pull \in Pull
  BY DEF FeedInv, OfflineTypes, DataOK, PullOK
<1>1. CASE ReadRows
  <2>1. UNCHANGED <<row, late, tombs, copy>>
    BY <1>1 DEF ReadRows
  <2> SUFFICES ASSUME NEW i \in Documents \ late, ~Before(pull'.next, Pos(i)), ~\E t \in tombs : t.id = i
               PROVE  \/ \E r \in pull'.rows : r.id = i /\ r.ver = row[i].ver
                      \/ copy[i].ver = row[i].ver /\ \A r \in pull'.rows : r.id # i
    BY <2>1 DEF PageSound, Documents, Pos
  <2>2. pull'.rows = {EntryOf(j) : j \in Page(cursor)}
    BY <1>1, ReadRowsDoes
  <2>3. CASE i \in After(cursor)
    <3>1. i \in Page(cursor)
      BY <1>1, <2>3, ReadRowsDoes
    <3>2. EntryOf(i) \in pull'.rows /\ EntryOf(i).id = i /\ EntryOf(i).ver = row[i].ver
      BY <2>2, <3>1 DEF EntryOf
    <3> QED BY <3>2
  <2>4. CASE i \notin After(cursor)
    <3>1. ~Before(cursor, Pos(i)) /\ i \notin Page(cursor)
      BY <2>4, AfterFinite DEF After
    <3>2. copy[i].ver = row[i].ver
      BY <1>0, <3>1 DEF NothingSkipped
    <3> QED BY <2>2, <3>1, <3>2 DEF EntryOf
  <2> QED BY <2>3, <2>4
<1>2. CASE ReadTombs
  BY <1>0, <1>2, ReadTombsDoes DEF ReadTombs, PageSound, Documents, Pos, versions
<1>3. CASE Apply \/ PullLost
  BY <1>3 DEF Apply, PullLost, PageSound, NoPull
<1>5. ASSUME NEW x \in Requests, Delete(x) PROVE PageSound'
  <2>1. \A i \in Documents' : i \in Documents /\ Pos(i)' = Pos(i) /\ row'[i].ver = row[i].ver
    BY <1>5, DeleteDoes DEF Documents, Pos
  <2> QED BY <1>0, <1>5, <2>1 DEF Delete, PageSound, client, versions
<1>6. ASSUME NEW x \in Requests, Record(x) PROVE PageSound'
  <2>1. tombs \subseteq tombs' /\ UNCHANGED <<row, client, versions>>
    BY <1>6, RecordDoes DEF Record
  <2> QED BY <1>0, <2>1 DEF PageSound, Documents, Pos, client, versions
<1>7. ASSUME NEW x \in Requests, NEW i \in Ids, Written(x, i) PROVE PageSound'
  <2> SUFFICES ASSUME pull.gotRows, NEW j \in Documents' \ late', ~Before(pull.next, Pos(j)')
               PROVE  \/ \E t \in tombs : t.id = j
                      \/ \E r \in pull.rows : r.id = j /\ r.ver = row'[j].ver
                      \/ copy[j].ver = row'[j].ver /\ \A r \in pull.rows : r.id # j
    BY <1>7 DEF PageSound, Written, client
  <2>1. j \in Ids
    BY DEF Documents
  <2>2. pull.next[1] <= lastRead /\ pull.next \in Nat \X Nat
    BY <1>0 DEF Clock, Pull
  <2>3. j # i /\ Pos(j)' = Pos(j) /\ row'[j] = row[j] /\ j \in Documents /\ j \notin late
    BY <1>0, <1>7, <2>1, <2>2, WrittenAhead
  <2> QED BY <1>0, <2>3 DEF PageSound
<1>8. CASE OnlyTime
  BY <1>0, <1>8 DEF OnlyTime, PageSound, Documents, Pos, client, versions
<1> QED BY <1>0, <1>1, <1>2, <1>3, <1>5, <1>6, <1>7, <1>8, FeedSteps DEF FeedStep

LEMMA TakenStep ==
  ASSUME OfflineTypes, OfflineTypes', FeedInv, Next PROVE TakenAway' /\ PageEmpty'
<1>0. Clock /\ TakenAway /\ PageEmpty
  BY DEF FeedInv
<1>1. CASE ReadRows
  BY <1>0, <1>1, ReadRowsDoes DEF ReadRows, TakenAway, PageEmpty
<1>2. CASE ReadTombs
  BY <1>0, <1>2, ReadTombsDoes DEF ReadTombs, TakenAway, PageEmpty
<1>3. CASE Apply \/ PullLost
  BY <1>3 DEF Apply, PullLost, TakenAway, PageEmpty, NoPull
<1>5. ASSUME NEW x \in Requests, Delete(x) PROVE TakenAway' /\ PageEmpty'
  BY <1>0, <1>5 DEF Delete, TakenAway, PageEmpty, client
<1>6. ASSUME NEW x \in Requests, Record(x) PROVE TakenAway' /\ PageEmpty'
  <2>1. tombs \subseteq tombs' /\ UNCHANGED client
    BY <1>6, RecordDoes DEF Record
  <2> QED BY <1>0, <2>1 DEF TakenAway, PageEmpty, client
<1>7. ASSUME NEW x \in Requests, NEW i \in Ids, Written(x, i) PROVE TakenAway' /\ PageEmpty'
  BY <1>0, <1>7 DEF Written, TakenAway, PageEmpty, client
<1>8. CASE OnlyTime
  BY <1>0, <1>8 DEF OnlyTime, TakenAway, PageEmpty, client
<1> QED BY <1>0, <1>1, <1>2, <1>3, <1>5, <1>6, <1>7, <1>8, FeedSteps DEF FeedStep

LEMMA MarkedStep ==
  ASSUME OfflineTypes, OfflineTypes', FeedInv, Next PROVE Marked'
<1>0. /\ Clock /\ Marked /\ now \in Nat /\ lastRead \in Nat /\ req \in [Requests -> Request]
      /\ torn \subseteq Ids /\ unmarked \subseteq Ids
  BY DEF FeedInv, OfflineTypes, DataOK, RequestsOK
<1>1. CASE ReadRows
  <2>1. \A y \in Requests : req[y].pc \in {"record", "delete"} => req[y].id \in torn'
    BY <1>1 DEF ReadRows
  <2>2. UNCHANGED <<req, tombs, unmarked>>
    BY <1>1 DEF ReadRows
  <2> QED BY <1>0, <2>1, <2>2 DEF Marked, Marking
<1>2. CASE ReadTombs \/ Apply \/ PullLost
  <2>1. torn \subseteq torn' /\ UNCHANGED <<req, tombs, unmarked, lastRead>>
    BY <1>2 DEF ReadTombs, Apply, PullLost, ghosts, versions
  <2> QED BY <1>0, <2>1 DEF Marked, Marking
<1>5. ASSUME NEW x \in Requests, Delete(x) PROVE Marked'
  <2>1. PICK w : GoesTo(x, w) /\ w.pc = "after"
    BY <1>5, DeleteDoes
  <2>2. torn \subseteq torn' /\ UNCHANGED <<tombs, unmarked, lastRead>>
    BY <1>5, DeleteDoes DEF Delete, versions
  <2>3. \A y \in Requests : req'[y] = IF y = x THEN w ELSE req[y]
    BY <1>0, <2>1 DEF GoesTo
  <2> QED BY <1>0, <2>1, <2>2, <2>3 DEF Marked, Marking
<1>6. ASSUME NEW x \in Requests, Record(x) PROVE Marked'
  <2>1. PICK w : GoesTo(x, w) /\ w.pc = "delete" /\ w.stamp = req[x].stamp
    BY <1>6, RecordDoes
  <2>2. torn \subseteq torn' /\ unmarked \subseteq unmarked' /\ tombs \subseteq tombs' /\ UNCHANGED lastRead
        /\ req[x].pc = "record"
        /\ (req[x].id \in unmarked' \/ \E t \in tombs' : t.id = req[x].id /\ t.at = req[x].stamp)
    BY <1>6, RecordDoes DEF Record, versions
  <2>3. \A y \in Requests : req'[y] = IF y = x THEN w ELSE req[y]
    BY <1>0, <2>1 DEF GoesTo
  <2>4. w.id = req[x].id
    BY <2>1 DEF GoesTo
  <2>5. ASSUME NEW y \in Requests, y # x PROVE Marking(y)'
    <3>1. req'[y] = req[y] /\ Marking(y)
      BY <1>0, <2>3, <2>5 DEF Marked
    <3> QED BY <2>2, <3>1 DEF Marking
  <2>6. Marking(x) /\ req'[x] = w
    BY <1>0, <2>3 DEF Marked
  <2>7. Marking(x)'
    BY <2>1, <2>2, <2>4, <2>6 DEF Marking
  <2> QED BY <2>5, <2>7 DEF Marked
<1>7. CASE ((\E x \in Requests, i \in Ids : Written(x, i)) \/ OnlyTime) /\ RequestsFresh
  <2>1. UNCHANGED <<tombs, torn, unmarked, lastRead>>
    BY <1>7 DEF Written, OnlyTime, Commit, ghosts, versions
  <2> SUFFICES ASSUME NEW y \in Requests PROVE Marking(y)'
    BY DEF Marked
  <2>2. CASE req'[y] = req[y]
    BY <1>0, <2>1, <2>2 DEF Marked, Marking
  <2>3. CASE req'[y].pc \in {"record", "delete"} => req'[y].pc = "record" /\ req'[y].stamp = now
    BY <1>0, <2>1, <2>3 DEF Marking, Clock
  <2> QED BY <1>7, <2>2, <2>3 DEF RequestsFresh
<1> QED BY <1>0, <1>1, <1>2, <1>5, <1>6, <1>7, FeedSteps DEF FeedStep

(* The two facts about a lead that is gone. *)
GoneOK(i) ==
  /\ copy[i].ver > 0 => \E t \in tombs : t.id = i /\ cursor[1] <= t.at
  /\ GoneInPage(i)

LEMMA GoneWhole ==
  (DeletionsArrive /\ DeletionsPaged) <=> \A i \in Untouched : row[i].status = "gone" => GoneOK(i)
BY DEF DeletionsArrive, DeletionsPaged, Untouched, GoneOK

LEMMA GoneStep ==
  ASSUME OfflineTypes, OfflineTypes', FeedInv, Next PROVE DeletionsArrive' /\ DeletionsPaged'
<1>0. /\ Clock /\ Marked /\ TakenAway /\ PageEmpty /\ DataOK /\ pull \in Pull
      /\ \A i \in Untouched : row[i].status = "gone" => GoneOK(i)
  BY GoneWhole DEF FeedInv, OfflineTypes, PullOK
<1> SUFFICES ASSUME NEW i \in Untouched', row'[i].status = "gone" PROVE GoneOK(i)'
  <2>1. (\A i \in Untouched' : row'[i].status = "gone" => GoneOK(i)') => (DeletionsArrive /\ DeletionsPaged)'
    BY DEF DeletionsArrive, DeletionsPaged, Untouched, GoneOK, GoneInPage
  <2> QED BY <2>1
<1>01. i \in Ids /\ i \notin torn' /\ i \notin cut' /\ i \notin unmarked'
  BY DEF Untouched
<1>1. CASE ReadRows
  <2>1. UNCHANGED <<row, tombs, copy, cursor, cut, unmarked>> /\ torn \subseteq torn' /\ ~pull.gotRows
    BY <1>1 DEF ReadRows
  <2>2. GoneOK(i)
    BY <1>0, <1>01, <2>1 DEF Untouched
  <2>3. i \notin Page(cursor)
    BY <2>1, AfterFinite DEF After, Documents
  <2>4. pull'.gotRows /\ pull'.gotTombs = pull.gotTombs /\ pull'.tombs = pull.tombs
        /\ pull'.rows = {EntryOf(j) : j \in Page(cursor)}
    BY <1>1, ReadRowsDoes
  <2>5. \A r \in pull'.rows : r.id # i
    BY <2>3, <2>4 DEF EntryOf
  <2>6. pull'.gotTombs /\ copy[i].ver > 0 => i \in pull'.tombs
    BY <2>1, <2>2, <2>4 DEF GoneOK, GoneInPage
  <2>7. GoneInPage(i)'
    BY <2>1, <2>4, <2>5, <2>6 DEF GoneInPage
  <2> QED BY <2>1, <2>2, <2>7 DEF GoneOK
<1>2. CASE ReadTombs
  <2>1. UNCHANGED <<row, tombs, copy, cursor, unmarked>> /\ torn \subseteq torn' /\ ~pull.gotTombs
    BY <1>2 DEF ReadTombs
  <2>2. /\ pull'.gotTombs /\ pull'.gotRows = pull.gotRows /\ pull'.rows = pull.rows
        /\ \A t \in Due : t.id \in pull'.tombs \cup cut'
        /\ cut \subseteq cut'
    BY <1>2, ReadTombsDoes
  <2>3. GoneOK(i)
    BY <1>0, <1>01, <2>1, <2>2 DEF Untouched
  <2>4. copy[i].ver > 0 => i \in pull'.tombs
    BY <1>01, <2>2, <2>3 DEF GoneOK, Due
  <2>5. pull.gotRows => \A r \in pull.rows : r.id # i
    BY <2>1, <2>3 DEF GoneOK, GoneInPage
  <2>6. GoneInPage(i)'
    BY <2>1, <2>2, <2>4, <2>5 DEF GoneInPage
  <2> QED BY <2>1, <2>3, <2>6 DEF GoneOK
<1>3. CASE Apply
  <2>1. UNCHANGED <<row, tombs, torn, cut, unmarked>> /\ pull.gotRows /\ pull.gotTombs /\ cursor' = pull.next
        /\ pull' = NoPull
    BY <1>3 DEF Apply, ghosts
  <2>2. GoneInPage(i)
    BY <1>0, <1>01, <2>1 DEF Untouched, GoneOK
  <2>3. copy'[i].ver > 0 => i \notin pull.tombs /\ (copy[i].ver > 0 \/ \E r \in pull.rows : r.id = i)
    <3>1. i \in pull.tombs => copy'[i] = NoCopy
      BY <1>01, <1>3, ApplyDoes
    <3>2. i \notin pull.tombs /\ (\A r \in pull.rows : r.id # i) => copy'[i] = copy[i]
      BY <1>01, <1>3, ApplyDoes
    <3> QED BY <3>1, <3>2 DEF NoCopy
  <2>4. copy'[i].ver > 0 => \E t \in tombs : t.id = i /\ cursor'[1] <= t.at
    BY <2>1, <2>2, <2>3 DEF GoneInPage
  <2> QED BY <2>1, <2>4 DEF GoneOK, GoneInPage, NoPull
<1>4. CASE PullLost
  <2>1. UNCHANGED <<row, tombs, torn, cut, unmarked, copy, cursor>> /\ pull' = NoPull
    BY <1>4 DEF PullLost, ghosts
  <2>2. GoneOK(i)
    BY <1>0, <1>01, <2>1 DEF Untouched
  <2> QED BY <2>1, <2>2 DEF GoneOK, GoneInPage, NoPull
<1>5. ASSUME NEW x \in Requests, Delete(x) PROVE GoneOK(i)'
  <2>1. UNCHANGED <<tombs, copy, cursor, pull, cut, unmarked>> /\ torn \subseteq torn' /\ (Half => req[x].id \in torn')
        /\ req[x].pc = "delete"
        /\ (\A j \in Ids \ {req[x].id} : row'[j] = row[j])
    BY <1>5, DeleteDoes DEF Delete, client
  <2>2. CASE i # req[x].id
    <3>1. GoneOK(i)
      BY <1>0, <1>01, <2>1, <2>2 DEF Untouched
    <3> QED BY <2>1, <3>1 DEF GoneOK, GoneInPage
  <2>3. CASE i = req[x].id
    <3>1. ~Half
      BY <1>01, <2>1, <2>3
    <3>2. PICK t \in tombs : t.id = i /\ t.at = req[x].stamp
      BY <1>0, <1>01, <2>1, <2>3 DEF Marked, Marking
    <3>3. lastRead <= t.at
      BY <1>0, <1>01, <2>1, <2>3, <3>2 DEF Marked, Marking
    <3>4. cursor[1] <= t.at /\ pull.next[1] <= t.at
      <4>1. lastRead \in Nat /\ cursor[1] \in Nat /\ pull.next[1] \in Nat /\ t.at \in Nat
        BY <1>0 DEF DataOK, Pull, Tomb
      <4> QED BY <1>0, <3>3, <4>1 DEF Clock
    <3> QED BY <2>1, <3>1, <3>2, <3>4 DEF GoneOK, GoneInPage, Half
  <2> QED BY <2>2, <2>3
<1>6. ASSUME NEW x \in Requests, Record(x) PROVE GoneOK(i)'
  <2>1. tombs \subseteq tombs' /\ torn \subseteq torn' /\ unmarked \subseteq unmarked'
        /\ UNCHANGED <<row, copy, cursor, pull, cut>>
    BY <1>6, RecordDoes DEF Record, client
  <2>2. GoneOK(i)
    BY <1>0, <1>01, <2>1 DEF Untouched
  <2> QED BY <2>1, <2>2 DEF GoneOK, GoneInPage
<1>7. ASSUME NEW x \in Requests, NEW k \in Ids, Written(x, k) PROVE GoneOK(i)'
  <2>1. UNCHANGED <<tombs, copy, cursor, pull, torn, cut, unmarked>> /\ i # k /\ row'[i] = row[i]
    BY <1>01, <1>7 DEF Written, client, ghosts
  <2>2. GoneOK(i)
    BY <1>0, <1>01, <2>1 DEF Untouched
  <2> QED BY <2>1, <2>2 DEF GoneOK, GoneInPage
<1>8. CASE OnlyTime
  <2>1. UNCHANGED <<row, tombs, copy, cursor, pull, torn, cut, unmarked>>
    BY <1>8 DEF OnlyTime, client, ghosts
  <2>2. GoneOK(i)
    BY <1>0, <1>01, <2>1 DEF Untouched
  <2> QED BY <2>1, <2>2 DEF GoneOK, GoneInPage
<1> QED BY <1>0, <1>1, <1>2, <1>3, <1>4, <1>5, <1>6, <1>7, <1>8, FeedSteps DEF FeedStep

LEMMA FeedStepHolds ==
  ASSUME OfflineTypes, OfflineTypes', FeedInv, Next PROVE FeedInv'
BY ClockStep, SkipStep, PageStep, TakenStep, MarkedStep, GoneStep DEF FeedInv

LEMMA InitFeed == Init => FeedInv
<1> SUFFICES ASSUME Init PROVE FeedInv
  OBVIOUS
<1>1. /\ now = 2 /\ lastRead = 0 /\ cursor = <<0, 0>> /\ pull = NoPull /\ tombs = {}
      /\ \A x \in Requests : req[x].stamp = 0 /\ req[x].pc = "idle"
  BY DEF Init, Idle
<1>2. \A i \in Ids : row[i].at \in {0, 1} /\ row[i].status \in {"live", "unborn"} /\ copy[i].ver = 0
  BY DEF Init, NoLead, NoCopy
<1>3. Clock /\ PageSound /\ TakenAway /\ Marked /\ PageEmpty
  <2>1. NoPull.next[1] = 0 /\ ~NoPull.gotRows /\ NoPull.rows = {} /\ NoPull.tombs = {}
    BY DEF NoPull
  <2>2. Clock
    BY <1>1, <1>2, <2>1 DEF Clock
  <2> QED BY <1>1, <2>1, <2>2 DEF PageSound, TakenAway, Marked, Marking, PageEmpty
<1>4. NothingSkipped
  <2>1. ASSUME NEW i \in Ids PROVE Before(cursor, Pos(i))
    <3>1. Pos(i)[1] = row[i].at /\ Pos(i)[2] = i /\ cursor[1] = 0 /\ cursor[2] = 0
      BY <1>1 DEF Pos
    <3>2. i \in Nat /\ i # 0 /\ row[i].at \in {0, 1}
      BY <1>2, NoneApart
    <3> QED BY <3>1, <3>2 DEF Before
  <2> QED BY <2>1 DEF NothingSkipped, Documents
<1>5. DeletionsArrive /\ DeletionsPaged
  BY <1>2 DEF DeletionsArrive, DeletionsPaged, Untouched
<1> QED BY <1>3, <1>4, <1>5 DEF FeedInv

(***************************************************************************)
(* The steps, as the mutations see them.                                   *)
(***************************************************************************)
HandlerMoves(x) ==
  \/ req'[x].m = None /\ UNCHANGED applied
  \/ req'[x].pc \in {"lookup", "insert", "load", "claim"} /\ UNCHANGED applied
  \/ Claim(x) /\ Matches(x) /\ UNCHANGED applied
  \/ /\ req[x].pc = "record" /\ req'[x].pc = "delete" /\ UNCHANGED applied
     /\ req'[x].m = req[x].m /\ req'[x].id = req[x].id /\ req'[x].held = req[x].held
  \/ /\ req[x].pc \in {"write", "delete", "insert"} /\ req'[x].pc = "after" /\ req'[x].m = req[x].m
     /\ applied' \in {applied, Count(x)}

(* A mutation keeps what it is about, and is queued by Queue only. *)
Kept(n, o) == SameAs(n, o) /\ (o.state = "none" => n.state = "none")

MutsKept == \A m \in Mutations : Kept(mut'[m], mut[m])

LEMMA MutsKeptSame == ASSUME UNCHANGED mut PROVE MutsKept
BY DEF MutsKept, Kept, SameAs

LEMMA MovesTell ==
  ASSUME OfflineTypes, NEW x \in Requests, NEW state \in {"queued", "done", "refused"}, Tell(x, state), UNCHANGED applied
  PROVE  (\A y \in Requests \ {x} : req'[y] = req[y]) /\ HandlerMoves(x) /\ MutsKept
<1>1. req' = [req EXCEPT ![x] = Idle] /\ req \in [Requests -> Request] /\ Idle.m = None
  BY IdleType DEF OfflineTypes, RequestsOK, Tell
<1>2. MutsKept
  <2> SUFFICES ASSUME NEW m \in Mutations PROVE Kept(mut'[m], mut[m])
    BY DEF MutsKept
  <2>1. SameAs(mut'[m], mut[m]) /\ (mut'[m] = mut[m] \/ m = req[x].m)
    BY TellMuts DEF OfflineTypes
  <2>2. m = req[x].m => mut[m].state # "none"
    BY NoneApart DEF OfflineTypes, RequestsOK, About
  <2> QED BY <2>1, <2>2 DEF Kept
<1> QED BY <1>1, <1>2 DEF HandlerMoves

LEMMA MovesGoes ==
  ASSUME OfflineTypes, NEW x \in Requests, NEW w, GoesTo(x, w)
  PROVE  (\A y \in Requests \ {x} : req'[y] = req[y]) /\ req'[x] = w /\ MutsKept
         /\ w.m = req[x].m /\ w.id = req[x].id
BY MutsKeptSame DEF OfflineTypes, RequestsOK, GoesTo

MoveStep(x) == (\A y \in Requests \ {x} : req'[y] = req[y]) /\ HandlerMoves(x) /\ MutsKept

LEMMA RequestMoves ==
  ASSUME OfflineTypes, NEW x \in Requests, RequestStep(x) PROVE MoveStep(x)
<1>1. ASSUME NEW kind \in Kinds, NEW i \in Ids \cup {None}, Online(x, kind, i) PROVE MoveStep(x)
  <2>1. PICK w \in Request : req' = [req EXCEPT ![x] = w] /\ w.m = None
    BY <1>1, OnlineDoes
  <2>2. UNCHANGED <<mut, applied>>
    BY <1>1 DEF Online, effects
  <2> QED BY <2>1, <2>2, MutsKeptSame DEF OfflineTypes, RequestsOK, MoveStep, HandlerMoves
<1>2. ASSUME Lookup(x) PROVE MoveStep(x)
  <2>1. UNCHANGED applied
    BY <1>2 DEF Lookup, effects
  <2>2. CASE Tell(x, "done")
    BY <2>1, <2>2, MovesTell DEF MoveStep
  <2>3. CASE \E w : GoesTo(x, w) /\ w.pc = Handler(req[x].kind)
    BY <2>1, <2>3, MovesGoes DEF MoveStep, HandlerMoves, Handler
  <2> QED BY <1>2, <2>2, <2>3, LookupDoes
<1>3. ASSUME LookupFails(x) PROVE MoveStep(x)
  <2>1. UNCHANGED applied
    BY <1>3 DEF LookupFails
  <2>2. \E w : GoesTo(x, w) /\ w.pc = Handler(req[x].kind)
    BY <1>3, LookupFailsDoes
  <2> QED BY <2>1, <2>2, MovesGoes DEF MoveStep, HandlerMoves, Handler
<1>4. ASSUME Load(x) PROVE MoveStep(x)
  <2>1. UNCHANGED applied
    BY <1>4 DEF Load, effects
  <2>2. CASE Tell(x, "refused")
    BY <2>1, <2>2, MovesTell DEF MoveStep
  <2>3. CASE \E w : GoesTo(x, w) /\ w.pc = "claim"
    BY <2>1, <2>3, MovesGoes DEF MoveStep, HandlerMoves
  <2> QED BY <1>4, <2>2, <2>3, LoadDoes
<1>5. ASSUME Claim(x) PROVE MoveStep(x)
  <2>1. UNCHANGED applied
    BY <1>5 DEF Claim, effects
  <2>2. CASE Tell(x, "refused")
    BY <2>1, <2>2, MovesTell DEF MoveStep
  <2>3. CASE Matches(x) /\ \E w : GoesTo(x, w) /\ w.pc = Work(req[x].kind)
    BY <1>5, <2>1, <2>3, MovesGoes DEF MoveStep, HandlerMoves
  <2>4. Tell(x, "refused") \/ (Matches(x) /\ \E w : GoesTo(x, w) /\ w.pc = Work(req[x].kind))
    BY <1>5, ClaimDoes
  <2> QED BY <2>2, <2>3, <2>4
<1>6. ASSUME Write(x) PROVE MoveStep(x)
  <2>1. CASE Tell(x, "queued") /\ UNCHANGED applied
    BY <2>1, MovesTell DEF MoveStep
  <2>2. CASE applied' = Count(x) /\ \E w : GoesTo(x, w) /\ w.pc = "after"
    <3>1. req[x].pc = "write"
      BY <1>6 DEF Write
    <3> QED BY <2>2, <3>1, MovesGoes DEF MoveStep, HandlerMoves
  <2>3. (Tell(x, "queued") /\ UNCHANGED applied) \/ (applied' = Count(x) /\ \E w : GoesTo(x, w) /\ w.pc = "after")
    BY <1>6, WriteDoes
  <2> QED BY <2>1, <2>2, <2>3
<1>7. ASSUME Record(x) PROVE MoveStep(x)
  <2>1. PICK w : GoesTo(x, w) /\ w.pc = "delete" /\ w.held = req[x].held
    BY <1>7, RecordDoes
  <2>2. req[x].pc = "record" /\ UNCHANGED applied
    BY <1>7 DEF Record, effects
  <2> QED BY <2>1, <2>2, MovesGoes DEF MoveStep, HandlerMoves
<1>8. ASSUME Delete(x) PROVE MoveStep(x)
  <2>1. PICK w : GoesTo(x, w) /\ w.pc = "after"
    BY <1>8, DeleteDoes
  <2>2. req[x].pc = "delete" /\ applied' \in {applied, Count(x)}
    BY <1>8, DeleteDoes
  <2> QED BY <2>1, <2>2, MovesGoes DEF MoveStep, HandlerMoves
<1>9. ASSUME Insert(x) PROVE MoveStep(x)
  <2>1. PICK w : GoesTo(x, w) /\ w.pc = "after"
    BY <1>9, InsertDoes
  <2>2. req[x].pc = "insert" /\ applied' \in {applied, Count(x)}
    BY <1>9, InsertDoes
  <2> QED BY <2>1, <2>2, MovesGoes DEF MoveStep, HandlerMoves
<1>10. ASSUME Throws(x) PROVE MoveStep(x)
  BY <1>10, MovesTell DEF Throws, MoveStep
<1>11. ASSUME Answer(x) PROVE MoveStep(x)
  BY <1>11, MovesTell DEF Answer, effects, MoveStep
<1> QED BY <1>1, <1>2, <1>3, <1>4, <1>5, <1>6, <1>7, <1>8, <1>9, <1>10, <1>11 DEF RequestStep

(* Every step: something is queued, a request moves, all of them are lost, or none of them knows. *)
LEMMA MutSteps ==
  ASSUME OfflineTypes, Next
  PROVE  \/ \E m \in Mutations : Queue(m)
         \/ \E x \in Requests : MoveStep(x)
         \/ Crash /\ MutsKept
         \/ UNCHANGED <<req, applied>> /\ MutsKept
<1>0. req \in [Requests -> Request] /\ mut \in [Mutations -> Mutation]
  BY DEF OfflineTypes, RequestsOK
<1>1. ASSUME Tick \/ FeedStep \/ ReceiptStep PROVE UNCHANGED <<req, applied>> /\ MutsKept
  BY <1>1, MutsKeptSame DEF Tick, FeedStep, ReadRows, ReadTombs, Apply, PullLost, ReceiptStep, Store, StoreFails, effects
<1>2. ASSUME NEW m \in Mutations, GiveUp(m) PROVE UNCHANGED <<req, applied>> /\ MutsKept
  BY <1>0, <1>2 DEF GiveUp, effects, MutsKept, Kept, SameAs, Mutation
<1>3. ASSUME NEW m \in Mutations, NEW x \in Requests, Send(x, m) PROVE MoveStep(x)
  <2>1. MutsKept
    BY <1>0, <1>3 DEF Send, MutsKept, Kept, SameAs, Mutation
  <2>2. (\A y \in Requests \ {x} : req'[y] = req[y]) /\ req'[x].pc = "lookup"
    BY <1>0, <1>3 DEF Send, Idle
  <2> QED BY <1>3, <2>1, <2>2 DEF Send, MoveStep, HandlerMoves
<1>4. ASSUME Crash PROVE MutsKept
  BY <1>0, <1>4 DEF Crash, MutsKept, Kept, SameAs, Mutation
<1> QED BY <1>1, <1>2, <1>3, <1>4, RequestMoves DEF Next, ClientStep

(* Versions grow, or the lead is blurred. *)
LEMMA RowSteps ==
  ASSUME OfflineTypes, Clock, Next
  PROVE  \/ \E x \in Requests, i \in Ids : Written(x, i)
         \/ (\A i \in Ids : row'[i].at = row[i].at /\ row'[i].ver = row[i].ver) /\ blurred' = blurred
<1>1. ASSUME FeedStep \/ OnlyTime PROVE UNCHANGED <<row, blurred>>
  BY <1>1 DEF FeedStep, ReadRows, ReadTombs, Apply, PullLost, OnlyTime, versions
<1>2. ASSUME NEW x \in Requests, Delete(x)
      PROVE  (\A i \in Ids : row'[i].at = row[i].at /\ row'[i].ver = row[i].ver) /\ blurred' = blurred
  <2>1. blurred' = blurred
    BY <1>2 DEF Delete, versions
  <2> QED BY <1>2, <2>1, DeleteDoes
<1>3. ASSUME NEW x \in Requests, Record(x) PROVE UNCHANGED <<row, blurred>>
  BY <1>3 DEF Record, versions
<1> QED BY <1>1, <1>2, <1>3, FeedSteps

(* Seen, after the step. *)
SeenNow(i, at, ver) == at <= row'[i].at /\ (at = row'[i].at => ver = row'[i].ver)

LEMMA SeenKept ==
  ASSUME OfflineTypes, OfflineTypes', Clock, Next, NEW i \in Ids, i \notin blurred'
  PROVE  /\ i \notin blurred /\ row[i].at <= row'[i].at
         /\ \A at \in Nat, ver \in Nat : Seen(i, at, ver) => SeenNow(i, at, ver)
<1>0. row[i].at \in Nat /\ row'[i].at \in Nat
  BY DEF OfflineTypes, DataOK, Lead
<1>1. CASE (\A j \in Ids : row'[j].at = row[j].at /\ row'[j].ver = row[j].ver) /\ blurred' = blurred
  BY <1>0, <1>1 DEF Seen, SeenNow
<1>2. ASSUME NEW x \in Requests, NEW j \in Ids, Written(x, j)
      PROVE  i \notin blurred /\ row[i].at <= row'[i].at /\ \A at \in Nat, ver \in Nat : Seen(i, at, ver) => SeenNow(i, at, ver)
  <2>1. CASE i = j
    <3>1. i \notin blurred /\ row'[i].at = req[x].stamp /\ ~(req[x].stamp <= row[i].at) /\ req[x].stamp \in Nat
      BY <1>2, <2>1 DEF Written, Commit, OfflineTypes, RequestsOK, Request
    <3>2. row[i].at < row'[i].at
      BY <1>0, <3>1
    <3> QED BY <1>0, <3>1, <3>2 DEF Seen, SeenNow
  <2>2. CASE i # j
    <3>1. i \notin blurred /\ row'[i] = row[i]
      BY <1>2, <2>2 DEF Written, Commit
    <3> QED BY <1>0, <3>1 DEF Seen, SeenNow
  <2> QED BY <2>1, <2>2
<1> QED BY <1>1, <1>2, RowSteps

LEMMA ClientSteps ==
  ASSUME OfflineTypes, Clock, Next
  PROVE  (Apply \/ UNCHANGED copy) /\ (ReadRows \/ pull'.rows \subseteq pull.rows)
<1>1. ASSUME FeedStep PROVE (Apply \/ UNCHANGED copy) /\ (ReadRows \/ pull'.rows \subseteq pull.rows)
  <2>1. CASE ReadRows
    BY <2>1 DEF ReadRows
  <2>2. CASE ReadTombs
    BY <2>2, ReadTombsDoes DEF ReadTombs
  <2>3. CASE Apply \/ PullLost
    BY <2>3 DEF Apply, PullLost, NoPull
  <2> QED BY <1>1, <2>1, <2>2, <2>3 DEF FeedStep
<1>2. ASSUME NEW x \in Requests, Delete(x) \/ Record(x) PROVE UNCHANGED <<copy, pull>>
  BY <1>2 DEF Delete, Record, client
<1>3. ASSUME NEW x \in Requests, NEW i \in Ids, Written(x, i) PROVE UNCHANGED <<copy, pull>>
  BY <1>3 DEF Written, client
<1>4. ASSUME OnlyTime PROVE UNCHANGED <<copy, pull>>
  BY <1>4 DEF OnlyTime, client
<1> QED BY <1>1, <1>2, <1>3, <1>4, FeedSteps

LEMMA SeenStep ==
  ASSUME OfflineTypes, OfflineTypes', FeedInv, VersionInv, Next PROVE SeenSound'
<1>0. Clock /\ SeenSound /\ DataOK /\ PullOK
  BY DEF FeedInv, VersionInv, OfflineTypes
<1> SUFFICES ASSUME NEW i \in Ids, i \notin blurred'
             PROVE  /\ copy'[i].ver > 0 => SeenNow(i, copy'[i].at, copy'[i].ver)
                    /\ \A r \in pull'.rows : r.id = i => SeenNow(i, r.at, r.ver)
                    /\ \A m \in Mutations : mut'[m].id = i /\ mut'[m].state # "none" =>
                         SeenNow(i, mut'[m].expected, mut'[m].base)
  BY DEF SeenSound, Seen, SeenNow
<1>1. i \notin blurred /\ \A at \in Nat, ver \in Nat : Seen(i, at, ver) => SeenNow(i, at, ver)
  BY <1>0, SeenKept
<1>2. \A r \in pull.rows : r.at \in Nat /\ r.ver \in Nat /\ (r.id = i => SeenNow(i, r.at, r.ver))
  BY <1>0, <1>1 DEF PullOK, Pull, Entry, SeenSound
<1>3. \A r \in pull'.rows : r.id = i => SeenNow(i, r.at, r.ver)
  <2>1. CASE ReadRows
    <3>1. pull'.rows = {EntryOf(j) : j \in Page(cursor)} /\ UNCHANGED row
      BY <2>1, ReadRowsDoes DEF ReadRows
    <3>2. row[i].at \in Nat
      BY <1>0 DEF DataOK, Lead
    <3> QED BY <3>1, <3>2 DEF EntryOf, SeenNow
  <2>2. CASE pull'.rows \subseteq pull.rows
    BY <1>2, <2>2
  <2> QED BY <1>0, <2>1, <2>2, ClientSteps
<1>4. copy[i].at \in Nat /\ copy[i].ver \in Nat /\ (copy[i].ver > 0 => SeenNow(i, copy[i].at, copy[i].ver))
  BY <1>0, <1>1 DEF DataOK, SeenSound
<1>5. copy'[i].ver > 0 => SeenNow(i, copy'[i].at, copy'[i].ver)
  <2>1. CASE Apply
    <3>1. CASE i \in pull.tombs
      BY <2>1, <3>1, ApplyDoes DEF NoCopy
    <3>2. CASE i \notin pull.tombs /\ \A r \in pull.rows : r.id # i
      <4>1. copy'[i] = copy[i]
        BY <2>1, <3>2, ApplyDoes
      <4> QED BY <1>4, <4>1
    <3>3. CASE i \notin pull.tombs /\ \E r \in pull.rows : r.id = i
      <4>1. PICK r \in pull.rows : r.id = i
        BY <3>3
      <4>2. copy'[i] = [at |-> r.at, ver |-> r.ver]
        BY <2>1, <3>3, <4>1, ApplyDoes
      <4>3. copy'[i].at = r.at /\ copy'[i].ver = r.ver /\ SeenNow(i, r.at, r.ver)
        BY <1>2, <4>1, <4>2
      <4> QED BY <4>3
    <3> QED BY <3>1, <3>2, <3>3
  <2>2. CASE UNCHANGED copy
    BY <1>4, <2>2
  <2> QED BY <1>0, <2>1, <2>2, ClientSteps
<1>6. ASSUME NEW m \in Mutations, mut'[m].id = i, mut'[m].state # "none"
      PROVE  SeenNow(i, mut'[m].expected, mut'[m].base)
  <2>1. CASE Kept(mut'[m], mut[m])
    <3>1. mut[m].id = i /\ mut[m].state # "none" /\ mut'[m].expected = mut[m].expected /\ mut'[m].base = mut[m].base
      BY <1>6, <2>1 DEF Kept, SameAs
    <3>2. mut[m].expected \in Nat /\ mut[m].base \in Nat
      BY DEF OfflineTypes, RequestsOK, Mutation
    <3>3. SeenNow(i, mut[m].expected, mut[m].base)
      BY <1>0, <1>1, <3>1, <3>2 DEF SeenSound
    <3> QED BY <3>1, <3>3
  <2>2. ASSUME NEW k \in Mutations, Queue(k) PROVE SeenNow(i, mut'[m].expected, mut'[m].base)
    <3>1. CASE m # k
      <4>1. mut'[m] = mut[m]
        BY <2>2, <3>1, QueueDoes DEF OfflineTypes, RequestsOK
      <4> QED BY <2>1, <4>1 DEF Kept, SameAs
    <3>2. CASE m = k
      <4>1. mut'[m].kind # "create" => copy[i].ver > 0 /\ mut'[m].expected = copy[i].at /\ mut'[m].base = copy[i].ver
        BY <1>6, <2>2, <3>2, QueueDoes DEF OfflineTypes, RequestsOK
      <4>2. mut'[m].kind # "create"
        BY <1>6, <2>2, <3>2, QueueDoes, NoneApart DEF OfflineTypes, RequestsOK
      <4> QED BY <1>4, <4>1, <4>2
    <3> QED BY <3>1, <3>2
  <2> QED BY <2>1, <2>2, MutSteps DEF MoveStep, MutsKept
<1> QED BY <1>3, <1>5, <1>6


(* A request past the check was so before, or passes it now. *)
LEMMA PastSteps ==
  ASSUME OfflineTypes, OfflineTypes', Next, NEW x \in Requests, Past(x)'
  PROVE  /\ req'[x].m \in Mutations
         /\ \/ Past(x) /\ req'[x].m = req[x].m /\ req'[x].id = req[x].id /\ req'[x].held = req[x].held
            \/ Claim(x) /\ Matches(x) /\ UNCHANGED applied /\ \A y \in Requests \ {x} : req'[y] = req[y]
<1>1. req'[x].m # None /\ req'[x].m \in Mutations /\ req'[x].pc \in {"write", "record", "delete"}
  BY DEF Past, OfflineTypes, RequestsOK, Request
<1>2. CASE req'[x] = req[x]
  BY <1>1, <1>2 DEF Past
<1>3. CASE MoveStep(x)
  <2>1. CASE req[x].pc = "record" /\ req'[x].m = req[x].m /\ req'[x].id = req[x].id /\ req'[x].held = req[x].held
    BY <1>1, <2>1 DEF Past
  <2>2. CASE Claim(x) /\ Matches(x) /\ UNCHANGED applied
    BY <1>1, <1>3, <2>2 DEF MoveStep
  <2> QED BY <1>1, <1>3, <2>1, <2>2 DEF MoveStep, HandlerMoves
<1>4. CASE Crash
  BY <1>1, <1>4, IdleType DEF Crash
<1>5. ASSUME NEW m \in Mutations, Queue(m) PROVE req'[x] = req[x]
  BY <1>5 DEF Queue
<1> QED BY <1>2, <1>3, <1>4, <1>5, MutSteps DEF MoveStep

(* How often a mutation took effect changes with the write of a request of its own. *)
LEMMA AppliedSteps ==
  ASSUME OfflineTypes, Next, NEW m \in Mutations
  PROVE  \/ applied'[m] = applied[m]
         \/ \E x \in Requests :
              /\ applied'[m] = applied[m] + 1 /\ req[x].m = m /\ req[x].pc \in {"write", "delete", "insert"}
              /\ req'[x].pc = "after" /\ MoveStep(x)
<1>1. ASSUME NEW x \in Requests, MoveStep(x), applied'[m] # applied[m]
      PROVE  /\ applied'[m] = applied[m] + 1 /\ req[x].m = m /\ req[x].pc \in {"write", "delete", "insert"}
             /\ req'[x].pc = "after"
  <2>1. req[x].pc \in {"write", "delete", "insert"} /\ req'[x].pc = "after" /\ applied' = Count(x)
    BY <1>1 DEF MoveStep, HandlerMoves
  <2>2. applied'[m] = IF m = req[x].m THEN applied[m] + 1 ELSE applied[m]
    BY <2>1, CountType
  <2> QED BY <1>1, <2>1, <2>2
<1>2. ASSUME Crash \/ \E k \in Mutations : Queue(k) PROVE UNCHANGED applied
  BY <1>2 DEF Crash, Queue, effects
<1> QED BY <1>1, <1>2, MutSteps

(* A mutation that is about a version was so before, or is queued now. *)
LEMMA MutBefore ==
  ASSUME OfflineTypes, Next, NEW m \in Mutations, mut'[m].state # "none"
  PROVE  \/ /\ mut[m].state # "none" /\ mut'[m].kind = mut[m].kind /\ mut'[m].id = mut[m].id
            /\ mut'[m].expected = mut[m].expected /\ mut'[m].base = mut[m].base
         \/ mut[m].state = "none" /\ UNCHANGED <<req, applied>>
<1>1. CASE Kept(mut'[m], mut[m])
  BY <1>1 DEF Kept, SameAs
<1>2. ASSUME NEW k \in Mutations, Queue(k)
      PROVE  mut'[m] = mut[m] \/ (mut[m].state = "none" /\ UNCHANGED <<req, applied>>)
  <2>1. \A j \in Mutations \ {k} : mut'[j] = mut[j]
    BY <1>2, QueueDoes DEF OfflineTypes, RequestsOK
  <2>2. mut[k].state = "none" /\ UNCHANGED <<req, applied>>
    BY <1>2 DEF Queue, effects
  <2> QED BY <2>1, <2>2
<1> QED BY <1>1, <1>2, MutSteps DEF MoveStep, MutsKept, Kept, SameAs

(* A request past the check is about its mutation. *)
LEMMA PastAbout ==
  ASSUME OfflineTypes, NEW x \in Requests, Past(x) \/ (req[x].pc = "claim" /\ req[x].m # None)
  PROVE  /\ req[x].m \in Mutations /\ req[x].id \in Ids /\ mut[req[x].m].state # "none"
         /\ mut[req[x].m].id = req[x].id /\ mut[req[x].m].kind = req[x].kind /\ req[x].kind # "create"
         /\ mut[req[x].m].expected = req[x].expected
         /\ mut[req[x].m].expected \in Nat /\ mut[req[x].m].base \in Nat /\ req[x].held \in Nat
<1>1. req[x] \in Request /\ ReqOK(req[x]) /\ About(req[x], mut[req[x].m]) /\ req[x].m \in Mutations
  BY DEF Past, OfflineTypes, RequestsOK, Request
<1>2. mut[req[x].m] \in Mutation
  BY <1>1 DEF OfflineTypes, RequestsOK
<1> QED BY <1>1, <1>2 DEF Past, ReqOK, OnLead, About, Mutation, Request

LEMMA ClaimStep ==
  ASSUME OfflineTypes, OfflineTypes', FeedInv, VersionInv, Next PROVE ClaimSound'
<1>0. Clock /\ SeenSound /\ ClaimSound
  BY DEF FeedInv, VersionInv
<1> SUFFICES ASSUME NEW x \in Requests, Past(x)', req'[x].id \notin blurred'
             PROVE  /\ SeenNow(req'[x].id, req'[x].held, mut'[req'[x].m].base)
                    /\ mut'[req'[x].m].expected < row'[req'[x].id].at
  BY DEF ClaimSound, Seen, SeenNow
<1>1. CASE Past(x) /\ req'[x].m = req[x].m /\ req'[x].id = req[x].id /\ req'[x].held = req[x].held
  <2> DEFINE i == req[x].id
             m == req[x].m
  <2>1. /\ m \in Mutations /\ i \in Ids /\ mut[m].state # "none" /\ mut[m].expected \in Nat
        /\ mut[m].base \in Nat /\ req[x].held \in Nat
    BY <1>1, PastAbout
  <2>2. /\ i \notin blurred /\ row[i].at <= row'[i].at
        /\ \A at \in Nat, ver \in Nat : Seen(i, at, ver) => SeenNow(i, at, ver)
    BY <1>0, <1>1, <2>1, SeenKept
  <2>3. Seen(i, req[x].held, mut[m].base) /\ mut[m].expected < row[i].at
    BY <1>0, <1>1, <2>2 DEF ClaimSound
  <2>4. mut'[m].expected = mut[m].expected /\ mut'[m].base = mut[m].base
    <3>1. mut'[m].state # "none"
      BY <1>1, <2>1 DEF Past, OfflineTypes, RequestsOK, About
    <3> QED BY <2>1, <3>1, MutBefore
  <2>5. row[i].at \in Nat /\ row'[i].at \in Nat
    BY <2>1 DEF OfflineTypes, DataOK, Lead
  <2> QED BY <1>1, <2>1, <2>2, <2>3, <2>4, <2>5
<1>2. CASE Claim(x) /\ Matches(x)
  <2> DEFINE i == req[x].id
             m == req[x].m
  <2>1. /\ m \in Mutations /\ i \in Ids /\ mut[m].state # "none" /\ mut[m].expected \in Nat
        /\ mut[m].base \in Nat /\ mut[m].expected = req[x].expected /\ mut[m].id = i
    BY <1>2, ClaimDoes, PastAbout, NoneApart
  <2>2. /\ row'[i].ver = row[i].ver /\ row'[i].at = req[x].stamp /\ Commit(i, req[x].stamp) /\ mut' = mut
        /\ req'[x].held = req[x].stamp /\ req'[x].m = m /\ req'[x].id = i
    BY <1>2, ClaimDoes, NoneApart DEF GoesTo, Tell, OfflineTypes, RequestsOK
  <2>3. row[i].at = mut[m].expected
    BY <1>2, <2>1 DEF Matches
  <2>4. i \notin blurred /\ row[i].at < row'[i].at /\ row[i].at \in Nat /\ row'[i].at \in Nat
    <3>1. req[x].stamp \in Nat /\ row[i].at \in Nat
      BY <2>1 DEF OfflineTypes, RequestsOK, Request, DataOK, Lead
    <3>2. i \notin blurred /\ ~(req[x].stamp <= row[i].at)
      BY <2>2 DEF Commit
    <3> QED BY <2>2, <3>1, <3>2
  <2>5. Seen(i, mut[m].expected, mut[m].base)
    BY <1>0, <2>1, <2>4 DEF SeenSound
  <2>6. mut[m].base = row'[i].ver
    BY <2>2, <2>3, <2>5 DEF Seen
  <2> QED BY <2>2, <2>3, <2>4, <2>6 DEF SeenNow
<1> QED BY <1>1, <1>2, PastSteps

(* A request that passes the check finds its mutation without effect, and alone. *)
LEMMA ClaimsFirst ==
  ASSUME OfflineTypes, VersionInv, NEW y \in Requests, Claim(y), Matches(y), mut[req[y].m].id \notin blurred
  PROVE  /\ applied[req[y].m] = 0
         /\ \A x \in Requests : Past(x) => req[x].m # req[y].m
<1> DEFINE m == req[y].m
           i == req[y].id
<1>1. /\ m \in Mutations /\ i \in Ids /\ mut[m].state # "none" /\ mut[m].expected \in Nat /\ mut[m].kind # "create"
      /\ mut[m].expected = req[y].expected /\ mut[m].id = i
  BY ClaimDoes, PastAbout, NoneApart
<1>2. row[i].at = mut[m].expected /\ row[i].at \in Nat
  BY <1>1 DEF Matches
<1>3. applied[m] \in Nat /\ ~(applied[m] > 0)
  BY <1>1, <1>2 DEF VersionInv, OnceByVersion, OfflineTypes, DataOK
<1>4. ASSUME NEW x \in Requests, Past(x), req[x].m = m PROVE FALSE
  <2>1. req[x].id = i
    BY <1>1, <1>4, PastAbout
  <2>2. mut[m].expected < row[i].at
    BY <1>1, <1>4, <2>1 DEF VersionInv, ClaimSound
  <2> QED BY <1>1, <1>2, <2>2
<1> QED BY <1>3, <1>4

LEMMA OnceStep ==
  ASSUME OfflineTypes, OfflineTypes', FeedInv, VersionInv, ReceiptInv, Next PROVE OnceByVersion'
<1>0. Clock /\ ClaimSound /\ OnceByVersion /\ AnswersSound
  BY DEF FeedInv, VersionInv, ReceiptInv
<1> SUFFICES ASSUME NEW m \in Mutations, mut'[m].kind # "create", mut'[m].state # "none", mut'[m].id \notin blurred'
             PROVE  /\ applied'[m] > 0 => mut'[m].expected < row'[mut'[m].id].at
                    /\ applied'[m] <= 1
                    /\ applied'[m] = 1 => \A x \in Requests : Past(x)' => req'[x].m # m
                    /\ \A x \in Requests, y \in Requests :
                         Past(x)' /\ Past(y)' /\ req'[x].m = m /\ req'[y].m = m => x = y
  BY DEF OnceByVersion
<1>1. CASE mut[m].state = "none" /\ UNCHANGED <<req, applied>>
  <2>1. applied'[m] = 0
    BY <1>0, <1>1 DEF AnswersSound
  <2>2. \A x \in Requests : req'[x].m # m
    BY <1>1, NoneApart DEF OfflineTypes, RequestsOK, About
  <2> QED BY <2>1, <2>2
<1>2. CASE /\ mut[m].state # "none" /\ mut'[m].kind = mut[m].kind /\ mut'[m].id = mut[m].id
           /\ mut'[m].expected = mut[m].expected /\ mut'[m].base = mut[m].base
  <2> DEFINE i == mut[m].id
  <2>1. i \in Ids /\ mut[m].expected \in Nat /\ applied[m] \in Nat /\ applied'[m] \in Nat
    BY <1>2 DEF OfflineTypes, RequestsOK, MutOK, Mutation, DataOK
  <2>2. i \notin blurred /\ row[i].at <= row'[i].at /\ row[i].at \in Nat /\ row'[i].at \in Nat
    BY <1>0, <1>2, <2>1, SeenKept DEF OfflineTypes, DataOK, Lead
  <2>3. /\ applied[m] > 0 => mut[m].expected < row[i].at
        /\ applied[m] <= 1
        /\ applied[m] = 1 => \A x \in Requests : Past(x) => req[x].m # m
        /\ \A x \in Requests, y \in Requests : Past(x) /\ Past(y) /\ req[x].m = m /\ req[y].m = m => x = y
    BY <1>0, <1>2, <2>2 DEF OnceByVersion
  <2>4. \A x \in Requests : Past(x) /\ req[x].m = m => mut[m].expected < row[i].at
    <3> SUFFICES ASSUME NEW x \in Requests, Past(x), req[x].m = m PROVE mut[m].expected < row[i].at
      OBVIOUS
    <3>1. req[x].id = i
      BY PastAbout
    <3> QED BY <1>0, <2>2, <3>1 DEF ClaimSound
  <2>5. applied'[m] = applied[m]
        \/ \E x \in Requests : applied'[m] = applied[m] + 1 /\ Past(x) /\ req[x].m = m /\ ~Past(x)'
    <3>1. ASSUME NEW x \in Requests, req[x].m = m, req[x].pc \in {"write", "delete", "insert"} PROVE Past(x)
      <4>1. req[x].pc # "insert" /\ m # None
        BY <1>2, <3>1, NoneApart DEF OfflineTypes, RequestsOK, ReqOK, About
      <4> QED BY <3>1, <4>1 DEF Past
    <3> QED BY <3>1, AppliedSteps DEF Past
  <2>6. ASSUME NEW x \in Requests, Past(x)', req'[x].m = m
        PROVE  \/ Past(x) /\ req[x].m = m
               \/ /\ applied[m] = 0 /\ applied'[m] = 0 /\ ~Past(x)
                  /\ \A y \in Requests : Past(y) => req[y].m # m
                  /\ \A y \in Requests \ {x} : req'[y] = req[y]
    <3>1. CASE Past(x) /\ req'[x].m = req[x].m
      BY <2>6, <3>1
    <3>2. CASE Claim(x) /\ Matches(x) /\ UNCHANGED applied /\ \A y \in Requests \ {x} : req'[y] = req[y]
      <4>1. req[x].m = m
        BY <2>6, <3>2, ClaimDoes, NoneApart DEF GoesTo, Tell, OfflineTypes, RequestsOK
      <4>2. applied[m] = 0 /\ \A y \in Requests : Past(y) => req[y].m # m
        BY <2>2, <3>2, <4>1, ClaimsFirst
      <4> QED BY <3>2, <4>1, <4>2
    <3> QED BY <2>6, <3>1, <3>2, PastSteps
  <2>7. applied'[m] > 0 => mut[m].expected < row'[i].at
    BY <2>1, <2>2, <2>3, <2>4, <2>5
  <2>8. applied'[m] <= 1
    <3>1. ASSUME NEW x \in Requests, applied'[m] = applied[m] + 1, Past(x), req[x].m = m PROVE applied'[m] <= 1
      BY <2>1, <2>3, <3>1
    <3> QED BY <2>3, <2>5, <3>1
  <2>9. ASSUME applied'[m] = 1, NEW y \in Requests, Past(y)', req'[y].m = m PROVE FALSE
    <3>1. Past(y) /\ req[y].m = m
      BY <2>6, <2>9
    <3>2. applied[m] # 1
      BY <2>3, <3>1
    <3>3. PICK x \in Requests : Past(x) /\ req[x].m = m /\ ~Past(x)'
      BY <2>5, <2>9, <3>2
    <3> QED BY <2>3, <2>9, <3>1, <3>3
  <2>10. ASSUME NEW x \in Requests, NEW y \in Requests, Past(x)', Past(y)', req'[x].m = m, req'[y].m = m, x # y PROVE FALSE
    <3>1. CASE Past(x) /\ Past(y) /\ req[x].m = m /\ req[y].m = m
      BY <2>3, <2>10, <3>1
    <3>2. CASE ~Past(x)
      <4>1. req'[y] = req[y] /\ \A z \in Requests : Past(z) => req[z].m # m
        BY <2>6, <2>10, <3>2
      <4> QED BY <2>10, <4>1 DEF Past
    <3>3. CASE ~Past(y)
      <4>1. req'[x] = req[x] /\ \A z \in Requests : Past(z) => req[z].m # m
        BY <2>6, <2>10, <3>3
      <4> QED BY <2>10, <4>1 DEF Past
    <3>4. Past(x) /\ Past(y) => req[x].m = m /\ req[y].m = m
      BY <2>6, <2>10
    <3> QED BY <3>1, <3>2, <3>3, <3>4
  <2> QED BY <1>2, <2>7, <2>8, <2>9, <2>10
<1> QED BY <1>1, <1>2, MutBefore

LEMMA VersionStepHolds ==
  ASSUME OfflineTypes, OfflineTypes', FeedInv, VersionInv, ReceiptInv, Next PROVE VersionInv'
BY SeenStep, ClaimStep, OnceStep DEF VersionInv

(* A mutation under the protection of its receipt. *)
Guarded(m) ==
  /\ \A x \in Requests, y \in Requests : req[x].m = m /\ req[y].m = m => x = y
  /\ \A x \in Requests : req[x].m = m =>
       /\ m \notin storing
       /\ req[x].pc # "lookup" => req[x].kept
       /\ req[x].pc \notin {"lookup", "after"} => applied[m] = 0
       /\ mut[m].state = "queued"
  /\ applied[m] > 0 => m \in receipts \cup storing \/ \E x \in Requests : req[x].m = m /\ req[x].pc = "after"
  /\ applied[m] <= 1
  /\ mut[m].state = "refused" => applied[m] = 0

LEMMA GuardedAll == OnceByReceipt <=> \A m \in Mutations \ unsafe : Guarded(m)
BY DEF OnceByReceipt, Guarded

LEMMA GuardOther ==
  ASSUME NEW m, Guarded(m),
         \A y \in Requests : req'[y] = req[y] \/ (req[y].m # m /\ req'[y].m # m),
         mut'[m].state = mut[m].state, applied'[m] = applied[m],
         m \in storing' <=> m \in storing, m \in receipts' <=> m \in receipts
  PROVE  Guarded(m)'
BY DEF Guarded

(* The answer of its request. *)
LEMMA GuardTell ==
  ASSUME OfflineTypes, NEW x \in Requests, NEW state \in {"queued", "done", "refused"}, Tell(x, state),
         NEW m \in Mutations, m = req[x].m, Guarded(m), applied'[m] = applied[m],
         applied[m] > 0 => m \in receipts' \cup storing',
         state = "refused" => applied[m] = 0
  PROVE  Guarded(m)'
<1>1. /\ req' = [req EXCEPT ![x] = Idle] /\ req \in [Requests -> Request] /\ Idle.m = None
      /\ mut'[m].state \in {mut[m].state, state} /\ m # None
  BY TellMuts, IdleType, NoneApart DEF OfflineTypes, RequestsOK
<1>2. \A y \in Requests : req'[y].m # m
  BY <1>1 DEF Guarded
<1>3. mut[m].state = "queued" /\ applied[m] <= 1
  BY DEF Guarded
<1> QED BY <1>1, <1>2, <1>3 DEF Guarded

(* Its request goes on. *)
LEMMA GuardGoes ==
  ASSUME OfflineTypes, NEW x \in Requests, NEW w, GoesTo(x, w), NEW m \in Mutations, m = req[x].m, Guarded(m),
         UNCHANGED <<receipts, storing>>, w.pc # "lookup", w.kept,
         w.pc # "after" => applied'[m] = 0, applied'[m] \in {0, 1}
  PROVE  Guarded(m)'
<1>1. (\A y \in Requests \ {x} : req'[y] = req[y]) /\ req'[x] = w /\ w.m = m /\ UNCHANGED mut
  <2>1. (\A y \in Requests \ {x} : req'[y] = req[y]) /\ req'[x] = w /\ w.m = m
    BY MovesGoes
  <2> QED BY <2>1 DEF GoesTo
<1>2. /\ \A y \in Requests : req[y].m = m => y = x
      /\ m \notin storing /\ mut[m].state = "queued"
  BY DEF Guarded
<1>3. \A y \in Requests : req'[y].m = m => y = x
  BY <1>1, <1>2
<1> QED BY <1>1, <1>2, <1>3 DEF Guarded

LEMMA GuardTellAny ==
  ASSUME OfflineTypes, NEW x \in Requests, NEW state \in {"queued", "done", "refused"}, Tell(x, state),
         NEW m \in Mutations, Guarded(m), UNCHANGED <<applied, receipts>>,
         m # req[x].m => (m \in storing' <=> m \in storing),
         m = req[x].m /\ applied[m] > 0 => m \in receipts \cup storing',
         m = req[x].m /\ state = "refused" => applied[m] = 0
  PROVE  Guarded(m)'
<1>1. CASE m = req[x].m
  BY <1>1, GuardTell
<1>2. CASE m # req[x].m
  <2>1. /\ req' = [req EXCEPT ![x] = Idle] /\ req \in [Requests -> Request] /\ Idle.m = None
        /\ mut'[m] = mut[m] /\ m # None
    BY <1>2, TellMuts, IdleType, NoneApart DEF OfflineTypes, RequestsOK
  <2> QED BY <1>2, <2>1, GuardOther
<1> QED BY <1>1, <1>2

LEMMA GuardGoesAny ==
  ASSUME OfflineTypes, NEW x \in Requests, NEW w, GoesTo(x, w), NEW m \in Mutations, Guarded(m),
         UNCHANGED <<receipts, storing>>, m # req[x].m => applied'[m] = applied[m],
         m = req[x].m => w.pc # "lookup" /\ w.kept /\ (w.pc # "after" => applied'[m] = 0) /\ applied'[m] \in {0, 1}
  PROVE  Guarded(m)'
<1>1. CASE m = req[x].m
  BY <1>1, GuardGoes
<1>2. CASE m # req[x].m
  <2>1. (\A y \in Requests \ {x} : req'[y] = req[y]) /\ req'[x] = w /\ w.m = req[x].m
    BY MovesGoes
  <2>2. UNCHANGED mut
    BY DEF GoesTo
  <2> QED BY <1>2, <2>1, <2>2, GuardOther
<1> QED BY <1>1, <1>2

LEMMA GuardRequest ==
  ASSUME OfflineTypes, NEW m \in Mutations, Guarded(m), m \notin unsafe',
         NEW x \in Requests, RequestStep(x)
  PROVE  Guarded(m)'
<1>0. /\ req \in [Requests -> Request] /\ m # None /\ applied[m] \in Nat /\ applied[m] \in {0, 1}
      /\ (m = req[x].m => /\ m \notin storing
                          /\ req[x].pc # "lookup" => req[x].kept
                          /\ req[x].pc \notin {"lookup", "after"} => applied[m] = 0
                          /\ \A y \in Requests : req[y].m = m => y = x)
  BY NoneApart DEF OfflineTypes, DataOK, RequestsOK, Guarded
<1>1. ASSUME NEW kind \in Kinds, NEW i \in Ids \cup {None}, Online(x, kind, i) PROVE Guarded(m)'
  <2>1. PICK w \in Request : req' = [req EXCEPT ![x] = w] /\ w.m = None
    BY <1>1, OnlineDoes
  <2>2. UNCHANGED <<mut, applied, receipts, storing>> /\ req[x].pc = "idle"
    BY <1>1 DEF Online, effects
  <2>3. req[x].m = None
    BY <2>2 DEF OfflineTypes, RequestsOK, ReqOK
  <2> QED BY <1>0, <2>1, <2>2, <2>3, GuardOther
<1>2. ASSUME Lookup(x) PROVE Guarded(m)'
  <2>1. UNCHANGED <<applied, receipts, storing>> /\ req[x].pc = "lookup"
    BY <1>2 DEF Lookup, effects
  <2>2. CASE req[x].m \in receipts /\ Tell(x, "done")
    BY <2>1, <2>2, GuardTellAny
  <2>3. CASE req[x].m \notin receipts /\ \E w : GoesTo(x, w) /\ w.pc = Handler(req[x].kind) /\ w.kept
    <3>1. PICK w : GoesTo(x, w) /\ w.pc = Handler(req[x].kind) /\ w.kept
      BY <2>3
    <3>2. m = req[x].m => applied[m] = 0
      BY <1>0, <2>1, <2>3 DEF Guarded
    <3>3. w.pc \notin {"lookup", "after"}
      BY <3>1 DEF Handler
    <3> QED BY <2>1, <3>1, <3>2, <3>3, GuardGoesAny
  <2> QED BY <1>2, <2>2, <2>3, LookupDoes
<1>3. ASSUME LookupFails(x) PROVE Guarded(m)'
  <2>1. UNCHANGED <<applied, receipts, storing>> /\ m # req[x].m
    BY <1>3, LookupFailsDoes DEF LookupFails
  <2> QED BY <1>3, <2>1, LookupFailsDoes, GuardGoesAny
<1>4. ASSUME Load(x) PROVE Guarded(m)'
  <2>1. UNCHANGED <<applied, receipts, storing>> /\ req[x].pc = "load"
    BY <1>4 DEF Load, effects
  <2>2. CASE Tell(x, "refused")
    BY <1>0, <2>1, <2>2, GuardTellAny
  <2>3. ASSUME NEW w, GoesTo(x, w), w.pc = "claim" PROVE Guarded(m)'
    <3>1. m = req[x].m => w.kept
      BY <1>0, <2>1, <2>3 DEF GoesTo
    <3> QED BY <1>0, <2>1, <2>3, <3>1, GuardGoesAny
  <2> QED BY <1>4, <2>2, <2>3, LoadDoes
<1>5. ASSUME Claim(x) PROVE Guarded(m)'
  <2>1. UNCHANGED <<applied, receipts, storing>> /\ req[x].pc = "claim"
    BY <1>5 DEF Claim, effects
  <2>2. CASE Tell(x, "refused")
    BY <1>0, <2>1, <2>2, GuardTellAny
  <2>3. ASSUME NEW w, GoesTo(x, w), w.pc = Work(req[x].kind) PROVE Guarded(m)'
    <3>1. m = req[x].m => w.kept
      BY <1>0, <2>1, <2>3 DEF GoesTo
    <3>2. w.pc \notin {"lookup", "after"}
      BY <2>3 DEF Work
    <3> QED BY <1>0, <2>1, <2>3, <3>1, <3>2, GuardGoesAny
  <2> QED BY <1>5, <2>2, <2>3, ClaimDoes
<1>6. ASSUME Write(x) PROVE Guarded(m)'
  <2>1. UNCHANGED <<receipts, storing>> /\ req[x].pc = "write"
    BY <1>6 DEF Write
  <2>2. CASE Tell(x, "queued") /\ UNCHANGED applied
    BY <1>0, <2>1, <2>2, GuardTellAny
  <2>3. ASSUME applied' = Count(x), NEW w, GoesTo(x, w), w.pc = "after", w.kept = req[x].kept PROVE Guarded(m)'
    BY <1>0, <2>1, <2>3, CountType, GuardGoesAny
  <2>4. (Tell(x, "queued") /\ UNCHANGED applied)
        \/ (applied' = Count(x) /\ \E w : GoesTo(x, w) /\ w.pc = "after" /\ w.kept = req[x].kept)
    BY <1>6, WriteDoes
  <2> QED BY <2>2, <2>3, <2>4
<1>7. ASSUME Record(x) PROVE Guarded(m)'
  <2>1. UNCHANGED <<applied, receipts, storing>> /\ req[x].pc = "record"
    BY <1>7 DEF Record, effects
  <2>2. PICK w : GoesTo(x, w) /\ w.pc = "delete" /\ w.kept = req[x].kept
    BY <1>7, RecordDoes
  <2> QED BY <1>0, <2>1, <2>2, GuardGoesAny
<1>8. ASSUME Delete(x) PROVE Guarded(m)'
  <2>1. UNCHANGED <<receipts, storing>> /\ req[x].pc = "delete" /\ applied' \in {applied, Count(x)}
    BY <1>8, DeleteDoes DEF Delete
  <2>2. PICK w : GoesTo(x, w) /\ w.pc = "after" /\ w.kept = req[x].kept
    BY <1>8, DeleteDoes
  <2>3. applied'[m] = applied[m] \/ (m = req[x].m /\ applied'[m] = applied[m] + 1)
    BY <2>1, CountType
  <2> QED BY <1>0, <2>1, <2>2, <2>3, GuardGoesAny
<1>9. ASSUME Insert(x) PROVE Guarded(m)'
  <2>1. UNCHANGED <<receipts, storing>> /\ req[x].pc = "insert" /\ applied' = Count(x)
    BY <1>9 DEF Insert
  <2>2. PICK w : GoesTo(x, w) /\ w.pc = "after" /\ w.kept = req[x].kept
    BY <1>9, InsertDoes
  <2>3. applied'[m] = applied[m] \/ (m = req[x].m /\ applied'[m] = applied[m] + 1)
    BY <2>1, CountType
  <2>4. m # req[x].m => applied'[m] = applied[m]
    BY <2>3
  <2> QED BY <1>0, <2>1, <2>2, <2>3, <2>4, GuardGoesAny
<1>10. ASSUME Throws(x) PROVE Guarded(m)'
  <2>1. UNCHANGED <<applied, receipts, storing>> /\ Tell(x, "queued")
    BY <1>10 DEF Throws
  <2>2. m = req[x].m => req[x].pc \notin {"lookup", "after"}
    BY <1>0, <1>10 DEF Throws
  <2> QED BY <1>0, <2>1, <2>2, GuardTellAny
<1>11. ASSUME Answer(x) PROVE Guarded(m)'
  <2>1. UNCHANGED <<applied, receipts>> /\ Tell(x, "done") /\ req[x].pc = "after"
        /\ storing' = IF req[x].kept THEN storing \cup {req[x].m} ELSE storing
    BY <1>11 DEF Answer, Keeps, effects
  <2>2. m = req[x].m => m \in storing'
    BY <1>0, <2>1
  <2>3. m # req[x].m => (m \in storing' <=> m \in storing)
    BY <2>1
  <2> QED BY <2>1, <2>2, <2>3, GuardTellAny
<1> QED BY <1>1, <1>2, <1>3, <1>4, <1>5, <1>6, <1>7, <1>8, <1>9, <1>10, <1>11 DEF RequestStep

LEMMA GuardStep ==
  ASSUME OfflineTypes, OnceByReceipt, Next PROVE OnceByReceipt'
<1> SUFFICES ASSUME NEW m \in Mutations, m \notin unsafe' PROVE Guarded(m)'
  <2>1. (\A m \in Mutations \ unsafe' : Guarded(m)') => OnceByReceipt'
    BY DEF OnceByReceipt, Guarded
  <2> QED BY <2>1
<1>0. m \notin unsafe
  <2>1. unsafe \subseteq unsafe'
    BY DEF Next, FeedStep, ClientStep, RequestStep, ReceiptStep, Tick, ReadRows, ReadTombs, Apply, PullLost, Queue,
           GiveUp, Send, Online, Lookup, LookupFails, Load, Claim, Write, Record, Delete, Insert, Throws, Answer,
           Store, StoreFails, Crash, effects
  <2> QED BY <2>1
<1>1. /\ Guarded(m) /\ m # None /\ req \in [Requests -> Request] /\ mut \in [Mutations -> Mutation]
      /\ \A x \in Requests : req[x].m = m => mut[m].state # "none"
  BY <1>0, GuardedAll, NoneApart DEF OfflineTypes, RequestsOK, About
<1>2. CASE Tick \/ FeedStep
  <2>1. UNCHANGED <<req, mut, applied, receipts, storing>>
    BY <1>2 DEF Tick, FeedStep, ReadRows, ReadTombs, Apply, PullLost, effects
  <2> QED BY <1>1, <2>1, GuardOther
<1>3. ASSUME NEW k \in Mutations, Queue(k) PROVE Guarded(m)'
  <2>1. UNCHANGED <<req, applied, receipts, storing>>
    BY <1>3 DEF Queue, effects
  <2>2. CASE m # k
    <3>1. mut'[m] = mut[m]
      BY <1>1, <1>3, <2>2, QueueDoes
    <3> QED BY <1>1, <2>1, <3>1, GuardOther
  <2>3. CASE m = k
    <3>1. mut[m].state = "none" /\ mut'[m].state = "queued"
      BY <1>1, <1>3, <2>3, QueueDoes
    <3> QED BY <1>1, <2>1, <3>1 DEF Guarded
  <2> QED BY <2>2, <2>3
<1>4. ASSUME NEW k \in Mutations, GiveUp(k) PROVE Guarded(m)'
  <2>1. UNCHANGED <<req, applied, receipts, storing>> /\ mut'[m].state = mut[m].state
    BY <1>1, <1>4 DEF GiveUp, effects, Mutation
  <2> QED BY <1>1, <2>1, GuardOther
<1>5. ASSUME NEW k \in Mutations, NEW x \in Requests, Send(x, k) PROVE Guarded(m)'
  <2>1. /\ UNCHANGED <<applied, receipts, storing>> /\ mut'[m].state = mut[m].state
        /\ (\A y \in Requests \ {x} : req'[y] = req[y]) /\ req'[x].m = k /\ req'[x].pc = "lookup"
        /\ req[x].pc = "idle" /\ mut[k].state = "queued"
    BY <1>1, <1>5 DEF Send, Mutation, Idle
  <2>2. req[x].m = None
    BY <2>1 DEF OfflineTypes, RequestsOK, ReqOK
  <2>3. CASE m # k
    BY <1>1, <2>1, <2>2, <2>3, GuardOther
  <2>4. CASE m = k
    <3>1. ~InFlight(m)
      BY <1>5, <2>4 DEF Send
    <3>2. m \notin storing /\ \A y \in Requests : req[y].m # m
      BY <1>1, <2>2, <3>1 DEF InFlight, OfflineTypes, RequestsOK, ReqOK
    <3>3. \A y \in Requests : req'[y].m = m => y = x
      BY <2>1, <3>2
    <3> QED BY <1>1, <2>1, <2>4, <3>2, <3>3 DEF Guarded
  <2> QED BY <2>3, <2>4
<1>6. ASSUME NEW x \in Requests, RequestStep(x) PROVE Guarded(m)'
  BY <1>1, <1>6, GuardRequest
<1>7. ASSUME NEW k \in Mutations, Store(k) PROVE Guarded(m)'
  <2>1. UNCHANGED <<req, mut, applied>> /\ k \in storing /\ storing' = storing \ {k} /\ receipts' = receipts \cup {k}
    BY <1>7 DEF Store, effects
  <2> QED BY <1>1, <2>1 DEF Guarded
<1>8. ASSUME NEW k \in Mutations, StoreFails(k) PROVE Guarded(m)'
  <2>1. UNCHANGED <<req, mut, applied, receipts>> /\ storing' = storing \ {k} /\ m # k
    BY <1>8 DEF StoreFails
  <2> QED BY <1>1, <2>1, GuardOther
<1>9. CASE Crash
  <2>1. UNCHANGED <<applied, receipts>> /\ m \notin storing /\ m \notin storing' /\ mut'[m].state = mut[m].state
        /\ \A y \in Requests : req'[y].m = None
    BY <1>1, <1>9, IdleType DEF Crash, Mutation
  <2>2. \A y \in Requests : ~(req[y].m = m /\ req[y].pc = "after")
    BY <1>1, <1>9 DEF Crash
  <2> QED BY <1>1, <2>1, <2>2 DEF Guarded
<1> QED BY <1>2, <1>3, <1>4, <1>5, <1>6, <1>7, <1>8, <1>9 DEF Next, ClientStep, ReceiptStep

(* Only a mutation's answer is kept. *)
LEMMA KeptStep ==
  ASSUME OfflineTypes, KeptOK, Next PROVE KeptOK'
<1> SUFFICES ASSUME NEW x \in Requests, req'[x].kept PROVE req'[x].m # None
  BY DEF KeptOK
<1>1. CASE req'[x] = req[x]
  BY <1>1 DEF KeptOK
<1>2. ASSUME NEW w, GoesTo(x, w), w.kept = req[x].kept \/ req[x].m \in Mutations PROVE req'[x].m # None
  <2>1. req'[x] = w /\ w.m = req[x].m
    BY <1>2, MovesGoes
  <2> QED BY <1>2, <2>1, NoneApart DEF KeptOK
<1>3. ASSUME NEW state, Tell(x, state) PROVE FALSE
  <2>1. req'[x] = Idle
    BY <1>3 DEF Tell, OfflineTypes, RequestsOK
  <2> QED BY <2>1 DEF Idle
<1>4. CASE Crash
  BY <1>4 DEF Crash, Idle
<1>5. ASSUME RequestStep(x) PROVE req'[x].m # None
  <2>1. ASSUME NEW kind \in Kinds, NEW i \in Ids \cup {None}, Online(x, kind, i) PROVE FALSE
    <3>1. PICK w \in Request : req' = [req EXCEPT ![x] = w] /\ ~w.kept
      BY <2>1, OnlineDoes
    <3> QED BY <3>1 DEF OfflineTypes, RequestsOK
  <2>2. CASE Lookup(x) \/ LookupFails(x)
    BY <1>2, <1>3, <2>2, LookupDoes, LookupFailsDoes
  <2>3. CASE Load(x) \/ Claim(x)
    BY <1>2, <1>3, <2>3, LoadDoes, ClaimDoes
  <2>4. CASE Write(x)
    BY <1>2, <1>3, <2>4, WriteDoes
  <2>5. CASE Record(x) \/ Delete(x) \/ Insert(x)
    BY <1>2, <2>5, RecordDoes, DeleteDoes, InsertDoes
  <2>6. CASE Throws(x) \/ Answer(x)
    BY <1>3, <2>6 DEF Throws, Answer
  <2> QED BY <1>5, <2>1, <2>2, <2>3, <2>4, <2>5, <2>6 DEF RequestStep
<1>6. ASSUME NEW y \in Requests, y # x, RequestStep(y) PROVE req'[x] = req[x]
  BY <1>6, RequestMoves DEF MoveStep
<1>7. ASSUME NEW m \in Mutations, NEW y \in Requests, Send(y, m) PROVE req'[x].m # None
  <2>1. CASE y = x
    BY <1>7, <2>1, NoneApart DEF Send, OfflineTypes, RequestsOK, Idle
  <2>2. CASE y # x
    <3>1. req'[x] = req[x]
      BY <1>7, <2>2 DEF Send, OfflineTypes, RequestsOK
    <3> QED BY <1>1, <3>1
  <2> QED BY <2>1, <2>2
<1>8. ASSUME Tick \/ FeedStep \/ ReceiptStep \/ \E m \in Mutations : Queue(m) \/ GiveUp(m) PROVE req'[x] = req[x]
  BY <1>8 DEF Tick, FeedStep, ReadRows, ReadTombs, Apply, PullLost, ReceiptStep, Store, StoreFails, Queue, GiveUp
<1> QED BY <1>1, <1>4, <1>5, <1>6, <1>7, <1>8 DEF Next, ClientStep

(* What was done stays done. *)
LEMMA EffectedStays ==
  ASSUME OfflineTypes, OfflineTypes', Clock, Next, NEW m \in Mutations, mut[m].state # "none", Effected(m)
  PROVE  Effected(m)' /\ mut'[m].state # "none"
<1>1. mut'[m].state # "none" /\ mut'[m].kind = mut[m].kind /\ mut'[m].id = mut[m].id
  <2>1. CASE Kept(mut'[m], mut[m])
    BY <2>1 DEF Kept, SameAs
  <2>2. ASSUME NEW k \in Mutations, Queue(k) PROVE mut'[m] = mut[m]
    BY <2>2, QueueDoes DEF OfflineTypes, RequestsOK
  <2> QED BY <2>1, <2>2, MutSteps DEF MoveStep, MutsKept
<1>2. applied[m] > 0 => applied'[m] > 0
  <2>1. applied[m] \in Nat
    BY DEF OfflineTypes, DataOK
  <2> QED BY <2>1, AppliedSteps
<1>3. ASSUME NEW i \in Ids, row[i].status = "gone" PROVE row'[i].status = "gone"
  <2>1. CASE FeedStep \/ OnlyTime
    BY <1>3, <2>1 DEF FeedStep, ReadRows, ReadTombs, Apply, PullLost, OnlyTime
  <2>2. ASSUME NEW x \in Requests, Delete(x) PROVE row'[i].status = "gone"
    BY <1>3, <2>2, DeleteDoes
  <2>3. ASSUME NEW x \in Requests, Record(x) PROVE row'[i].status = "gone"
    BY <1>3, <2>3 DEF Record
  <2>4. ASSUME NEW x \in Requests, NEW j \in Ids, Written(x, j) PROVE row'[i].status = "gone"
    BY <1>3, <2>4 DEF Written
  <2> QED BY <2>1, <2>2, <2>3, <2>4, FeedSteps
<1>4. mut[m].kind = "delete" => mut[m].id \in Ids
  BY DEF OfflineTypes, RequestsOK, MutOK
<1> QED BY <1>1, <1>2, <1>3, <1>4 DEF Effected

(* A receipt is on its way, and the client hears a success, from a request that is done. *)
LEMMA ToldBefore ==
  ASSUME OfflineTypes, Next, NEW m \in Mutations, m \in receipts' \cup storing' \/ mut'[m].state = "done"
  PROVE  m \in receipts \cup storing \/ mut[m].state = "done" \/ \E x \in Requests : req[x].m = m /\ req[x].pc = "after"
<1>0. mut \in [Mutations -> Mutation]
  BY DEF OfflineTypes, RequestsOK
<1>1. ASSUME NEW x \in Requests, NEW state \in {"queued", "done", "refused"}, Tell(x, state)
      PROVE  mut'[m].state = mut[m].state \/ (m = req[x].m /\ mut'[m].state = state)
  BY <1>1, TellMuts DEF OfflineTypes
<1>2. ASSUME UNCHANGED <<receipts, storing>>, mut'[m].state = mut[m].state \/ mut'[m].state # "done"
      PROVE  m \in receipts \cup storing \/ mut[m].state = "done"
  BY <1>2
<1>3. ASSUME Tick \/ FeedStep PROVE UNCHANGED <<receipts, storing, mut>>
  BY <1>3 DEF Tick, FeedStep, ReadRows, ReadTombs, Apply, PullLost
<1>4. ASSUME NEW k \in Mutations, Queue(k)
      PROVE  UNCHANGED <<receipts, storing>> /\ (mut'[m].state = mut[m].state \/ mut'[m].state # "done")
  <2>1. UNCHANGED <<receipts, storing>>
    BY <1>4 DEF Queue
  <2>2. mut'[m] = mut[m] \/ mut'[m].state = "queued"
    BY <1>0, <1>4, QueueDoes
  <2> QED BY <2>1, <2>2
<1>5. ASSUME NEW k \in Mutations, GiveUp(k) \/ \E x \in Requests : Send(x, k)
      PROVE  UNCHANGED <<receipts, storing>> /\ mut'[m].state = mut[m].state
  BY <1>0, <1>5 DEF GiveUp, Send, Mutation
<1>6. ASSUME NEW k \in Mutations, Store(k) \/ StoreFails(k)
      PROVE  UNCHANGED mut /\ (m \in receipts' \cup storing' => m \in receipts \cup storing)
  BY <1>6 DEF Store, StoreFails
<1>7. CASE Crash
  <2>1. mut'[m].state = mut[m].state /\ receipts' = receipts /\ storing' = {}
    BY <1>0, <1>7 DEF Crash, Mutation
  <2> QED BY <2>1
<1>8. ASSUME NEW x \in Requests, RequestStep(x)
      PROVE  m \in receipts \cup storing \/ mut[m].state = "done" \/ \E y \in Requests : req[y].m = m /\ req[y].pc = "after"
  <2>1. ASSUME NEW kind \in Kinds, NEW i \in Ids \cup {None}, Online(x, kind, i)
        PROVE  UNCHANGED <<receipts, storing, mut>>
    BY <2>1 DEF Online
  <2>2. CASE Lookup(x)
    <3>1. UNCHANGED <<receipts, storing>> /\ (UNCHANGED mut \/ (req[x].m \in receipts /\ Tell(x, "done")))
      BY <2>2, LookupDoes DEF Lookup, GoesTo
    <3> QED BY <1>1, <1>2, <3>1
  <2>3. CASE LookupFails(x) \/ Record(x) \/ Delete(x) \/ Insert(x)
    <3>1. UNCHANGED <<receipts, storing, mut>>
      BY <2>3, LookupFailsDoes DEF LookupFails, GoesTo, Record, Delete, Insert
    <3> QED BY <1>2, <3>1
  <2>4. CASE Load(x) \/ Claim(x) \/ Write(x) \/ Throws(x)
    <3>1. UNCHANGED <<receipts, storing>> /\ (UNCHANGED mut \/ Tell(x, "refused") \/ Tell(x, "queued"))
      BY <2>4 DEF Load, Claim, Write, Throws
    <3>2. mut'[m].state = mut[m].state \/ mut'[m].state \in {"refused", "queued"}
      BY <1>1, <3>1
    <3> QED BY <1>2, <3>1, <3>2
  <2>5. CASE Answer(x)
    <3>1. Tell(x, "done") /\ receipts' = receipts /\ storing' \subseteq storing \cup {req[x].m} /\ req[x].pc = "after"
      BY <2>5 DEF Answer
    <3> QED BY <1>1, <3>1
  <2> QED BY <1>2, <1>8, <2>1, <2>2, <2>3, <2>4, <2>5 DEF RequestStep
<1> QED BY <1>2, <1>3, <1>4, <1>5, <1>6, <1>7, <1>8 DEF Next, ClientStep, ReceiptStep

(* A request comes to its end by having done what its mutation asks for. *)
LEMMA AfterDone ==
  ASSUME OfflineTypes, OfflineTypes', Next, NEW m \in Mutations, NEW x \in Requests, req'[x].m = m, req'[x].pc = "after",
         ~(req[x].m = m /\ req[x].pc = "after")
  PROVE  Effected(m)'
<1>0. req \in [Requests -> Request] /\ m # None /\ applied[m] \in Nat
  BY NoneApart DEF OfflineTypes, RequestsOK, DataOK
<1>1. CASE RequestStep(x)
  <2>1. CASE Write(x) \/ Insert(x)
    <3>0. ASSUME NEW w, GoesTo(x, w) PROVE req[x].m = m
      BY <3>0, MovesGoes
    <3>1. req[x].m = m /\ applied' = Count(x)
      <4>1. CASE Insert(x)
        BY <3>0, <4>1, InsertDoes
      <4>2. CASE Write(x)
        <5>1. ~Tell(x, "queued")
          <6>1. Tell(x, "queued") => req'[x] = Idle
            BY <1>0 DEF Tell
          <6> QED BY <6>1, IdleType
        <5> QED BY <3>0, <4>2, <5>1, WriteDoes
      <4> QED BY <2>1, <4>1, <4>2
    <3>2. applied'[m] = applied[m] + 1
      BY <3>1, CountType
    <3> QED BY <1>0, <3>2 DEF Effected
  <2>2. CASE Delete(x)
    <3>0. PICK w : GoesTo(x, w) /\ w.pc = "after"
      BY <2>2, DeleteDoes
    <3>1. req[x].m = m /\ req[x].id \in Ids /\ row'[req[x].id].status = "gone" /\ UNCHANGED mut /\ req[x].kind = "delete"
      <4>1. req[x].m = m
        BY <3>0, MovesGoes
      <4>2. req[x].id \in Ids /\ row'[req[x].id].status = "gone" /\ req[x].pc = "delete"
        BY <2>2, DeleteDoes
      <4>3. req[x].kind = "delete" /\ UNCHANGED mut
        BY <2>2, <4>2 DEF Delete, OfflineTypes, RequestsOK, ReqOK
      <4> QED BY <4>1, <4>2, <4>3
    <3>2. mut[m].kind = "delete" /\ mut[m].id = req[x].id
      BY <1>0, <3>1 DEF OfflineTypes, RequestsOK, About
    <3> QED BY <3>1, <3>2 DEF Effected
  <2>3. ASSUME NEW state, Tell(x, state) PROVE FALSE
    <3>1. req'[x] = Idle
      BY <1>0, <2>3 DEF Tell
    <3> QED BY <3>1, IdleType
  <2>4. ASSUME NEW w, GoesTo(x, w), w.pc # "after" PROVE FALSE
    BY <2>4, MovesGoes
  <2>5. ASSUME NEW kind \in Kinds, NEW i \in Ids \cup {None}, Online(x, kind, i) PROVE FALSE
    <3>1. PICK w \in Request : req' = [req EXCEPT ![x] = w] /\ w.m = None
      BY <2>5, OnlineDoes
    <3> QED BY <1>0, <3>1
  <2>6. ~Lookup(x)
    <3>1. Lookup(x) => Tell(x, "done") \/ \E w : GoesTo(x, w) /\ w.pc = Handler(req[x].kind)
      BY LookupDoes
    <3> QED BY <2>3, <2>4, <3>1 DEF Handler
  <2>7. ~LookupFails(x)
    <3>1. LookupFails(x) => \E w : GoesTo(x, w) /\ w.pc = Handler(req[x].kind)
      BY LookupFailsDoes
    <3> QED BY <2>4, <3>1 DEF Handler
  <2>8. ~Load(x)
    <3>1. Load(x) => Tell(x, "refused") \/ \E w : GoesTo(x, w) /\ w.pc = "claim"
      BY LoadDoes
    <3> QED BY <2>3, <2>4, <3>1
  <2>9. ~Claim(x)
    <3>1. Claim(x) => Tell(x, "refused") \/ \E w : GoesTo(x, w) /\ w.pc = Work(req[x].kind)
      BY ClaimDoes
    <3> QED BY <2>3, <2>4, <3>1 DEF Work
  <2>10. ~Record(x)
    <3>1. Record(x) => \E w : GoesTo(x, w) /\ w.pc = "delete"
      BY RecordDoes
    <3> QED BY <2>4, <3>1
  <2>11. ~Throws(x) /\ ~Answer(x)
    BY <2>3 DEF Throws, Answer
  <2> QED BY <1>1, <2>1, <2>2, <2>5, <2>6, <2>7, <2>8, <2>9, <2>10, <2>11 DEF RequestStep
<1>2. CASE ~RequestStep(x)
  <2>1. req'[x] # req[x]
    OBVIOUS
  <2>2. ASSUME NEW y \in Requests, RequestStep(y) PROVE FALSE
    <3>1. y # x /\ MoveStep(y)
      BY <1>2, <2>2, RequestMoves
    <3> QED BY <2>1, <3>1 DEF MoveStep
  <2>3. ASSUME NEW k \in Mutations, NEW y \in Requests, Send(y, k) PROVE FALSE
    <3>1. req'[x] = req[x] \/ req'[x].pc = "lookup"
      BY <1>0, <2>3 DEF Send, Idle
    <3> QED BY <2>1, <3>1
  <2>4. CASE Crash
    BY <2>4 DEF Crash, Idle
  <2>5. ASSUME Tick \/ FeedStep \/ ReceiptStep \/ \E k \in Mutations : Queue(k) \/ GiveUp(k) PROVE req' = req
    BY <2>5 DEF Tick, FeedStep, ReadRows, ReadTombs, Apply, PullLost, ReceiptStep, Store, StoreFails, Queue, GiveUp
  <2> QED BY <2>1, <2>2, <2>3, <2>4, <2>5 DEF Next, ClientStep
<1> QED BY <1>1, <1>2

LEMMA AnswersStep ==
  ASSUME OfflineTypes, OfflineTypes', FeedInv, ReceiptInv, Next PROVE AnswersSound'
<1>0. Clock /\ AnswersSound
  BY DEF FeedInv, ReceiptInv
<1> SUFFICES ASSUME NEW m \in Mutations
             PROVE  /\ m \in receipts' \cup storing' \/ mut'[m].state = "done" => Effected(m)' /\ mut'[m].state # "none"
                    /\ \A x \in Requests : req'[x].m = m /\ req'[x].pc = "after" => Effected(m)'
                    /\ mut'[m].state = "none" => applied'[m] = 0
  BY DEF AnswersSound
<1>1. m # None /\ \A x \in Requests : req[x].m = m => mut[m].state # "none"
  BY NoneApart DEF OfflineTypes, RequestsOK, About
<1>2. ASSUME m \in receipts \cup storing \/ mut[m].state = "done" \/ \E x \in Requests : req[x].m = m /\ req[x].pc = "after"
      PROVE  Effected(m)' /\ mut'[m].state # "none"
  <2>1. Effected(m) /\ mut[m].state # "none"
    BY <1>0, <1>1, <1>2 DEF AnswersSound
  <2> QED BY <1>0, <2>1, EffectedStays
<1>3. m \in receipts' \cup storing' \/ mut'[m].state = "done" => Effected(m)' /\ mut'[m].state # "none"
  BY <1>2, ToldBefore
<1>4. ASSUME NEW x \in Requests, req'[x].m = m, req'[x].pc = "after" PROVE Effected(m)'
  BY <1>2, <1>4, AfterDone
<1>5. ASSUME mut'[m].state = "none" PROVE applied'[m] = 0
  <2>1. mut[m].state = "none"
    <3>1. ASSUME Kept(mut'[m], mut[m]) PROVE mut[m].state = "none"
      BY <1>5, <3>1 DEF Kept, SameAs
    <3>2. ASSUME NEW k \in Mutations, Queue(k) PROVE mut[m].state = "none"
      <4>1. mut'[m] = mut[m] \/ mut'[m].state = "queued"
        BY <3>2, QueueDoes DEF OfflineTypes, RequestsOK
      <4> QED BY <1>5, <4>1
    <3> QED BY <3>1, <3>2, MutSteps DEF MoveStep, MutsKept
  <2>2. applied'[m] = applied[m]
    BY <1>1, <2>1, AppliedSteps
  <2> QED BY <1>0, <2>1, <2>2 DEF AnswersSound
<1> QED BY <1>3, <1>4, <1>5

LEMMA ReceiptStepHolds ==
  ASSUME OfflineTypes, OfflineTypes', FeedInv, ReceiptInv, Next PROVE ReceiptInv'
BY GuardStep, AnswersStep DEF ReceiptInv

(***************************************************************************)
(* Together.                                                               *)
(***************************************************************************)
Inv == OfflineTypes /\ KeptOK /\ FeedInv /\ VersionInv /\ ReceiptInv

LEMMA InitInv == Init => Inv
<1> SUFFICES ASSUME Init PROVE Inv
  OBVIOUS
<1>1. OfflineTypes /\ FeedInv
  BY InitTypes, InitFeed
<1>2. \A x \in Requests : req[x].m = None /\ ~req[x].kept /\ req[x].pc = "idle"
  BY DEF Init, Idle
<1>3. \A m \in Mutations : mut[m].state = "none" /\ applied[m] = 0
  BY DEF Init, NoMutation
<1>4. \A i \in Ids : copy[i].ver = 0
  BY DEF Init, NoCopy
<1>5. pull.rows = {} /\ receipts = {} /\ storing = {}
  BY DEF Init, NoPull
<1>6. VersionInv
  BY <1>2, <1>3, <1>4, <1>5 DEF VersionInv, SeenSound, ClaimSound, OnceByVersion, Past
<1>7. ReceiptInv
  <2>1. \A x \in Requests : req[x].m \notin Mutations
    BY <1>2, NoneApart
  <2> QED BY <1>3, <1>5, <2>1 DEF ReceiptInv, OnceByReceipt, AnswersSound
<1>8. KeptOK
  BY <1>2 DEF KeptOK
<1> QED BY <1>1, <1>6, <1>7, <1>8 DEF Inv

LEMMA NextTypes == ASSUME OfflineTypes, KeptOK, Next PROVE OfflineTypes'
<1>1. ASSUME NEW x \in Requests, RequestStep(x) PROVE OfflineTypes'
  <2>1. ASSUME NEW kind \in Kinds, NEW i \in Ids \cup {None}, Online(x, kind, i) PROVE OfflineTypes'
    BY <2>1, OnlineTypes
  <2> QED BY <1>1, <2>1, LookupTypes, LookupFailsTypes, LoadTypes, ClaimTypes, WriteTypes, RecordTypes, DeleteTypes,
             InsertTypes, ThrowsTypes, AnswerTypes DEF RequestStep
<1> QED BY <1>1, TickTypes, ReadRowsTypes, ReadTombsTypes, ApplyTypes, PullLostTypes, QueueTypes, GiveUpTypes, SendTypes,
           StoreTypes, CrashTypes DEF Next, FeedStep, ClientStep, ReceiptStep

LEMMA StutterInv == ASSUME Inv, UNCHANGED vars PROVE Inv'
<1>1. OfflineTypes'
  BY DEF Inv, vars, client, versions, ghosts, effects, OfflineTypes, RequestsOK, DataOK, PullOK
<1>2. KeptOK'
  BY DEF Inv, vars, KeptOK
<1>3. FeedInv'
  BY DEF Inv, vars, client, versions, ghosts, effects, FeedInv, Clock, NothingSkipped, PageSound, TakenAway, Marked,
         Marking, DeletionsArrive, DeletionsPaged, GoneInPage, PageEmpty, Documents, Pos, Untouched
<1>4. VersionInv'
  BY DEF Inv, vars, client, versions, ghosts, effects, VersionInv, SeenSound, Seen, ClaimSound, Past, OnceByVersion
<1>5. ReceiptInv'
  BY DEF Inv, vars, client, versions, ghosts, effects, ReceiptInv, OnceByReceipt, AnswersSound, Effected
<1> QED BY <1>1, <1>2, <1>3, <1>4, <1>5 DEF Inv

LEMMA StepInv == Inv /\ [Next]_vars => Inv'
<1>1. ASSUME Inv, Next PROVE Inv'
  <2>1. OfflineTypes'
    BY <1>1, NextTypes DEF Inv
  <2> QED BY <1>1, <2>1, KeptStep, FeedStepHolds, VersionStepHolds, ReceiptStepHolds DEF Inv
<1> QED BY <1>1, StutterInv

LEMMA InvHolds == Spec => []Inv
BY InitInv, StepInv, PTL DEF Spec

(* OfflineTypes: every variable holds what the code may put there, and a page of the feed is no longer than its limit (the   *)
(* limit + 1 rows that readEntityChanges reads, less the one read ahead).                                             *)
THEOREM OfflineTypesHold == Spec => []TypeOK
<1>1. Inv => TypeOK
  BY TypesImply DEF Inv
<1> QED BY <1>1, InvHolds, PTL

(* The feed (readEntityChanges, readTombstones, nextCursor) leaves nothing out: a lead the cursor has passed is in    *)
(* the copy as it is in the database, and the tombstone of a lead the copy still has is ahead of the cursor, but for  *)
(* the exceptions the two properties name: a write that lands late, a tombstone lost or cut off, a deletion that      *)
(* overlaps a pull.                                                                                                   *)
THEOREM FeedIsComplete == Spec => []FeedComplete
<1>1. Inv => FeedComplete
  BY DEF Inv, FeedInv, FeedComplete
<1> QED BY <1>1, InvHolds, PTL

(* A mutation takes effect once, however often it is sent, and what the client is told of it is so: an edit or a      *)
(* deletion because claimVersion moves the version, a creation because of its receipt.                                *)
THEOREM MutationsAreSound == Spec => []MutationsSound
<1>1. Inv => MutationsSound
  <2> SUFFICES ASSUME Inv PROVE MutationsSound
    OBVIOUS
  <2>1. AppliedOnce
    <3> SUFFICES ASSUME NEW m \in Mutations, applied[m] > 1
                 PROVE  IF mut[m].kind = "create" THEN m \in unsafe ELSE mut[m].id \in blurred
      BY DEF AppliedOnce
    <3>1. applied[m] \in Nat /\ ~(applied[m] <= 1)
      BY DEF Inv, OfflineTypes, DataOK
    <3>2. mut[m].state # "none"
      BY <3>1 DEF Inv, ReceiptInv, AnswersSound
    <3> QED BY <3>1, <3>2 DEF Inv, VersionInv, OnceByVersion, ReceiptInv, OnceByReceipt
  <2>2. AnswersTrue
    <3> SUFFICES ASSUME NEW m \in Mutations
                 PROVE  /\ mut[m].state = "done" =>
                             applied[m] > 0 \/ (mut[m].kind = "delete" /\ row[mut[m].id].status = "gone")
                        /\ mut[m].state = "refused" /\ applied[m] > 0 => m \in unsafe
      BY DEF AnswersTrue
    <3>1. mut[m].state = "done" => Effected(m)
      BY DEF Inv, ReceiptInv, AnswersSound
    <3>2. mut[m].state = "refused" /\ m \notin unsafe => applied[m] = 0
      BY DEF Inv, ReceiptInv, OnceByReceipt
    <3> QED BY <3>1, <3>2 DEF Effected
  <2> QED BY <2>1, <2>2 DEF MutationsSound
<1> QED BY <1>1, InvHolds, PTL

(* The write of a mutation (lead.save after claimVersion) lands on the content the mutation was made against, unless  *)
(* another user wrote between its claim and its save, or a version of the lead was no later than the one before.      *)
THEOREM BaseIsKept == Spec => BaseKept
<1>1. Inv => \A x \in Requests :
               req[x].pc = "write" /\ req[x].m # None =>
                 LET i == req[x].id IN
                 \/ row[i].ver = mut[req[x].m].base
                 \/ row[i].at # req[x].held
                 \/ i \in blurred
  BY DEF Inv, VersionInv, ClaimSound, Past, Seen
<1>2. Inv => [\A x \in Requests :
                req[x].pc = "write" /\ req[x].m # None /\ req'[x].pc = "after" =>
                  LET i == req[x].id IN
                  \/ row[i].ver = mut[req[x].m].base
                  \/ row[i].at # req[x].held
                  \/ i \in blurred]_req
  BY <1>1
<1> QED BY <1>2, InvHolds, PTL DEF BaseKept

(* While the client or the import is at work the other stands still, so whatever either keeps *)
(* on its own it keeps beside the other.                                                      *)
THEOREM ExchangeStepEither == ExchangeSpec => Spec /\ ImportSpec
<1>1. ExchangeInit => Init /\ ImportInit
  BY DEF ExchangeInit
<1>2. [ExchangeNext]_<<side, vars, importVars>> => [Next]_vars /\ [ImportNext]_importVars
  BY Zenon DEF ExchangeNext
<1> QED BY <1>1, <1>2, PTL DEF ExchangeSpec, Spec, ImportSpec

(* The leads, receipts, requests, the job, the address book and the calls hold what the code  *)
(* may put there.                                                                             *)
THEOREM ExchangeTypesHold == ExchangeSpec => []ExchangeTypes
<1>1. TypeOK /\ ImportTypes => ExchangeTypes
  BY DEF ExchangeTypes
<1> QED BY <1>1, ExchangeStepEither, OfflineTypesHold, ImportTypesHold, PTL
=============================================================================

------------------------ MODULE MailboxRegistry_proofs ------------------------
(****************************************************************************)
(* Types of the registry of mailboxes; the default a user sends from; the    *)
(* default an administrator gives him; the end of the credentials.           *)
(****************************************************************************)
EXTENDS MCMailbox, MailSync_proofs

Kinds == {"connect", "adopt", "disconnect", "choose", "refresh", "validate",
          "assign", "unassign", "prefer"}

Steps == {"grant", "upsert", "load", "record", "exists", "current", "replace", "drop", "target",
          "clear", "set", "revoke", "purge", "mark", "close", "unflag", "valid", "evaluate", "renew",
          "probe", "edit", "save", "pull", "add"}

Settling == {"current", "replace", "drop", "target", "clear", "set"}

(* Where a call of each kind may be, spelled out. *)
InPlace(w) ==
  /\ w.kind = "connect" => w.pc \in {"grant", "upsert", "load", "record", "exists"} \cup Settling
  /\ w.kind = "adopt" => w.pc \in {"upsert", "load", "record"} \cup Settling
  /\ w.kind = "disconnect" => w.pc \in {"load", "revoke", "purge", "mark", "close", "unflag"} \cup Settling
  /\ w.kind = "choose" => w.pc \in {"target", "clear", "set"}
  /\ w.kind = "refresh" => w.pc \in {"valid", "evaluate", "renew", "mark"}
  /\ w.kind = "validate" => w.pc \in {"probe", "mark"}
  /\ w.kind \in {"assign", "unassign"} => w.pc \in {"edit", "save"}
  /\ w.kind = "prefer" => w.pc \in {"edit", "pull", "add"}

LEMMA PlacesAre ==
  /\ DOMAIN Places = Kinds
  /\ \A w : w.kind \in Kinds => (w.pc \in Places[w.kind] <=> InPlace(w))
  /\ UNION {Places[k] : k \in DOMAIN Places} = Steps
<1>1. DOMAIN Places = Kinds
  BY DEF Places, Kinds
<1>2. /\ Places["connect"] = {"grant", "upsert", "load", "record", "exists"} \cup Settling
      /\ Places["adopt"] = {"upsert", "load", "record"} \cup Settling
      /\ Places["disconnect"] = {"load", "revoke", "purge", "mark", "close", "unflag"} \cup Settling
      /\ Places["choose"] = {"target", "clear", "set"}
      /\ Places["refresh"] = {"valid", "evaluate", "renew", "mark"}
      /\ Places["validate"] = {"probe", "mark"}
      /\ Places["assign"] = {"edit", "save"} /\ Places["unassign"] = {"edit", "save"}
      /\ Places["prefer"] = {"edit", "pull", "add"}
  BY DEF Places, Settling
<1>3. \A w : w.kind \in Kinds => (w.pc \in Places[w.kind] <=> InPlace(w))
  BY <1>2 DEF Kinds, InPlace
<1>4. UNION {Places[k] : k \in DOMAIN Places} = Steps
  <2>1. \A k \in Kinds : Places[k] \subseteq Steps
    BY <1>2 DEF Kinds, Steps, Settling
  <2>2. \A s \in Steps : \E k \in Kinds : s \in Places[k]
    BY <1>2 DEF Kinds, Steps, Settling
  <2> QED BY <1>1, <2>1, <2>2
<1> QED BY <1>1, <1>3, <1>4

(* A call at work. *)
Working ==
  [pc : Steps, kind : Kinds, of : Boxes, who : Users, tok : Credential, status : Statuses,
   cur : Boxes \cup {NoBox}, to : Boxes \cup {NoBox}, list : SUBSET Users, defs : SUBSET Users,
   alone : BOOLEAN, sole : BOOLEAN]

LEMMA CallIs == Call = Working
BY PlacesAre DEF Call, Working

(* What a call at work knows of its mailboxes: the one it is about was connected, and they
   belong to the user it settles. *)
Sane(w) ==
  /\ InPlace(w)
  /\ w.pc = "drop" => w.cur # NoBox
  /\ w.pc \in {"target", "clear", "set"} => Chosen(w) \in Boxes
  /\ w.pc = "renew" => w.tok.failures < MaxFailures
  /\ w.pc = "mark" => w.status \in IF w.kind = "refresh" THEN {"expired"}
                                    ELSE IF w.kind = "validate" THEN {"connected", "expired"}
                                    ELSE {"disconnected"}
  /\ w.pc = "purge" => w.status = "disconnected"
  /\ w.kind \in {"connect", "adopt", "choose"} => Owner[w.of] = w.who
  /\ w.cur # NoBox => Owner[w.cur] = w.who
  /\ w.to # NoBox => Owner[w.to] = w.who

Reached(w) ==
  /\ w.pc \notin {"grant", "upsert", "edit"} => box[w.of].status # "absent"
  /\ w.to # NoBox => box[w.to].status # "absent"

CallsSane == \A c \in Calls : call[c] # Idle => Sane(call[c]) /\ Reached(call[c])

Recorded == RegistryTypes /\ CallsSane

(* What the types say, in the form the steps need it. *)
LEMMA TypeFacts ==
  ASSUME Recorded
  PROVE  /\ box \in [Boxes -> Mailbox] /\ connects \in Nat /\ since \in [Boxes -> 0 .. connects]
         /\ credential \in [Boxes -> Credential] /\ grant \subseteq Boxes
         /\ shaken \subseteq Users /\ doubled \subseteq Users /\ crossed \subseteq Boxes /\ mixed \subseteq Boxes
         /\ unpurged \subseteq Boxes
         /\ call \in [Calls -> Working \cup {Idle}]
         /\ \A c \in Calls : call[c] # Idle => call[c] \in Working /\ Sane(call[c]) /\ Reached(call[c])
         /\ \A c \in Calls : call[c].pc = "idle" <=> call[c] = Idle
         /\ calls \in 0 .. MaxCalls /\ breaks \in 0 .. MaxBreaks
         /\ tries \in [Boxes -> Nat] /\ slips \in [Boxes -> Nat]
         /\ \A b \in Boxes : box[b].status = "absent" => box[b] = Absent /\ credential[b] = NoAccess
<1>1. call \in [Calls -> Working \cup {Idle}]
  BY CallIs DEF Recorded, RegistryTypes
<1>2. \A c \in Calls : call[c] # Idle => call[c] \in Working /\ call[c].pc # "idle"
  BY <1>1 DEF Working, Steps
<1>3. Idle.pc = "idle"
  BY DEF Idle
<1> QED BY <1>1, <1>2, <1>3 DEF Recorded, RegistryTypes, CallsSane

LEMMA TypeGlue ==
  ASSUME box' \in [Boxes -> Mailbox], connects' \in Nat, since' \in [Boxes -> 0 .. connects'],
         credential' \in [Boxes -> Credential], grant' \subseteq Boxes,
         shaken' \subseteq Users, doubled' \subseteq Users,
         crossed' \subseteq Boxes, unpurged' \subseteq Boxes, mixed' \subseteq Boxes,
         call' \in [Calls -> Working \cup {Idle}],
         \A c \in Calls : call'[c] # Idle => Sane(call'[c]) /\ Reached(call[c])',
         calls' \in 0 .. MaxCalls, breaks' \in 0 .. MaxBreaks,
         tries' \in [Boxes -> Nat], slips' \in [Boxes -> Nat],
         \A b \in Boxes : box'[b].status = "absent" => box'[b] = Absent /\ credential'[b] = NoAccess
  PROVE  Recorded'
<1>1. \A c \in Calls : call'[c] # Idle => AtPlace(call'[c])
  <2> SUFFICES ASSUME NEW c \in Calls, call'[c] # Idle PROVE AtPlace(call'[c])
    OBVIOUS
  <2>1. call'[c].kind \in Kinds /\ Sane(call'[c])
    BY DEF Working
  <2> QED BY <2>1, PlacesAre DEF Sane, AtPlace
<1>2. call' \in [Calls -> Call \cup {Idle}]
  BY CallIs
<1>3. RegistryTypes'
  BY <1>1, <1>2 DEF RegistryTypes
<1>4. CallsSane'
  BY DEF CallsSane
<1> QED BY <1>3, <1>4 DEF Recorded

LEMMA NoBoxApart == NoBox \notin Boxes /\ Owner \in [Boxes -> Users] /\ MaxFailures \in Nat \ {0}
BY RegistryAssumption

LEMMA IdleIs ==
  /\ Idle.pc = "idle" /\ Idle.kind = "none" /\ Idle \notin Working
  /\ Idle.tok = NoAccess /\ Idle.cur = NoBox /\ Idle.to = NoBox /\ Idle.alone /\ Idle.sole
  /\ NoAccess \in Credential /\ Minds(Idle) = {}
<1>1. NoAccess \in Credential
  BY RegistryAssumption DEF NoAccess, Credential
<1> QED BY <1>1 DEF Idle, Working, Steps, Minds, Connecting

-------------------------------------------------------------------------------
(* What a step of one call does to the others.                                *)

(* The same call, but for the marks that another one cut across. *)
Like(new, old) ==
  /\ new.pc = old.pc /\ new.kind = old.kind /\ new.of = old.of /\ new.who = old.who
  /\ new.tok = old.tok /\ new.status = old.status /\ new.cur = old.cur /\ new.to = old.to
  /\ new.list = old.list /\ new.defs = old.defs
  /\ new.alone => old.alone
  /\ new.sole => old.sole

(* A call is still what it was. *)
Stays(new, old) ==
  /\ Like(new, old)
  /\ new \in Working \cup {Idle} /\ (new = Idle <=> old = Idle)

Others(c) == \A d \in Calls \ {c} : Stays(call'[d], call[d])

(* The others that were marked: for a mailbox, a credential, the lists of mailboxes. *)
BoxNoted(c, b) ==
  \A d \in Calls \ {c} : call[d].kind \in Linking =>
    /\ call'[d].alone => Owner[b] \notin Minds(call[d])
    /\ call'[d].sole => call[d].of # b
TokenNoted(c, b) ==
  \A d \in Calls \ {c} : call[d].kind \in Linking /\ call'[d].sole => call[d].of # b
ListsNoted(c, B, U) ==
  \A d \in Calls \ {c} : call[d].kind \in Assigning /\ call'[d].alone =>
    call[d].of \notin B /\ ~(call[d].kind = "prefer" /\ call[d].who \in U)

(* One mark on a call. *)
LEMMA Marked ==
  ASSUME NEW w \in Working \cup {Idle}, NEW a \in BOOLEAN, NEW s \in BOOLEAN,
         NEW x, x = [w EXCEPT !.alone = @ /\ a, !.sole = @ /\ s], w # Idle
  PROVE  Stays(x, w) /\ x.alone = (w.alone /\ a) /\ x.sole = (w.sole /\ s)
<1>1. w \in Working /\ w.pc # "idle"
  BY DEF Working, Steps
<1>2. x \in Working /\ x.pc = w.pc
  BY <1>1 DEF Working
<1>3. x # Idle
  BY <1>1, <1>2, IdleIs
<1> QED BY <1>1, <1>2, <1>3 DEF Working, Stays, Like

LEMMA StaysSame == \A w \in Working \cup {Idle} : Stays(w, w)
BY DEF Stays, Like

LEMMA KindIdle == \A w \in Working \cup {Idle} : w.kind \in Linking \cup Assigning => w # Idle /\ w \in Working
BY IdleIs DEF Linking, Connecting, Assigning

LEMMA BoxWrittenDoes ==
  ASSUME NEW f \in [Calls -> Working \cup {Idle}], NEW c \in Calls, NEW b
  PROVE  /\ BoxWritten(f, c, b) \in [Calls -> Working \cup {Idle}]
         /\ BoxWritten(f, c, b)[c] = f[c]
         /\ \A d \in Calls \ {c} :
              /\ Stays(BoxWritten(f, c, b)[d], f[d])
              /\ f[d].kind \in Linking =>
                   /\ BoxWritten(f, c, b)[d].alone => Owner[b] \notin Minds(f[d])
                   /\ BoxWritten(f, c, b)[d].sole => f[d].of # b
<1> DEFINE g == BoxWritten(f, c, b)
<1>1. \A d \in Calls : g[d] = IF d = c \/ f[d].kind \notin Linking THEN f[d]
                   ELSE [f[d] EXCEPT !.alone = @ /\ Owner[b] \notin Minds(f[d]), !.sole = @ /\ f[d].of # b]
  BY DEF BoxWritten
<1>2. g = [d \in Calls |-> g[d]]
  BY DEF BoxWritten
<1> HIDE DEF g
<1>3. ASSUME NEW d \in Calls \ {c}
      PROVE  /\ Stays(g[d], f[d])
             /\ f[d].kind \in Linking =>
                  /\ g[d].alone => Owner[b] \notin Minds(f[d])
                  /\ g[d].sole => f[d].of # b
  <2>0. f[d] \in Working \cup {Idle}
    OBVIOUS
  <2>1. CASE f[d].kind \notin Linking
    BY <1>1, <2>0, <2>1, StaysSame
  <2>2. CASE f[d].kind \in Linking
    <3>1. g[d] = [f[d] EXCEPT !.alone = @ /\ Owner[b] \notin Minds(f[d]), !.sole = @ /\ f[d].of # b]
      BY <1>1, <2>2
    <3>2. f[d] # Idle
      BY <2>0, <2>2, KindIdle
    <3> DEFINE a == Owner[b] \notin Minds(f[d])
               s == f[d].of # b
    <3>3. a \in BOOLEAN /\ s \in BOOLEAN /\ g[d] = [f[d] EXCEPT !.alone = @ /\ a, !.sole = @ /\ s]
      BY <3>1
    <3>4. f[d].alone \in BOOLEAN /\ f[d].sole \in BOOLEAN
      BY <2>0, <3>2 DEF Working
    <3> HIDE DEF a, s
    <3>5. Stays(g[d], f[d]) /\ g[d].alone = (f[d].alone /\ a) /\ g[d].sole = (f[d].sole /\ s)
      BY <2>0, <3>2, <3>3, Marked
    <3>6. (g[d].alone => a) /\ (g[d].sole => s)
      BY <3>4, <3>5
    <3> QED BY <3>5, <3>6 DEF a, s
  <2> QED BY <2>1, <2>2
<1>4. g[c] = f[c]
  BY <1>1
<1>5. g \in [Calls -> Working \cup {Idle}]
  <2>1. \A d \in Calls : g[d] \in Working \cup {Idle}
    BY <1>3, <1>4 DEF Stays
  <2> QED BY <1>2, <2>1
<1> QED BY <1>3, <1>4, <1>5 DEF g

LEMMA TokenWrittenDoes ==
  ASSUME NEW f \in [Calls -> Working \cup {Idle}], NEW c \in Calls, NEW b
  PROVE  /\ TokenWritten(f, c, b) \in [Calls -> Working \cup {Idle}]
         /\ TokenWritten(f, c, b)[c] = f[c]
         /\ \A d \in Calls \ {c} :
              /\ Stays(TokenWritten(f, c, b)[d], f[d])
              /\ f[d].kind \in Linking /\ TokenWritten(f, c, b)[d].sole => f[d].of # b
<1> DEFINE g == TokenWritten(f, c, b)
<1>1. \A d \in Calls : g[d] = IF d = c \/ f[d].kind \notin Linking \/ f[d].of # b THEN f[d]
                              ELSE [f[d] EXCEPT !.sole = FALSE]
  BY DEF TokenWritten
<1>2. g = [d \in Calls |-> g[d]]
  BY DEF TokenWritten
<1> HIDE DEF g
<1>3. ASSUME NEW d \in Calls \ {c}
      PROVE  Stays(g[d], f[d]) /\ (f[d].kind \in Linking /\ g[d].sole => f[d].of # b)
  <2>0. f[d] \in Working \cup {Idle}
    OBVIOUS
  <2>1. CASE f[d].kind \notin Linking \/ f[d].of # b
    BY <1>1, <2>0, <2>1, StaysSame
  <2>2. CASE f[d].kind \in Linking /\ f[d].of = b
    <3>1. g[d] = [f[d] EXCEPT !.sole = FALSE]
      BY <1>1, <2>2
    <3>2. f[d] \in Working
      BY <2>0, <2>2, KindIdle
    <3>3. g[d] = [f[d] EXCEPT !.alone = @ /\ TRUE, !.sole = @ /\ FALSE]
      BY <3>1, <3>2 DEF Working
    <3> QED BY <2>0, <2>2, <3>3, KindIdle, Marked
  <2> QED BY <2>1, <2>2
<1>4. g[c] = f[c]
  BY <1>1
<1>5. g \in [Calls -> Working \cup {Idle}]
  <2>1. \A d \in Calls : g[d] \in Working \cup {Idle}
    BY <1>3, <1>4 DEF Stays
  <2> QED BY <1>2, <2>1
<1> QED BY <1>3, <1>4, <1>5 DEF g

LEMMA ListsWrittenDoes ==
  ASSUME NEW f \in [Calls -> Working \cup {Idle}], NEW c \in Calls, NEW B, NEW U
  PROVE  /\ ListsWritten(f, c, B, U) \in [Calls -> Working \cup {Idle}]
         /\ ListsWritten(f, c, B, U)[c] = f[c]
         /\ \A d \in Calls \ {c} :
              /\ Stays(ListsWritten(f, c, B, U)[d], f[d])
              /\ f[d].kind \in Assigning /\ ListsWritten(f, c, B, U)[d].alone =>
                   f[d].of \notin B /\ ~(f[d].kind = "prefer" /\ f[d].who \in U)
<1> DEFINE g == ListsWritten(f, c, B, U)
           hit(d) == f[d].of \in B \/ (f[d].kind = "prefer" /\ f[d].who \in U)
<1>1. \A d \in Calls : g[d] = IF d # c /\ f[d].kind \in Assigning /\ hit(d)
                              THEN [f[d] EXCEPT !.alone = FALSE] ELSE f[d]
  BY DEF ListsWritten
<1>2. g = [d \in Calls |-> g[d]]
  BY DEF ListsWritten
<1> HIDE DEF g, hit
<1>3. ASSUME NEW d \in Calls \ {c}
      PROVE  Stays(g[d], f[d]) /\ (f[d].kind \in Assigning /\ g[d].alone => ~hit(d))
  <2>0. f[d] \in Working \cup {Idle}
    OBVIOUS
  <2>1. CASE f[d].kind \notin Assigning \/ ~hit(d)
    BY <1>1, <2>0, <2>1, StaysSame
  <2>2. CASE f[d].kind \in Assigning /\ hit(d)
    <3>1. g[d] = [f[d] EXCEPT !.alone = FALSE]
      BY <1>1, <2>2
    <3>2. f[d] \in Working
      BY <2>0, <2>2, KindIdle
    <3>3. g[d] = [f[d] EXCEPT !.alone = @ /\ FALSE, !.sole = @ /\ TRUE]
      BY <3>1, <3>2 DEF Working
    <3> QED BY <2>0, <2>2, <3>3, KindIdle, Marked
  <2> QED BY <2>1, <2>2
<1>4. g[c] = f[c]
  BY <1>1
<1>5. g \in [Calls -> Working \cup {Idle}]
  <2>1. \A d \in Calls : g[d] \in Working \cup {Idle}
    BY <1>3, <1>4 DEF Stays
  <2> QED BY <1>2, <2>1
<1> QED BY <1>3, <1>4, <1>5 DEF g, hit

OnlyMoves(c) == call' \in [Calls -> Working \cup {Idle}] /\ Others(c)

(* Call c goes on as w: nobody notes it, or those who look after the mailbox, the
   credential, the lists do. *)
LEMMA Put ==
  ASSUME Recorded, NEW c \in Calls, NEW w \in Working \cup {Idle}, call' = [call EXCEPT ![c] = w]
  PROVE  OnlyMoves(c) /\ call'[c] = w
<1>1. call \in [Calls -> Working \cup {Idle}]
  BY TypeFacts
<1>2. /\ call' \in [Calls -> Working \cup {Idle}] /\ call'[c] = w
      /\ \A d \in Calls \ {c} : call'[d] = call[d] /\ call[d] \in Working \cup {Idle}
  BY <1>1
<1> QED BY <1>2, StaysSame DEF OnlyMoves, Others

LEMMA PutFacts ==
  ASSUME Recorded, NEW c \in Calls, NEW w \in Working \cup {Idle}
  PROVE  /\ [call EXCEPT ![c] = w] \in [Calls -> Working \cup {Idle}]
         /\ [call EXCEPT ![c] = w][c] = w
         /\ \A d \in Calls \ {c} : [call EXCEPT ![c] = w][d] = call[d]
BY TypeFacts

LEMMA PutBox ==
  ASSUME Recorded, NEW c \in Calls, NEW w \in Working \cup {Idle}, NEW b,
         call' = BoxWritten([call EXCEPT ![c] = w], c, b)
  PROVE  OnlyMoves(c) /\ call'[c] = w /\ BoxNoted(c, b)
<1> DEFINE f == [call EXCEPT ![c] = w]
           g == BoxWritten(f, c, b)
<1>1. f \in [Calls -> Working \cup {Idle}] /\ f[c] = w /\ \A d \in Calls \ {c} : f[d] = call[d]
  BY PutFacts
<1> HIDE DEF f
<1>2. /\ g \in [Calls -> Working \cup {Idle}] /\ g[c] = f[c]
      /\ \A d \in Calls \ {c} :
           /\ Stays(g[d], f[d])
           /\ f[d].kind \in Linking =>
                /\ g[d].alone => Owner[b] \notin Minds(f[d])
                /\ g[d].sole => f[d].of # b
  BY <1>1, BoxWrittenDoes
<1>3. call' = g
  BY DEF f
<1> HIDE DEF g
<1>4. ASSUME NEW d \in Calls \ {c}
      PROVE  /\ Stays(call'[d], call[d])
             /\ (call[d].kind \in Linking =>
                /\ call'[d].alone => Owner[b] \notin Minds(call[d])
                /\ call'[d].sole => call[d].of # b)
  <2>1. f[d] = call[d] /\ g[d] = call'[d]
    BY <1>1, <1>3
  <2> QED BY <1>2, <2>1
<1> QED BY <1>1, <1>2, <1>3, <1>4 DEF OnlyMoves, Others, BoxNoted

LEMMA PutToken ==
  ASSUME Recorded, NEW c \in Calls, NEW w \in Working \cup {Idle}, NEW b,
         call' = TokenWritten([call EXCEPT ![c] = w], c, b)
  PROVE  OnlyMoves(c) /\ call'[c] = w /\ TokenNoted(c, b)
<1> DEFINE f == [call EXCEPT ![c] = w]
           g == TokenWritten(f, c, b)
<1>1. f \in [Calls -> Working \cup {Idle}] /\ f[c] = w /\ \A d \in Calls \ {c} : f[d] = call[d]
  BY PutFacts
<1> HIDE DEF f
<1>2. /\ g \in [Calls -> Working \cup {Idle}] /\ g[c] = f[c]
      /\ \A d \in Calls \ {c} :
           /\ Stays(g[d], f[d])
           /\ f[d].kind \in Linking /\ g[d].sole => f[d].of # b
  BY <1>1, TokenWrittenDoes
<1>3. call' = g
  BY DEF f
<1> HIDE DEF g
<1>4. ASSUME NEW d \in Calls \ {c}
      PROVE  /\ Stays(call'[d], call[d])
             /\ (call[d].kind \in Linking /\ call'[d].sole => call[d].of # b)
  <2>1. f[d] = call[d] /\ g[d] = call'[d]
    BY <1>1, <1>3
  <2> QED BY <1>2, <2>1
<1> QED BY <1>1, <1>2, <1>3, <1>4 DEF OnlyMoves, Others, TokenNoted

LEMMA PutLists ==
  ASSUME Recorded, NEW c \in Calls, NEW w \in Working \cup {Idle}, NEW B, NEW U,
         call' = ListsWritten([call EXCEPT ![c] = w], c, B, U)
  PROVE  OnlyMoves(c) /\ call'[c] = w /\ ListsNoted(c, B, U)
<1> DEFINE f == [call EXCEPT ![c] = w]
           g == ListsWritten(f, c, B, U)
<1>1. f \in [Calls -> Working \cup {Idle}] /\ f[c] = w /\ \A d \in Calls \ {c} : f[d] = call[d]
  BY PutFacts
<1> HIDE DEF f
<1>2. /\ g \in [Calls -> Working \cup {Idle}] /\ g[c] = f[c]
      /\ \A d \in Calls \ {c} :
           /\ Stays(g[d], f[d])
           /\ f[d].kind \in Assigning /\ g[d].alone =>
                f[d].of \notin B /\ ~(f[d].kind = "prefer" /\ f[d].who \in U)
  BY <1>1, ListsWrittenDoes
<1>3. call' = g
  BY DEF f
<1> HIDE DEF g
<1>4. ASSUME NEW d \in Calls \ {c}
      PROVE  /\ Stays(call'[d], call[d])
             /\ (call[d].kind \in Assigning /\ call'[d].alone =>
                call[d].of \notin B /\ ~(call[d].kind = "prefer" /\ call[d].who \in U))
  <2>1. f[d] = call[d] /\ g[d] = call'[d]
    BY <1>1, <1>3
  <2> QED BY <1>2, <2>1
<1> QED BY <1>1, <1>2, <1>3, <1>4 DEF OnlyMoves, Others, ListsNoted

LEMMA TypedMoves ==
  ASSUME Recorded, NEW c \in Calls, OnlyMoves(c),
         call'[c] # Idle => Sane(call'[c]) /\ Reached(call[c])',
         box' \in [Boxes -> Mailbox], credential' \in [Boxes -> Credential],
         \A b \in Boxes : box'[b].status = "absent" =>
           box[b].status = "absent" /\ box'[b] = Absent /\ credential'[b] = NoAccess,
         connects' \in Nat, since' \in [Boxes -> 0 .. connects'], grant' \subseteq Boxes,
         shaken' \subseteq Users, doubled' \subseteq Users,
         crossed' \subseteq Boxes, unpurged' \subseteq Boxes, mixed' \subseteq Boxes,
         calls' \in 0 .. MaxCalls, breaks' \in 0 .. MaxBreaks,
         tries' \in [Boxes -> Nat], slips' \in [Boxes -> Nat]
  PROVE  Recorded'
<1>1. ASSUME NEW d \in Calls, call'[d] # Idle PROVE Sane(call'[d]) /\ Reached(call[d])'
  <2>1. CASE d = c
    BY <1>1, <2>1
  <2>2. CASE d # c
    <3>1. call[d] # Idle /\ Like(call'[d], call[d])
      BY <1>1, <2>2 DEF OnlyMoves, Others, Stays
    <3>2. call[d] \in Working /\ Sane(call[d]) /\ Reached(call[d])
      BY <3>1, TypeFacts
    <3>3. Sane(call'[d])
      BY <3>1, <3>2 DEF Sane, InPlace, Like, Chosen
    <3>4. call[d].of \in Boxes /\ call[d].to \in Boxes \cup {NoBox}
      BY <3>2 DEF Working
    <3>5. Reached(call[d])'
      BY <3>1, <3>2, <3>4 DEF Reached, Like
    <3> QED BY <3>3, <3>5
  <2> QED BY <2>1, <2>2
<1>2. call' \in [Calls -> Working \cup {Idle}]
  BY DEF OnlyMoves
<1> QED BY <1>1, <1>2, TypeGlue

-------------------------------------------------------------------------------
(* How each step moves its own call on.                                       *)

(* The same call, somewhere else or with something else in hand. *)
Continues(new, old) ==
  /\ new \in Working /\ new # Idle
  /\ new.kind = old.kind /\ new.of = old.of /\ new.who = old.who
  /\ new.alone = old.alone /\ new.sole = old.sole

Onward(new, old, pc) ==
  /\ Continues(new, old) /\ new.pc = pc
  /\ new.tok = old.tok /\ new.status = old.status /\ new.cur = old.cur /\ new.to = old.to
  /\ new.list = old.list /\ new.defs = old.defs

LEMMA CallAtWork ==
  ASSUME Recorded, NEW c \in Calls, call[c].pc # "idle"
  PROVE  call[c] \in Working /\ call[c] # Idle /\ Sane(call[c]) /\ Reached(call[c])
BY TypeFacts

LEMMA WorkingIsNotIdle == \A w \in Working : w # Idle
BY IdleIs

LEMMA Kept ==
  ASSUME NEW w \in Working, NEW pc \in Steps, NEW x, x = [w EXCEPT !.pc = pc]
  PROVE  Onward(x, w, pc)
<1>1. x \in Working
  BY DEF Working
<1> QED BY <1>1, WorkingIsNotIdle DEF Working, Onward, Continues

(* The same call at pc, with t, status, cur and to in hand. *)
Holding(new, old, pc, t, status, cur, to) ==
  /\ Continues(new, old) /\ new.pc = pc
  /\ new.tok = t /\ new.status = status /\ new.cur = cur /\ new.to = to

WithToken(w, t, pc) == [w EXCEPT !.tok = t, !.pc = pc]
WithStatus(w, t, pc) == [w EXCEPT !.pc = pc, !.status = t]
WithCur(w, b, pc) == [w EXCEPT !.cur = b, !.pc = pc]
WithTo(w, b, pc) == [w EXCEPT !.to = b, !.pc = pc]
WithLists(w, L, D, pc) == [w EXCEPT !.pc = pc, !.list = L, !.defs = D]

LEMMA KeptToken ==
  ASSUME NEW w \in Working, NEW pc \in Steps, NEW t \in Credential
  PROVE  Holding(WithToken(w, t, pc), w, pc, t, w.status, w.cur, w.to)
<1>1. WithToken(w, t, pc) \in Working
  BY DEF Working, WithToken
<1> QED BY <1>1, WorkingIsNotIdle DEF Working, Continues, WithToken, Holding

LEMMA KeptStatus ==
  ASSUME NEW w \in Working, NEW pc \in Steps, NEW t \in Statuses
  PROVE  Holding(WithStatus(w, t, pc), w, pc, w.tok, t, w.cur, w.to)
<1>1. WithStatus(w, t, pc) \in Working
  BY DEF Working, WithStatus
<1> QED BY <1>1, WorkingIsNotIdle DEF Working, Continues, WithStatus, Holding

LEMMA KeptCur ==
  ASSUME NEW w \in Working, NEW pc \in Steps, NEW b \in Boxes \cup {NoBox}
  PROVE  Holding(WithCur(w, b, pc), w, pc, w.tok, w.status, b, w.to)
<1>1. WithCur(w, b, pc) \in Working
  BY DEF Working, WithCur
<1> QED BY <1>1, WorkingIsNotIdle DEF Working, Continues, WithCur, Holding

LEMMA KeptTo ==
  ASSUME NEW w \in Working, NEW pc \in Steps, NEW b \in Boxes \cup {NoBox}
  PROVE  Holding(WithTo(w, b, pc), w, pc, w.tok, w.status, w.cur, b)
<1>1. WithTo(w, b, pc) \in Working
  BY DEF Working, WithTo
<1> QED BY <1>1, WorkingIsNotIdle DEF Working, Continues, WithTo, Holding

LEMMA KeptLists ==
  ASSUME NEW w \in Working, NEW pc \in Steps, NEW L \in SUBSET Users, NEW D \in SUBSET Users
  PROVE  /\ Holding(WithLists(w, L, D, pc), w, pc, w.tok, w.status, w.cur, w.to)
         /\ WithLists(w, L, D, pc).list = L /\ WithLists(w, L, D, pc).defs = D
<1>1. WithLists(w, L, D, pc) \in Working
  BY DEF Working, WithLists
<1> QED BY <1>1, WorkingIsNotIdle DEF Working, Continues, WithLists, Holding

(* A call as it begins. *)
FirstCall(kind, pc, b, u) ==
  [pc |-> pc, kind |-> kind, of |-> b, who |-> u, tok |-> NoAccess,
   status |-> "absent", cur |-> NoBox, to |-> NoBox, list |-> {}, defs |-> {},
   alone |-> TRUE, sole |-> TRUE]

FreshAs(x, kind, pc, b, u) ==
  /\ x.pc = pc /\ x.kind = kind /\ x.of = b /\ x.who = u /\ x.tok = NoAccess
  /\ x.status = "absent" /\ x.cur = NoBox /\ x.to = NoBox
  /\ x.alone = TRUE /\ x.sole = TRUE

LEMMA FirstIs ==
  ASSUME NEW kind \in Kinds, NEW pc \in Steps, NEW b \in Boxes, NEW u \in Users
  PROVE  /\ FirstCall(kind, pc, b, u) \in Working
         /\ FirstCall(kind, pc, b, u) # Idle
         /\ FreshAs(FirstCall(kind, pc, b, u), kind, pc, b, u)
<1>1. "absent" \in Statuses
  BY DEF Statuses
<1>2. NoAccess \in Credential
  BY IdleIs
<1>3. FirstCall(kind, pc, b, u) \in Working
  BY <1>1, <1>2 DEF Working, FirstCall
<1>4. FreshAs(FirstCall(kind, pc, b, u), kind, pc, b, u)
  BY DEF FreshAs, FirstCall
<1> QED BY <1>3, <1>4, WorkingIsNotIdle

LEMMA FirstFrom ==
  ASSUME NEW kind, NEW pc, NEW b, NEW u, NEW x,
         x = [Idle EXCEPT !.pc = pc, !.kind = kind, !.of = b, !.who = u]
  PROVE  x = FirstCall(kind, pc, b, u)
BY DEF Idle, FirstCall

Begins(c, kind, pc, b, u) ==
  /\ call[c] = Idle /\ OnlyMoves(c)
  /\ call'[c] \in Working /\ call'[c] # Idle
  /\ FreshAs(call'[c], kind, pc, b, u)

LEMMA StartsDoes ==
  ASSUME Recorded, NEW c \in Calls, NEW kind \in Kinds, NEW pc \in Steps, NEW b \in Boxes, NEW u \in Users,
         Starts(c, kind, pc, b, u)
  PROVE  Begins(c, kind, pc, b, u)
<1> DEFINE w == [Idle EXCEPT !.pc = pc, !.kind = kind, !.of = b, !.who = u]
<1>1. w = [Idle EXCEPT !.pc = pc, !.kind = kind, !.of = b, !.who = u]
  OBVIOUS
<1>2. call' = [call EXCEPT ![c] = w] /\ call[c] = Idle
  BY TypeFacts DEF Starts
<1> HIDE DEF w
<1>3. w = FirstCall(kind, pc, b, u)
  BY <1>1, FirstFrom
<1>4. w \in Working /\ w # Idle /\ FreshAs(w, kind, pc, b, u)
  BY <1>3, FirstIs
<1>5. OnlyMoves(c) /\ call'[c] = w
  BY <1>2, <1>4, Put
<1> QED BY <1>2, <1>4, <1>5 DEF Begins

(* The ways a step moves its call. *)
LEMMA ToIs ==
  ASSUME Recorded, NEW c \in Calls, NEW pc \in Steps, call[c].pc # "idle"
  PROVE  \E w \in Working : To(c, pc) = [call EXCEPT ![c] = w] /\ Onward(w, call[c], pc)
<1> DEFINE w == [call[c] EXCEPT !.pc = pc]
<1>1. call[c] \in Working
  BY CallAtWork
<1>2. w = [call[c] EXCEPT !.pc = pc] /\ To(c, pc) = [call EXCEPT ![c] = w]
  BY DEF To
<1> HIDE DEF w
<1>3. Onward(w, call[c], pc)
  BY <1>1, <1>2, Kept
<1>4. w \in Working
  BY <1>3 DEF Onward, Continues
<1> QED BY <1>2, <1>3, <1>4

LEMMA Goes ==
  ASSUME Recorded, NEW c \in Calls, NEW pc \in Steps, call[c].pc # "idle", call' = To(c, pc)
  PROVE  OnlyMoves(c) /\ Onward(call'[c], call[c], pc)
<1>1. PICK w \in Working : To(c, pc) = [call EXCEPT ![c] = w] /\ Onward(w, call[c], pc)
  BY ToIs
<1>2. call' = [call EXCEPT ![c] = w]
  BY <1>1
<1> QED BY <1>1, <1>2, Put

LEMMA GoesBox ==
  ASSUME Recorded, NEW c \in Calls, NEW pc \in Steps, call[c].pc # "idle", NEW b,
         call' = BoxWritten(To(c, pc), c, b)
  PROVE  OnlyMoves(c) /\ Onward(call'[c], call[c], pc) /\ BoxNoted(c, b)
<1>1. PICK w \in Working : To(c, pc) = [call EXCEPT ![c] = w] /\ Onward(w, call[c], pc)
  BY ToIs
<1>2. call' = BoxWritten([call EXCEPT ![c] = w], c, b)
  BY <1>1
<1> QED BY <1>1, <1>2, PutBox

LEMMA GoesToken ==
  ASSUME Recorded, NEW c \in Calls, NEW pc \in Steps, call[c].pc # "idle", NEW b,
         call' = TokenWritten(To(c, pc), c, b)
  PROVE  OnlyMoves(c) /\ Onward(call'[c], call[c], pc) /\ TokenNoted(c, b)
<1>1. PICK w \in Working : To(c, pc) = [call EXCEPT ![c] = w] /\ Onward(w, call[c], pc)
  BY ToIs
<1>2. call' = TokenWritten([call EXCEPT ![c] = w], c, b)
  BY <1>1
<1> QED BY <1>1, <1>2, PutToken

LEMMA GoesLists ==
  ASSUME Recorded, NEW c \in Calls, NEW pc \in Steps, call[c].pc # "idle", NEW B, NEW U,
         call' = ListsWritten(To(c, pc), c, B, U)
  PROVE  OnlyMoves(c) /\ Onward(call'[c], call[c], pc) /\ ListsNoted(c, B, U)
<1>1. PICK w \in Working : To(c, pc) = [call EXCEPT ![c] = w] /\ Onward(w, call[c], pc)
  BY ToIs
<1>2. call' = ListsWritten([call EXCEPT ![c] = w], c, B, U)
  BY <1>1
<1> QED BY <1>1, <1>2, PutLists

LEMMA Stops ==
  ASSUME Recorded, NEW c \in Calls, call' = [call EXCEPT ![c] = Idle]
  PROVE  OnlyMoves(c) /\ call'[c] = Idle
BY Put

LEMMA StopsBox ==
  ASSUME Recorded, NEW c \in Calls, NEW b, call' = BoxWritten([call EXCEPT ![c] = Idle], c, b)
  PROVE  OnlyMoves(c) /\ call'[c] = Idle /\ BoxNoted(c, b)
BY PutBox

LEMMA StopsToken ==
  ASSUME Recorded, NEW c \in Calls, NEW b, call' = TokenWritten([call EXCEPT ![c] = Idle], c, b)
  PROVE  OnlyMoves(c) /\ call'[c] = Idle /\ TokenNoted(c, b)
BY PutToken

LEMMA StopsLists ==
  ASSUME Recorded, NEW c \in Calls, NEW B, NEW U,
         call' = ListsWritten([call EXCEPT ![c] = Idle], c, B, U)
  PROVE  OnlyMoves(c) /\ call'[c] = Idle /\ ListsNoted(c, B, U)
BY PutLists

(* A step that writes no document but the credentials' grant. *)
LEMMA TypedQuiet ==
  ASSUME Recorded, NEW c \in Calls, OnlyMoves(c),
         call'[c] # Idle => Sane(call'[c]) /\ Reached(call[c])',
         UNCHANGED <<box, since, connects, credential, doubled, mixed, tries, slips>>,
         grant' \subseteq Boxes, shaken' \subseteq Users, crossed' \subseteq Boxes, unpurged' \subseteq Boxes,
         calls' \in 0 .. MaxCalls, breaks' \in 0 .. MaxBreaks
  PROVE  Recorded'
BY TypeFacts, TypedMoves

-------------------------------------------------------------------------------
(* Types.                                                                     *)

LEMMA MindsAreUsers == Recorded => \A c \in Calls : Minds(call[c]) \subseteq Users
<1> SUFFICES ASSUME Recorded, NEW c \in Calls PROVE Minds(call[c]) \subseteq Users
  OBVIOUS
<1>1. CASE call[c] = Idle
  BY <1>1, IdleIs
<1>2. CASE call[c] # Idle
  <2>1. call[c] \in Working
    BY <1>2, TypeFacts
  <2> QED BY <2>1, NoBoxApart DEF Minds, Working
<1> QED BY <1>1, <1>2

LEMMA MindsIs ==
  ASSUME Recorded, NEW c \in Calls, call[c] # Idle
  PROVE  Minds(call[c]) = IF call[c].kind \in Connecting THEN {call[c].who, Owner[call[c].of]} ELSE {}
BY DEF Minds

LEMMA BeginsTyped ==
  ASSUME Recorded, NEW c \in Calls, CallBegins(c)
  PROVE  Recorded'
<1> DEFINE Unwritten == UNCHANGED <<box, since, connects, credential, grant, breaks, registryHistory>>
                   /\ calls' \in 0 .. MaxCalls
<1>1. ASSUME NEW kind \in Kinds, NEW pc \in Steps, NEW b \in Boxes, NEW u \in Users,
             Starts(c, kind, pc, b, u),
             \A w : FreshAs(w, kind, pc, b, u) => Sane(w),
             pc \notin {"grant", "upsert", "edit"} => box[b].status # "absent"
      PROVE  Recorded'
  <2>1. Begins(c, kind, pc, b, u)
    BY <1>1, StartsDoes
  <2>2. Unwritten
    BY <1>1, TypeFacts, RegistryAssumption DEF Starts
  <2>3. Sane(call'[c])
    BY <1>1, <2>1 DEF Begins
  <2>4. Reached(call[c])'
    BY <1>1, <2>1, <2>2 DEF Begins, Reached, FreshAs
  <2> QED BY <2>1, <2>2, <2>3, <2>4, TypedQuiet, TypeFacts DEF Begins, registryHistory
<1> DEFINE Suits(kind, pc, b, u) == \A w : FreshAs(w, kind, pc, b, u) => Sane(w)
<1>2. \A b \in Boxes : Owner[b] \in Users
  BY NoBoxApart
<1>3. \A b \in Boxes : /\ Suits("connect", "grant", b, Owner[b])
                       /\ Suits("adopt", "upsert", b, Owner[b])
                       /\ Suits("choose", "target", b, Owner[b])
                       /\ Suits("refresh", "valid", b, Owner[b])
                       /\ Suits("validate", "probe", b, Owner[b])
  BY NoBoxApart DEF FreshAs, Sane, InPlace, Settling, Chosen
<1>4. \A b \in Boxes, u \in Users :
        /\ Suits("disconnect", "load", b, u) /\ Suits("assign", "edit", b, u)
        /\ Suits("unassign", "edit", b, u) /\ Suits("prefer", "edit", b, u)
  BY NoBoxApart DEF FreshAs, Sane, InPlace, Settling, Chosen
<1> HIDE DEF Suits
<1> USE DEF Kinds, Steps
<1>5. CASE Connect(c)
  BY <1>1, <1>2, <1>3, <1>5 DEF Connect, Suits
<1>6. CASE Adopt(c)
  BY <1>1, <1>2, <1>3, <1>6, TypeFacts DEF Adopt, Suits
<1>7. CASE DisconnectBox(c)
  BY <1>1, <1>4, <1>7 DEF DisconnectBox, Suits
<1>8. CASE Choose(c)
  BY <1>1, <1>2, <1>3, <1>8 DEF Choose, Suits, IsOpen
<1>9. CASE Refresh(c)
  BY <1>1, <1>2, <1>3, <1>9 DEF Refresh, Suits
<1>10. CASE Validate(c)
  BY <1>1, <1>2, <1>3, <1>10 DEF Validate, Suits
<1>11. CASE Assign(c)
  BY <1>1, <1>4, <1>11 DEF Assign, Suits
<1>12. CASE Unassign(c)
  BY <1>1, <1>4, <1>12 DEF Unassign, Suits
<1>13. CASE Prefer(c)
  BY <1>1, <1>4, <1>13 DEF Prefer, Suits
<1> QED BY <1>5, <1>6, <1>7, <1>8, <1>9, <1>10, <1>11, <1>12, <1>13 DEF CallBegins

(* Going on keeps a call sane if the place does not ask for more. *)
LEMMA OnwardSane ==
  ASSUME NEW old \in Working, Sane(old), NEW pc, NEW new, Onward(new, old, pc),
         InPlace(new), pc \notin {"drop", "renew", "mark", "purge"},
         pc \in {"target", "clear", "set"} => Chosen(old) \in Boxes
  PROVE  Sane(new)
BY DEF Sane, Onward, Continues, Chosen

LEMMA OnwardReached ==
  ASSUME Recorded, NEW c \in Calls, NEW pc, Onward(call'[c], call[c], pc), Reached(call[c]),
         call[c] \in Working,
         \A b \in Boxes : box[b].status # "absent" => box'[b].status # "absent",
         pc \in {"grant", "upsert", "edit"} \/ box'[call[c].of].status # "absent"
  PROVE  Reached(call[c])'
<1>1. call[c].of \in Boxes /\ call[c].to \in Boxes \cup {NoBox}
  BY DEF Working
<1> QED BY <1>1 DEF Reached, Onward, Continues

LEMMA GrantTyped ==
  ASSUME Recorded, NEW c \in Calls, Grant(c)
  PROVE  /\ Recorded' /\ OnlyMoves(c) /\ Onward(call'[c], call[c], "upsert")
         /\ TokenNoted(c, call[c].of)
<1>1. OnlyMoves(c) /\ Onward(call'[c], call[c], "upsert") /\ TokenNoted(c, call[c].of)
  BY GoesToken DEF Grant, Steps
<1>2. /\ call[c] \in Working /\ call[c] # Idle /\ Sane(call[c]) /\ Reached(call[c])
      /\ call[c].pc = "grant"
  BY CallAtWork DEF Grant
<1>3. Sane(call'[c])
  BY <1>1, <1>2, OnwardSane DEF Sane, InPlace, Onward, Continues, Working, Kinds, Settling
<1>4. /\ UNCHANGED <<box, since, connects, credential, calls, breaks, shaken, crossed, mixed, doubled, tries, slips>>
      /\ grant' = grant \cup {call[c].of} /\ unpurged' = unpurged \cup {call[c].of}
  BY DEF Grant
<1>5. Reached(call[c])'
  BY <1>1, <1>2, <1>4, OnwardReached
<1>6. call[c].of \in Boxes
  BY <1>2 DEF Working
<1> QED BY <1>1, <1>3, <1>4, <1>5, <1>6, TypedQuiet, TypeFacts

LEMMA UpsertTyped ==
  ASSUME Recorded, NEW c \in Calls, UpsertBox(c)
  PROVE  /\ Recorded' /\ OnlyMoves(c) /\ Onward(call'[c], call[c], "load") /\ BoxNoted(c, call[c].of)
         /\ \A b \in Boxes \ {call[c].of} : box'[b] = box[b]
         /\ box'[call[c].of] = [box[call[c].of] EXCEPT !.status = "connected", !.gone = FALSE]
<1> DEFINE b == call[c].of
<1>1. OnlyMoves(c) /\ Onward(call'[c], call[c], "load") /\ BoxNoted(c, b)
  BY GoesBox DEF UpsertBox, Steps
<1>2. /\ call[c] \in Working /\ call[c] # Idle /\ Sane(call[c]) /\ Reached(call[c])
      /\ call[c].pc = "upsert"
  BY CallAtWork DEF UpsertBox
<1>3. Sane(call'[c])
  BY <1>1, <1>2, OnwardSane DEF Sane, InPlace, Onward, Continues, Working, Kinds, Settling
<1>4. /\ UNCHANGED <<credential, grant, calls, breaks, registryHistory>>
      /\ connects' = connects + 1 /\ since' = [since EXCEPT ![b] = connects + 1]
      /\ box' = [box EXCEPT ![b].status = "connected", ![b].gone = FALSE]
  BY DEF UpsertBox
<1>5. b \in Boxes
  BY <1>2 DEF Working
<1> HIDE DEF b
<1>6. /\ \A d \in Boxes \ {b} : box'[d] = box[d]
      /\ box'[b] = [box[b] EXCEPT !.status = "connected", !.gone = FALSE]
      /\ box \in [Boxes -> Mailbox] /\ DOMAIN box' = Boxes /\ box' = [d \in Boxes |-> box'[d]]
  BY <1>4, <1>5, TypeFacts
<1>7. box[b] \in Mailbox
  BY <1>5, <1>6
<1>8. box'[b] \in Mailbox /\ box'[b].status = "connected"
  BY <1>6, <1>7 DEF Mailbox, Statuses
<1>9. box' \in [Boxes -> Mailbox]
  BY <1>6, <1>8
<1>10. connects' \in Nat /\ since' \in [Boxes -> 0 .. connects']
  BY <1>4, <1>5, TypeFacts
<1>11. \A d \in Boxes : box[d].status # "absent" => box'[d].status # "absent"
  BY <1>6, <1>8
<1>12. Reached(call[c])'
  BY <1>1, <1>2, <1>8, <1>11, OnwardReached DEF b
<1>13. Recorded'
  BY <1>1, <1>3, <1>4, <1>6, <1>8, <1>9, <1>10, <1>12, TypedMoves, TypeFacts DEF registryHistory
<1> QED BY <1>1, <1>6, <1>13 DEF b

LEMMA LoadTyped ==
  ASSUME Recorded, NEW c \in Calls, LoadToken(c)
  PROVE  /\ Recorded' /\ OnlyMoves(c)
         /\ Holding(call'[c], call[c], IF call[c].kind = "disconnect" THEN "revoke" ELSE "record",
                    credential[call[c].of], call[c].status, call[c].cur, call[c].to)
<1> DEFINE pc == IF call[c].kind = "disconnect" THEN "revoke" ELSE "record"
           t == credential[call[c].of]
           w == WithToken(call[c], t, pc)
<1>1. /\ call[c] \in Working /\ call[c] # Idle /\ Sane(call[c]) /\ Reached(call[c])
      /\ call[c].pc = "load"
  BY CallAtWork DEF LoadToken
<1>2. pc \in Steps /\ (pc = IF call[c].kind = "disconnect" THEN "revoke" ELSE "record")
  BY DEF Steps
<1>3. t \in Credential
  BY <1>1, TypeFacts DEF Working
<1>4. w = WithToken(call[c], t, pc) /\ call' = [call EXCEPT ![c] = w]
  BY DEF LoadToken, WithToken
<1>5. UNCHANGED <<box, since, connects, credential, grant, calls, breaks, registryHistory>>
  BY DEF LoadToken
<1> HIDE DEF pc, t, w
<1>6. Holding(w, call[c], pc, t, call[c].status, call[c].cur, call[c].to)
  BY <1>1, <1>2, <1>3, <1>4, KeptToken
<1>7. OnlyMoves(c) /\ call'[c] = w
  BY <1>4, <1>6, Put DEF Continues, Holding
<1>8. Sane(w)
  BY <1>1, <1>2, <1>6 DEF Sane, InPlace, Continues, Holding, Chosen, Working, Kinds, Settling
<1>9. Reached(call[c])'
  BY <1>1, <1>5, <1>6, <1>7 DEF Reached, Continues, Holding
<1>10. Recorded'
  BY <1>5, <1>7, <1>8, <1>9, TypedQuiet, TypeFacts DEF registryHistory
<1> QED BY <1>6, <1>7, <1>10 DEF pc, t

LEMMA SavedIs ==
  ASSUME NEW now \in Credential, NEW read \in Credential, NEW new,
         new.status = read.status \/ new.status \in {"connected", "disconnected", "expired"},
         new.expiry = read.expiry \/ new.expiry \in {"none", "ahead", "due"},
         new.failures = read.failures \/ new.failures \in 0 .. MaxFailures
  PROVE  Saved(now, read, new) \in Credential
BY DEF Saved, Credential

(* What a step that writes the credential of one mailbox leaves. *)
LEMMA CredentialPut ==
  ASSUME Recorded, NEW b \in Boxes, NEW k \in Credential, credential' = [credential EXCEPT ![b] = k]
  PROVE  /\ credential' \in [Boxes -> Credential] /\ credential'[b] = k
         /\ \A d \in Boxes \ {b} : credential'[d] = credential[d]
BY TypeFacts

LEMMA RecordTyped ==
  ASSUME Recorded, NEW c \in Calls, Record(c)
  PROVE  /\ Recorded' /\ OnlyMoves(c) /\ TokenNoted(c, call[c].of)
         /\ Onward(call'[c], call[c], IF call[c].kind = "connect" THEN "exists" ELSE "current")
         /\ credential'[call[c].of] = Saved(credential[call[c].of], call[c].tok,
                                            [status |-> "connected", expiry |-> "none", failures |-> 0])
         /\ \A d \in Boxes \ {call[c].of} : credential'[d] = credential[d]
<1> DEFINE b == call[c].of
           pc == IF call[c].kind = "connect" THEN "exists" ELSE "current"
           n == [status |-> "connected", expiry |-> "none", failures |-> 0]
           k == Saved(credential[b], call[c].tok, n)
<1>1. /\ call[c] \in Working /\ call[c] # Idle /\ Sane(call[c]) /\ Reached(call[c])
      /\ call[c].pc = "record"
  BY CallAtWork DEF Record
<1>2. pc \in Steps /\ pc = IF call[c].kind = "connect" THEN "exists" ELSE "current"
  BY DEF Steps
<1>3. OnlyMoves(c) /\ Onward(call'[c], call[c], pc) /\ TokenNoted(c, b)
  <2>1. call' = TokenWritten(To(c, pc), c, b)
    BY DEF Record
  <2> HIDE DEF pc
  <2> QED BY <1>1, <1>2, <2>1, GoesToken
<1>4. /\ credential' = [credential EXCEPT ![b] = Saved(@, call[c].tok, n)]
      /\ tries' = [tries EXCEPT ![b] = 0] /\ slips' = [slips EXCEPT ![b] = 0]
      /\ crossed' = Crossed(c)
      /\ UNCHANGED <<box, since, connects, grant, calls, breaks, shaken, unpurged, mixed, doubled>>
  BY DEF Record
<1>5. b \in Boxes /\ call[c].tok \in Credential /\ credential \in [Boxes -> Credential]
  BY <1>1, TypeFacts DEF Working
<1>6. credential' = [credential EXCEPT ![b] = k]
  BY <1>4, <1>5
<1>7. k \in Credential
  <2>1. n.status = "connected" /\ n.expiry = "none" /\ n.failures = 0 /\ 0 \in 0 .. MaxFailures
    BY RegistryAssumption
  <2> HIDE DEF n
  <2>2. credential[b] \in Credential
    BY <1>5
  <2> QED BY <1>5, <2>1, <2>2, SavedIs
<1>8. k = Saved(credential[b], call[c].tok, n)
  OBVIOUS
<1> HIDE DEF b, k, n, pc
<1>9. /\ credential' \in [Boxes -> Credential] /\ credential'[b] = k
      /\ \A d \in Boxes \ {b} : credential'[d] = credential[d]
  BY <1>5, <1>6, <1>7, CredentialPut
<1>10. Sane(call'[c])
  BY <1>1, <1>2, <1>3 DEF Sane, InPlace, Onward, Continues, Chosen, Working, Kinds, Settling
<1>11. Reached(call[c])'
  BY <1>1, <1>2, <1>3, <1>4, OnwardReached DEF Reached
<1>12. box[b].status # "absent"
  BY <1>1 DEF Reached, b
<1>13. crossed' \subseteq Boxes
  BY <1>4, <1>5, TypeFacts DEF Crossed, b
<1>14. tries' \in [Boxes -> Nat] /\ slips' \in [Boxes -> Nat]
  BY <1>4, <1>5, TypeFacts
<1>15. Recorded'
  BY <1>3, <1>4, <1>9, <1>10, <1>11, <1>12, <1>13, <1>14, TypedMoves, TypeFacts
<1> QED BY <1>3, <1>8, <1>9, <1>15 DEF b, n, pc

LEMMA SettledAreUsers ==
  ASSUME Recorded, NEW c \in Calls
  PROVE  Settled(call[c]) \subseteq Users /\ Minds(call[c]) \subseteq Users /\ shaken \subseteq Users
BY MindsAreUsers, TypeFacts DEF Settled

LEMMA EndsTyped ==
  ASSUME Recorded, NEW c \in Calls, Settles(c) \/ Leaves(c)
  PROVE  OnlyMoves(c) /\ call'[c] = Idle /\ shaken' \subseteq Users
<1>1. call' = [call EXCEPT ![c] = Idle]
  BY DEF Settles, Leaves
<1>2. shaken' \subseteq Users
  BY SettledAreUsers DEF Settles, Leaves
<1> QED BY <1>1, <1>2, Stops

LEMMA ExistsTyped ==
  ASSUME Recorded, NEW c \in Calls, Exists(c)
  PROVE  /\ Recorded' /\ OnlyMoves(c)
         /\ \/ Defaults(call[c].who) # {} /\ Leaves(c) /\ call'[c] = Idle
            \/ Defaults(call[c].who) = {} /\ Onward(call'[c], call[c], "current") /\ shaken' = shaken
<1>1. /\ call[c] \in Working /\ call[c] # Idle /\ Sane(call[c]) /\ Reached(call[c])
      /\ call[c].pc = "exists"
  BY CallAtWork DEF Exists
<1>2. UNCHANGED <<box, since, connects, credential, grant, calls, breaks, crossed, unpurged, mixed, doubled, tries, slips>>
  BY DEF Exists
<1>3. CASE Defaults(call[c].who) # {} /\ Leaves(c)
  <2>1. OnlyMoves(c) /\ call'[c] = Idle /\ shaken' \subseteq Users
    BY <1>3, EndsTyped
  <2>2. Recorded'
    BY <1>2, <2>1, TypedQuiet, TypeFacts
  <2> QED BY <1>3, <2>1, <2>2
<1>4. CASE Defaults(call[c].who) = {} /\ call' = To(c, "current") /\ shaken' = shaken
  <2>1. OnlyMoves(c) /\ Onward(call'[c], call[c], "current")
    BY <1>1, <1>4, Goes DEF Steps
  <2>2. Sane(call'[c])
    BY <1>1, <2>1, OnwardSane DEF Sane, InPlace, Onward, Continues, Working, Kinds, Settling
  <2>3. Reached(call[c])'
    BY <1>1, <1>2, <2>1, OnwardReached DEF Reached
  <2>4. Recorded'
    BY <1>2, <1>4, <2>1, <2>2, <2>3, TypedQuiet, TypeFacts
  <2> QED BY <1>4, <2>1, <2>4
<1> QED BY <1>3, <1>4 DEF Exists

LEMMA RevokeTyped ==
  ASSUME Recorded, NEW c \in Calls, Revoke(c)
  PROVE  /\ Recorded' /\ OnlyMoves(c) /\ TokenNoted(c, call[c].of)
         /\ call[c].kind = "disconnect" /\ call'[c].pc \in {"purge", "mark"}
         /\ Holding(call'[c], call[c], call'[c].pc, call[c].tok, "disconnected", call[c].cur, call[c].to)
         /\ credential'[call[c].of] = Saved(credential[call[c].of], call[c].tok, Revoked(call[c].tok))
         /\ \A d \in Boxes \ {call[c].of} : credential'[d] = credential[d]
<1> DEFINE b == call[c].of
           k == Saved(credential[b], call[c].tok, Revoked(call[c].tok))
<1>1. /\ call[c] \in Working /\ call[c] # Idle /\ Sane(call[c]) /\ Reached(call[c])
      /\ call[c].pc = "revoke"
  BY CallAtWork DEF Revoke
<1>2. /\ credential' = [credential EXCEPT ![b] = Saved(@, call[c].tok, Revoked(call[c].tok))]
      /\ crossed' = Crossed(c)
      /\ UNCHANGED <<box, since, connects, grant, calls, breaks, shaken, unpurged, mixed, doubled, tries, slips>>
  BY DEF Revoke
<1>3. PICK next \in {"purge", "mark"} :
        call' = TokenWritten([call EXCEPT ![c].pc = next, ![c].status = "disconnected"], c, b)
  BY DEF Revoke
<1>4. b \in Boxes /\ call[c].tok \in Credential /\ credential \in [Boxes -> Credential]
  BY <1>1, TypeFacts DEF Working
<1>5. credential' = [credential EXCEPT ![b] = k]
  BY <1>2, <1>4
<1>6. k \in Credential
  <2> DEFINE n == Revoked(call[c].tok)
  <2>1. n.status = "disconnected" /\ n.expiry = "none" /\ n.failures = call[c].tok.failures
    BY <1>4 DEF Revoked, Credential
  <2> HIDE DEF n
  <2>2. credential[b] \in Credential
    BY <1>4
  <2>3. Saved(credential[b], call[c].tok, n) \in Credential
    BY <1>4, <2>1, <2>2, SavedIs
  <2> QED BY <2>3 DEF n
<1>7. k = Saved(credential[b], call[c].tok, Revoked(call[c].tok))
  OBVIOUS
<1> DEFINE w == WithStatus(call[c], "disconnected", next)
<1>8. call' = TokenWritten([call EXCEPT ![c] = w], c, b)
  BY <1>3 DEF WithStatus
<1>9. next \in Steps /\ "disconnected" \in Statuses
  BY DEF Steps, Statuses
<1>10. w = WithStatus(call[c], "disconnected", next)
  OBVIOUS
<1> HIDE DEF b, k, w
<1>11. Holding(w, call[c], next, call[c].tok, "disconnected", call[c].cur, call[c].to)
  BY <1>1, <1>9, <1>10, KeptStatus
<1>12. OnlyMoves(c) /\ call'[c] = w /\ TokenNoted(c, b)
  BY <1>8, <1>11, PutToken DEF Holding, Continues
<1>13. /\ credential' \in [Boxes -> Credential] /\ credential'[b] = k
       /\ \A d \in Boxes \ {b} : credential'[d] = credential[d]
  BY <1>4, <1>5, <1>6, CredentialPut
<1>14. call[c].kind = "disconnect"
  BY <1>1 DEF Sane, InPlace, Working, Kinds, Settling
<1>15. Sane(w)
  BY <1>1, <1>11, <1>14 DEF Sane, InPlace, Holding, Continues, Chosen, Settling
<1>16. Reached(call[c])'
  BY <1>1, <1>2, <1>11, <1>12 DEF Reached, Holding, Continues
<1>17. box[b].status # "absent"
  BY <1>1 DEF Reached, b
<1>18. crossed' \subseteq Boxes
  BY <1>2, <1>4, TypeFacts DEF Crossed, b
<1>19. Recorded'
  BY <1>2, <1>12, <1>13, <1>15, <1>16, <1>17, <1>18, TypedMoves, TypeFacts
<1>20. call'[c].pc = next
  BY <1>11, <1>12 DEF Holding
<1> QED BY <1>7, <1>11, <1>12, <1>13, <1>14, <1>19, <1>20 DEF b

LEMMA PurgeTyped ==
  ASSUME Recorded, NEW c \in Calls, Purge(c)
  PROVE  /\ Recorded' /\ OnlyMoves(c) /\ call[c].kind = "disconnect"
         /\ \/ Onward(call'[c], call[c], "close") /\ grant' = grant \ {call[c].of}
            \/ Onward(call'[c], call[c], "mark") /\ grant' = grant
<1>1. /\ call[c] \in Working /\ call[c] # Idle /\ Sane(call[c]) /\ Reached(call[c])
      /\ call[c].pc = "purge"
  BY CallAtWork DEF Purge
<1>2. UNCHANGED <<box, since, connects, credential, calls, registryHistory>>
  BY DEF Purge
<1>3. call[c].kind = "disconnect"
  BY <1>1 DEF Sane, InPlace, Working, Kinds, Settling
<1>4. \E pc \in {"close", "mark"} :
        /\ call' = To(c, pc) /\ breaks' \in 0 .. MaxBreaks
        /\ grant' = IF pc = "close" THEN grant \ {call[c].of} ELSE grant
  BY TypeFacts, RegistryAssumption DEF Purge
<1>5. PICK pc \in {"close", "mark"} :
        /\ call' = To(c, pc) /\ breaks' \in 0 .. MaxBreaks
        /\ grant' = IF pc = "close" THEN grant \ {call[c].of} ELSE grant
  BY <1>4
<1>6. OnlyMoves(c) /\ Onward(call'[c], call[c], pc)
  BY <1>1, <1>5, Goes DEF Steps
<1>7. Sane(call'[c])
  BY <1>1, <1>3, <1>6 DEF Sane, InPlace, Onward, Continues, Chosen, Settling
<1>8. Reached(call[c])'
  BY <1>1, <1>2, <1>6 DEF Reached, Onward, Continues
<1>9. Recorded'
  BY <1>2, <1>5, <1>6, <1>7, <1>8, TypedQuiet, TypeFacts DEF registryHistory
<1> QED BY <1>3, <1>5, <1>6, <1>9

(* A step that writes the mailbox b of its call. *)
LEMMA BoxPut ==
  ASSUME Recorded, NEW b \in Boxes, NEW m \in Mailbox, box' = [box EXCEPT ![b] = m],
         m.status = "absent" => box[b].status = "absent" /\ m = Absent
  PROVE  /\ box' \in [Boxes -> Mailbox] /\ box'[b] = m
         /\ \A d \in Boxes \ {b} : box'[d] = box[d]
         /\ \A d \in Boxes : box'[d].status = "absent" => box[d].status = "absent" /\ box'[d] = Absent
BY TypeFacts

LEMMA TypedBox ==
  ASSUME Recorded, NEW c \in Calls, OnlyMoves(c), box' \in [Boxes -> Mailbox],
         \A d \in Boxes : box'[d].status = "absent" => box[d].status = "absent" /\ box'[d] = Absent,
         call'[c] # Idle => Sane(call'[c]) /\ Reached(call[c])',
         UNCHANGED <<since, connects, credential, grant, calls, breaks, tries, slips>>,
         shaken' \subseteq Users, doubled' \subseteq Users,
         crossed' \subseteq Boxes, unpurged' \subseteq Boxes, mixed' \subseteq Boxes
  PROVE  Recorded'
BY TypeFacts, TypedMoves

WithState(m, s, g) == [m EXCEPT !.status = s, !.gone = g]
WithFlag(m, f) == [m EXCEPT !.isDefault = f]

LEMMA StateIs ==
  ASSUME NEW m \in Mailbox, NEW s \in Statuses, NEW g \in BOOLEAN
  PROVE  /\ WithState(m, s, g) \in Mailbox
         /\ WithState(m, s, g).status = s /\ WithState(m, s, g).gone = g
         /\ WithState(m, s, g).isDefault = m.isDefault
         /\ WithState(m, s, g).assigned = m.assigned /\ WithState(m, s, g).defaults = m.defaults
BY DEF WithState, Mailbox

LEMMA FlagIs ==
  ASSUME NEW m \in Mailbox, NEW f \in BOOLEAN
  PROVE  /\ WithFlag(m, f) \in Mailbox
         /\ WithFlag(m, f).status = m.status /\ WithFlag(m, f).gone = m.gone
         /\ WithFlag(m, f).isDefault = f
         /\ WithFlag(m, f).assigned = m.assigned /\ WithFlag(m, f).defaults = m.defaults
BY DEF WithFlag, Mailbox

LEMMA AbsentIs ==
  /\ Absent \in Mailbox /\ Absent.status = "absent" /\ Absent.gone = FALSE /\ Absent.isDefault = FALSE
  /\ Absent.assigned = {} /\ Absent.defaults = {}
  /\ \A m \in Mailbox :
       m.status = "absent" /\ m.gone = FALSE /\ m.isDefault = FALSE /\ m.assigned = {} /\ m.defaults = {}
       => m = Absent
BY DEF Mailbox, Statuses, Absent

LEMMA AbsentFlag == WithFlag(Absent, FALSE) = Absent
<1> DEFINE m == WithFlag(Absent, FALSE)
<1>1. Absent \in Mailbox /\ FALSE \in BOOLEAN
  BY AbsentIs
<1>2. /\ m \in Mailbox /\ m.status = Absent.status /\ m.gone = Absent.gone /\ m.isDefault = FALSE
      /\ m.assigned = Absent.assigned /\ m.defaults = Absent.defaults
  BY <1>1, FlagIs
<1> HIDE DEF m
<1>3. m = Absent
  BY <1>2, AbsentIs
<1> QED BY <1>3 DEF m

LEMMA MarkGoneTyped ==
  ASSUME Recorded, NEW c \in Calls, MarkGone(c)
  PROVE  /\ Recorded' /\ OnlyMoves(c) /\ Onward(call'[c], call[c], "unflag") /\ BoxNoted(c, call[c].of)
         /\ box'[call[c].of] = WithState(box[call[c].of], "disconnected", TRUE)
         /\ \A d \in Boxes \ {call[c].of} : box'[d] = box[d]
<1> DEFINE b == call[c].of
           m == WithState(box[b], "disconnected", TRUE)
<1>1. /\ call[c] \in Working /\ call[c] # Idle /\ Sane(call[c]) /\ Reached(call[c])
      /\ call[c].pc \in {"mark", "close"} /\ call[c].kind = "disconnect"
  BY CallAtWork DEF MarkGone
<1>2. OnlyMoves(c) /\ Onward(call'[c], call[c], "unflag") /\ BoxNoted(c, b)
  BY <1>1, GoesBox DEF MarkGone, Steps
<1>3. b \in Boxes /\ box[b] \in Mailbox
  BY <1>1, TypeFacts DEF Working
<1>4. /\ UNCHANGED <<since, connects, credential, grant, calls, breaks, shaken, mixed, doubled, tries, slips>>
      /\ box' = [box EXCEPT ![b] = m]
  BY DEF MarkGone, WithState
<1>5. crossed' \subseteq Boxes /\ unpurged' \subseteq Boxes
  BY <1>3, TypeFacts DEF MarkGone
<1>6. m \in Mailbox /\ m.status = "disconnected"
  BY <1>3, StateIs DEF Statuses
<1>7. m = WithState(box[b], "disconnected", TRUE)
  OBVIOUS
<1> HIDE DEF b, m
<1>8. /\ box' \in [Boxes -> Mailbox] /\ box'[b] = m
      /\ \A d \in Boxes \ {b} : box'[d] = box[d]
      /\ \A d \in Boxes : box'[d].status = "absent" => box[d].status = "absent" /\ box'[d] = Absent
  BY <1>3, <1>4, <1>6, BoxPut
<1>9. Sane(call'[c])
  BY <1>1, <1>2, OnwardSane DEF InPlace, Onward, Continues, Settling
<1>10. Reached(call[c])'
  BY <1>1, <1>2, <1>3, <1>6, <1>8, OnwardReached DEF b
<1>11. Recorded'
  BY <1>2, <1>4, <1>5, <1>8, <1>9, <1>10, TypedBox, TypeFacts
<1> QED BY <1>2, <1>7, <1>8, <1>11 DEF b

LEMMA UnflagTyped ==
  ASSUME Recorded, NEW c \in Calls, Unflag(c)
  PROVE  /\ Recorded' /\ OnlyMoves(c) /\ Onward(call'[c], call[c], "current") /\ BoxNoted(c, call[c].of)
         /\ call[c].kind = "disconnect"
         /\ box'[call[c].of] = WithFlag(box[call[c].of], FALSE)
         /\ \A d \in Boxes \ {call[c].of} : box'[d] = box[d]
<1> DEFINE b == call[c].of
           m == WithFlag(box[b], FALSE)
<1>1. /\ call[c] \in Working /\ call[c] # Idle /\ Sane(call[c]) /\ Reached(call[c])
      /\ call[c].pc = "unflag"
  BY CallAtWork DEF Unflag
<1>2. OnlyMoves(c) /\ Onward(call'[c], call[c], "current") /\ BoxNoted(c, b)
  BY <1>1, GoesBox DEF Unflag, Steps
<1>3. b \in Boxes /\ box[b] \in Mailbox
  BY <1>1, TypeFacts DEF Working
<1>4. /\ UNCHANGED <<since, connects, credential, grant, calls, breaks, registryHistory>>
      /\ box' = [box EXCEPT ![b] = m]
  BY DEF Unflag, WithFlag
<1>5. call[c].kind = "disconnect"
  BY <1>1 DEF Sane, InPlace, Working, Kinds, Settling
<1>6. m \in Mailbox /\ m.status = box[b].status
  BY <1>3, FlagIs
<1>7. m = WithFlag(box[b], FALSE)
  OBVIOUS
<1> HIDE DEF b, m
<1>8. box[b].status # "absent"
  BY <1>1 DEF Reached, b
<1>9. /\ box' \in [Boxes -> Mailbox] /\ box'[b] = m
      /\ \A d \in Boxes \ {b} : box'[d] = box[d]
      /\ \A d \in Boxes : box'[d].status = "absent" => box[d].status = "absent" /\ box'[d] = Absent
  BY <1>3, <1>4, <1>6, <1>8, BoxPut
<1>10. Sane(call'[c])
  BY <1>1, <1>2, <1>5, OnwardSane DEF InPlace, Onward, Continues, Settling
<1>11. Reached(call[c])'
  BY <1>1, <1>2, <1>3, <1>8, <1>9, OnwardReached DEF b
<1>12. Recorded'
  BY <1>2, <1>4, <1>9, <1>10, <1>11, TypedBox, TypeFacts DEF registryHistory
<1> QED BY <1>2, <1>5, <1>7, <1>9, <1>12 DEF b

(* Those that settle a default are of these kinds. *)
Settlers == {"connect", "adopt", "disconnect", "choose"}

LEMMA SettlersAre ==
  ASSUME NEW w \in Working, InPlace(w), w.pc \in Settling
  PROVE  /\ w.kind \in Settlers
         /\ w.pc \notin {"target", "clear", "set"} => w.kind # "choose"
         /\ \A x : x.kind = w.kind /\ x.pc \in {"target", "clear", "set"} => InPlace(x)
         /\ w.kind # "choose" => \A x : x.kind = w.kind /\ x.pc \in Settling => InPlace(x)
BY DEF InPlace, Settling, Settlers, Working, Kinds

LEMMA CurrentTyped ==
  ASSUME Recorded, NEW c \in Calls, Current(c)
  PROVE  /\ Recorded' /\ OnlyMoves(c)
         /\ \/ /\ \E b \in Defaults(call[c].who) : IsOpen(b)
               /\ Settles(c) /\ call'[c] = Idle
            \/ /\ shaken' = shaken /\ \A b \in Defaults(call[c].who) : ~IsOpen(b)
               /\ \E b \in Defaults(call[c].who) \cup {NoBox} :
                    /\ b = NoBox => Defaults(call[c].who) = {}
                    /\ Holding(call'[c], call[c], "replace", call[c].tok, call[c].status, b, call[c].to)
<1>1. /\ call[c] \in Working /\ call[c] # Idle /\ Sane(call[c]) /\ Reached(call[c])
      /\ call[c].pc = "current"
  BY CallAtWork DEF Current
<1>2. UNCHANGED <<box, since, connects, credential, grant, calls, breaks, crossed, unpurged, mixed, doubled, tries, slips>>
  BY DEF Current
<1>3. CASE (\E b \in Defaults(call[c].who) : IsOpen(b)) /\ Settles(c)
  <2>1. OnlyMoves(c) /\ call'[c] = Idle /\ shaken' \subseteq Users
    BY <1>3, EndsTyped
  <2>2. Recorded'
    BY <1>2, <2>1, TypedQuiet, TypeFacts
  <2> QED BY <1>3, <2>1, <2>2
<1>4. ASSUME NEW b \in Defaults(call[c].who) \cup {NoBox},
             \A d \in Defaults(call[c].who) : ~IsOpen(d),
             b = NoBox => Defaults(call[c].who) = {},
             call' = [call EXCEPT ![c].cur = b, ![c].pc = "replace"], shaken' = shaken
      PROVE  /\ Recorded' /\ OnlyMoves(c)
             /\ Holding(call'[c], call[c], "replace", call[c].tok, call[c].status, b, call[c].to)
  <2> DEFINE w == WithCur(call[c], b, "replace")
  <2>1. call' = [call EXCEPT ![c] = w]
    BY <1>4 DEF WithCur
  <2>2. b \in Boxes \cup {NoBox} /\ (b # NoBox => Owner[b] = call[c].who) /\ "replace" \in Steps
    BY <1>4 DEF Defaults, Owned, Steps
  <2>3. Holding(w, call[c], "replace", call[c].tok, call[c].status, b, call[c].to)
    BY <1>1, <2>2, KeptCur
  <2> HIDE DEF w
  <2>4. OnlyMoves(c) /\ call'[c] = w
    BY <2>1, <2>3, Put DEF Holding, Continues
  <2>5. Sane(w)
    <3>1. InPlace(w)
      BY <1>1, <2>3, SettlersAre DEF Sane, Holding, Continues, Settling
    <3> QED BY <1>1, <2>2, <2>3, <3>1 DEF Sane, Holding, Continues
  <2>6. Reached(call[c])'
    BY <1>1, <1>2, <2>3, <2>4 DEF Reached, Holding, Continues
  <2>7. Recorded'
    BY <1>2, <1>4, <2>4, <2>5, <2>6, TypedQuiet, TypeFacts
  <2> QED BY <2>3, <2>4, <2>7
<1> QED BY <1>3, <1>4 DEF Current

LEMMA ReplaceTyped ==
  ASSUME Recorded, NEW c \in Calls, Replace(c)
  PROVE  /\ Recorded' /\ OnlyMoves(c)
         /\ \/ /\ Candidates(call[c].who) = {} /\ call[c].cur # NoBox
               /\ Onward(call'[c], call[c], "drop") /\ shaken' = shaken
            \/ /\ Candidates(call[c].who) = {} /\ call[c].cur = NoBox
               /\ Settles(c) /\ call'[c] = Idle
            \/ /\ call[c].cur \in Candidates(call[c].who)
               /\ Settles(c) /\ call'[c] = Idle
            \/ /\ shaken' = shaken
               /\ \E b \in Candidates(call[c].who) :
                    Holding(call'[c], call[c], "target", call[c].tok, call[c].status, call[c].cur, b)
<1>1. /\ call[c] \in Working /\ call[c] # Idle /\ Sane(call[c]) /\ Reached(call[c])
      /\ call[c].pc = "replace"
  BY CallAtWork DEF Replace
<1>2. UNCHANGED <<box, since, connects, credential, grant, calls, breaks, crossed, unpurged, mixed, doubled, tries, slips>>
  BY DEF Replace
<1>3. ASSUME Settles(c) PROVE Recorded' /\ OnlyMoves(c) /\ call'[c] = Idle
  <2>1. OnlyMoves(c) /\ call'[c] = Idle /\ shaken' \subseteq Users
    BY <1>3, EndsTyped
  <2> QED BY <1>2, <2>1, TypedQuiet, TypeFacts
<1>4. CASE Candidates(call[c].who) = {} /\ call[c].cur # NoBox /\ call' = To(c, "drop") /\ shaken' = shaken
  <2>1. OnlyMoves(c) /\ Onward(call'[c], call[c], "drop")
    BY <1>1, <1>4, Goes DEF Steps
  <2>2. InPlace(call'[c])
    BY <1>1, <2>1, SettlersAre DEF Sane, Onward, Continues, Settling
  <2>3. Sane(call'[c])
    BY <1>1, <1>4, <2>1, <2>2 DEF Sane, Onward, Continues
  <2>4. Reached(call[c])'
    BY <1>1, <1>2, <2>1 DEF Reached, Onward, Continues
  <2>5. Recorded'
    BY <1>2, <1>4, <2>1, <2>3, <2>4, TypedQuiet, TypeFacts
  <2> QED BY <1>4, <2>1, <2>5
<1>5. ASSUME NEW b \in Candidates(call[c].who),
             call' = [call EXCEPT ![c].to = b, ![c].pc = "target"], shaken' = shaken
      PROVE  /\ Recorded' /\ OnlyMoves(c)
             /\ Holding(call'[c], call[c], "target", call[c].tok, call[c].status, call[c].cur, b)
  <2> DEFINE w == WithTo(call[c], b, "target")
  <2>1. call' = [call EXCEPT ![c] = w]
    BY <1>5 DEF WithTo
  <2>2. /\ b \in Boxes /\ b # NoBox /\ Owner[b] = call[c].who /\ box[b].status = "connected"
        /\ "target" \in Steps
    BY <1>5, NoBoxApart DEF Candidates, Owned, IsOpen, Steps
  <2>3. Holding(w, call[c], "target", call[c].tok, call[c].status, call[c].cur, b)
    BY <1>1, <2>2, KeptTo
  <2> HIDE DEF w
  <2>4. OnlyMoves(c) /\ call'[c] = w
    BY <2>1, <2>3, Put DEF Holding, Continues
  <2>5. Sane(w)
    <3>1. InPlace(w) /\ w.kind # "choose"
      BY <1>1, <2>3, SettlersAre DEF Sane, Holding, Continues, Settling
    <3> QED BY <1>1, <2>2, <2>3, <3>1 DEF Sane, Holding, Continues, Chosen
  <2>6. Reached(call[c])'
    BY <1>1, <1>2, <2>2, <2>3, <2>4 DEF Reached, Holding, Continues
  <2>7. Recorded'
    BY <1>2, <1>5, <2>4, <2>5, <2>6, TypedQuiet, TypeFacts
  <2> QED BY <2>3, <2>4, <2>7
<1>6. \/ Candidates(call[c].who) = {} /\ call[c].cur # NoBox /\ call' = To(c, "drop") /\ shaken' = shaken
      \/ Candidates(call[c].who) = {} /\ call[c].cur = NoBox /\ Settles(c)
      \/ call[c].cur \in Candidates(call[c].who) /\ Settles(c)
      \/ /\ shaken' = shaken
         /\ \E b \in Candidates(call[c].who) : call' = [call EXCEPT ![c].to = b, ![c].pc = "target"]
  BY DEF Replace
<1> QED BY <1>3, <1>4, <1>5, <1>6

LEMMA DropTyped ==
  ASSUME Recorded, NEW c \in Calls, DropDefault(c)
  PROVE  /\ Recorded' /\ OnlyMoves(c) /\ call'[c] = Idle /\ BoxNoted(c, call[c].cur)
         /\ call[c].cur \in Boxes /\ Owner[call[c].cur] = call[c].who
         /\ box'[call[c].cur] = WithFlag(box[call[c].cur], FALSE)
         /\ \A d \in Boxes \ {call[c].cur} : box'[d] = box[d]
<1> DEFINE b == call[c].cur
           m == WithFlag(box[b], FALSE)
<1>1. /\ call[c] \in Working /\ call[c] # Idle /\ Sane(call[c]) /\ Reached(call[c])
      /\ call[c].pc = "drop"
  BY CallAtWork DEF DropDefault
<1>2. b \in Boxes /\ Owner[b] = call[c].who /\ box[b] \in Mailbox
  BY <1>1, TypeFacts DEF Working, Sane
<1>3. /\ UNCHANGED <<since, connects, credential, grant, calls, breaks, crossed, unpurged, mixed, doubled, tries, slips>>
      /\ shaken' \subseteq Users /\ box' = [box EXCEPT ![b] = m]
      /\ call' = BoxWritten([call EXCEPT ![c] = Idle], c, b)
  BY SettledAreUsers DEF DropDefault, WithFlag
<1>4. m \in Mailbox /\ m.status = box[b].status
  BY <1>2, FlagIs
<1>5. m.status = "absent" => m = Absent
  BY <1>2, <1>4, TypeFacts, AbsentFlag
<1>6. m = WithFlag(box[b], FALSE)
  OBVIOUS
<1>7. OnlyMoves(c) /\ call'[c] = Idle /\ BoxNoted(c, b)
  BY <1>3, StopsBox
<1> HIDE DEF b, m
<1>8. /\ box' \in [Boxes -> Mailbox] /\ box'[b] = m
      /\ \A d \in Boxes \ {b} : box'[d] = box[d]
      /\ \A d \in Boxes : box'[d].status = "absent" => box[d].status = "absent" /\ box'[d] = Absent
  BY <1>2, <1>3, <1>4, <1>5, BoxPut
<1>9. Recorded'
  BY <1>3, <1>7, <1>8, TypedBox, TypeFacts
<1> QED BY <1>2, <1>6, <1>7, <1>8, <1>9 DEF b

LEMMA TargetTyped ==
  ASSUME Recorded, NEW c \in Calls, Target(c)
  PROVE  /\ Recorded' /\ OnlyMoves(c) /\ Chosen(call[c]) \in Boxes /\ Owner[Chosen(call[c])] = call[c].who
         /\ \/ box[Chosen(call[c])].isDefault /\ Settles(c) /\ call'[c] = Idle
            \/ Onward(call'[c], call[c], "clear") /\ shaken' = shaken
<1>1. /\ call[c] \in Working /\ call[c] # Idle /\ Sane(call[c]) /\ Reached(call[c])
      /\ call[c].pc = "target"
  BY CallAtWork DEF Target
<1>2. UNCHANGED <<box, since, connects, credential, grant, calls, breaks, crossed, unpurged, mixed, doubled, tries, slips>>
  BY DEF Target
<1>3. Chosen(call[c]) \in Boxes /\ Owner[Chosen(call[c])] = call[c].who
  BY <1>1, NoBoxApart DEF Sane, Chosen
<1>4. CASE box[Chosen(call[c])].isDefault /\ Settles(c)
  <2>1. OnlyMoves(c) /\ call'[c] = Idle /\ shaken' \subseteq Users
    BY <1>4, EndsTyped
  <2>2. Recorded'
    BY <1>2, <2>1, TypedQuiet, TypeFacts
  <2> QED BY <1>3, <1>4, <2>1, <2>2
<1>5. CASE call' = To(c, "clear") /\ shaken' = shaken
  <2>1. OnlyMoves(c) /\ Onward(call'[c], call[c], "clear")
    BY <1>1, <1>5, Goes DEF Steps
  <2>2. InPlace(call'[c])
    BY <1>1, <2>1, SettlersAre DEF Sane, Onward, Continues, Settling
  <2>3. Sane(call'[c])
    BY <1>1, <1>3, <2>1, <2>2, OnwardSane
  <2>4. Reached(call[c])'
    BY <1>1, <1>2, <2>1 DEF Reached, Onward, Continues
  <2>5. Recorded'
    BY <1>2, <1>5, <2>1, <2>3, <2>4, TypedQuiet, TypeFacts
  <2> QED BY <1>3, <1>5, <2>1, <2>5
<1> QED BY <1>4, <1>5 DEF Target

LEMMA ClearTyped ==
  ASSUME Recorded, NEW c \in Calls, Clear(c)
  PROVE  /\ Recorded' /\ OnlyMoves(c) /\ Onward(call'[c], call[c], "set") /\ BoxNoted(c, Chosen(call[c]))
         /\ Chosen(call[c]) \in Boxes /\ Owner[Chosen(call[c])] = call[c].who
         /\ \A d \in Boxes : box'[d] = WithFlag(box[d], box[d].isDefault /\ Owner[d] # call[c].who)
<1> DEFINE b == Chosen(call[c])
           f(d) == box[d].isDefault /\ Owner[d] # call[c].who
<1>1. /\ call[c] \in Working /\ call[c] # Idle /\ Sane(call[c]) /\ Reached(call[c])
      /\ call[c].pc = "clear"
  BY CallAtWork DEF Clear
<1>2. OnlyMoves(c) /\ Onward(call'[c], call[c], "set") /\ BoxNoted(c, b)
  BY <1>1, GoesBox DEF Clear, Steps
<1>3. b \in Boxes /\ Owner[b] = call[c].who
  BY <1>1, NoBoxApart DEF Sane, Chosen
<1>4. box \in [Boxes -> Mailbox]
  BY TypeFacts
<1>5. /\ UNCHANGED <<since, connects, credential, grant, calls, breaks, registryHistory>>
      /\ box' = [d \in Boxes |-> WithFlag(box[d], f(d))]
  <2>1. /\ UNCHANGED <<since, connects, credential, grant, calls, breaks, registryHistory>>
        /\ box' = [d \in Boxes |-> [box[d] EXCEPT !.isDefault = @ /\ Owner[d] # call[c].who]]
    BY DEF Clear
  <2>2. \A d \in Boxes :
          [box[d] EXCEPT !.isDefault = @ /\ Owner[d] # call[c].who] = WithFlag(box[d], f(d))
    <3> SUFFICES ASSUME NEW d \in Boxes
                 PROVE  [box[d] EXCEPT !.isDefault = @ /\ Owner[d] # call[c].who] = WithFlag(box[d], f(d))
      OBVIOUS
    <3>1. box[d] \in Mailbox
      BY <1>4
    <3> QED BY <3>1 DEF WithFlag, Mailbox
  <2> QED BY <2>1, <2>2
<1>6. ASSUME NEW d \in Boxes
      PROVE  /\ box'[d] = WithFlag(box[d], f(d)) /\ box'[d] \in Mailbox /\ box'[d].status = box[d].status
             /\ box'[d].status = "absent" => box'[d] = Absent
  <2>1. box'[d] = WithFlag(box[d], f(d)) /\ box[d] \in Mailbox
    BY <1>4, <1>5
  <2>2. f(d) \in BOOLEAN
    BY <2>1 DEF Mailbox
  <2>3. box'[d] \in Mailbox /\ box'[d].status = box[d].status
    <3> HIDE DEF f
    <3> QED BY <2>1, <2>2, FlagIs
  <2>4. ASSUME box[d].status = "absent" PROVE box'[d] = Absent
    <3>1. box[d] = Absent
      BY <2>4, TypeFacts
    <3>2. f(d) = FALSE
      BY <3>1, AbsentIs
    <3> HIDE DEF f
    <3> QED BY <2>1, <3>1, <3>2, AbsentFlag
  <2> QED BY <2>1, <2>3, <2>4
<1>7. box' \in [Boxes -> Mailbox]
  BY <1>5, <1>6
<1>8. InPlace(call'[c])
  BY <1>1, <1>2, SettlersAre DEF Sane, Onward, Continues, Settling
<1>9. Sane(call'[c])
  BY <1>1, <1>2, <1>3, <1>8, OnwardSane
<1>10. Reached(call[c])'
  <2>1. call[c].of \in Boxes /\ box[call[c].of].status # "absent"
    BY <1>1 DEF Working, Reached
  <2>2. \A d \in Boxes : box[d].status # "absent" => box'[d].status # "absent"
    BY <1>6
  <2> HIDE DEF b, f
  <2> QED BY <1>1, <1>2, <2>1, <2>2, OnwardReached
<1>11. Recorded'
  BY <1>2, <1>5, <1>6, <1>7, <1>9, <1>10, TypedBox, TypeFacts DEF registryHistory
<1> QED BY <1>2, <1>3, <1>6, <1>11

LEMMA SetTyped ==
  ASSUME Recorded, NEW c \in Calls, SetFlag(c)
  PROVE  /\ Recorded' /\ OnlyMoves(c) /\ call'[c] = Idle
         /\ Chosen(call[c]) \in Boxes /\ Owner[Chosen(call[c])] = call[c].who
         /\ \/ /\ Defaults(call[c].who) \subseteq {Chosen(call[c])}
               /\ BoxNoted(c, Chosen(call[c])) /\ shaken' = Settled(call[c])
               /\ box'[Chosen(call[c])] = WithFlag(box[Chosen(call[c])], TRUE)
               /\ \A d \in Boxes \ {Chosen(call[c])} : box'[d] = box[d]
            \/ /\ ~(Defaults(call[c].who) \subseteq {Chosen(call[c])})
               /\ Leaves(c) /\ box' = box
<1> DEFINE b == Chosen(call[c])
           m == WithFlag(box[b], TRUE)
<1>1. /\ call[c] \in Working /\ call[c] # Idle /\ Sane(call[c]) /\ Reached(call[c])
      /\ call[c].pc = "set"
  BY CallAtWork DEF SetFlag
<1>2. b \in Boxes /\ Owner[b] = call[c].who /\ box[b] \in Mailbox
  BY <1>1, NoBoxApart, TypeFacts DEF Sane, Chosen
<1>3. UNCHANGED <<since, connects, credential, grant, calls, breaks, crossed, unpurged, mixed, doubled, tries, slips>>
  BY DEF SetFlag
<1>4. box[b].status # "absent"
  BY <1>1, <1>2, NoBoxApart DEF Reached, Chosen, Sane
<1>5. m \in Mailbox /\ m.status = box[b].status
  BY <1>2, FlagIs
<1>6. m = WithFlag(box[b], TRUE)
  OBVIOUS
<1>7. \/ /\ Defaults(call[c].who) \subseteq {b} /\ shaken' = Settled(call[c])
         /\ box' = [box EXCEPT ![b] = m]
         /\ call' = BoxWritten([call EXCEPT ![c] = Idle], c, b)
      \/ ~(Defaults(call[c].who) \subseteq {b}) /\ Leaves(c) /\ box' = box
  BY <1>2 DEF SetFlag, WithFlag
<1> HIDE DEF b, m
<1>8. CASE ~(Defaults(call[c].who) \subseteq {b}) /\ Leaves(c) /\ box' = box
  <2>1. OnlyMoves(c) /\ call'[c] = Idle /\ shaken' \subseteq Users
    BY <1>8, EndsTyped
  <2>2. Recorded'
    BY <1>3, <1>8, <2>1, TypedQuiet, TypeFacts
  <2> QED BY <1>2, <1>8, <2>1, <2>2 DEF b
<1>9. CASE /\ Defaults(call[c].who) \subseteq {b} /\ shaken' = Settled(call[c])
           /\ box' = [box EXCEPT ![b] = m]
           /\ call' = BoxWritten([call EXCEPT ![c] = Idle], c, b)
  <2>1. OnlyMoves(c) /\ call'[c] = Idle /\ BoxNoted(c, b)
    BY <1>9, StopsBox
  <2>2. shaken' \subseteq Users
    BY <1>9, SettledAreUsers
  <2>3. /\ box' \in [Boxes -> Mailbox] /\ box'[b] = m
        /\ \A d \in Boxes \ {b} : box'[d] = box[d]
        /\ \A d \in Boxes : box'[d].status = "absent" => box[d].status = "absent" /\ box'[d] = Absent
    BY <1>2, <1>4, <1>5, <1>9, BoxPut
  <2>4. Recorded'
    BY <1>3, <2>1, <2>2, <2>3, TypedBox, TypeFacts
  <2> QED BY <1>2, <1>6, <1>9, <2>1, <2>3, <2>4 DEF b
<1> QED BY <1>7, <1>8, <1>9

LEMMA ValidTyped ==
  ASSUME Recorded, NEW c \in Calls, Valid(c)
  PROVE  /\ Recorded' /\ OnlyMoves(c)
         /\ call'[c] = Idle \/ Onward(call'[c], call[c], "evaluate")
         /\ call[c].kind = "refresh"
<1>1. /\ call[c] \in Working /\ call[c] # Idle /\ Sane(call[c]) /\ Reached(call[c])
      /\ call[c].pc = "valid"
  BY CallAtWork DEF Valid
<1>2. call[c].kind = "refresh"
  BY <1>1 DEF Sane, InPlace, Working, Kinds, Settling
<1>3. UNCHANGED <<box, since, connects, credential, grant, calls, breaks, registryHistory>>
  BY DEF Valid
<1>4. CASE call' = [call EXCEPT ![c] = Idle]
  <2>1. OnlyMoves(c) /\ call'[c] = Idle
    BY <1>4, Stops
  <2> QED BY <1>2, <1>3, <2>1, TypedQuiet, TypeFacts DEF registryHistory
<1>5. CASE call' = To(c, "evaluate")
  <2>1. OnlyMoves(c) /\ Onward(call'[c], call[c], "evaluate")
    BY <1>1, <1>5, Goes DEF Steps
  <2>2. Sane(call'[c])
    BY <1>1, <1>2, <2>1, OnwardSane DEF InPlace, Onward, Continues
  <2>3. Reached(call[c])'
    BY <1>1, <1>3, <2>1 DEF Reached, Onward, Continues
  <2> QED BY <1>2, <1>3, <2>1, <2>2, <2>3, TypedQuiet, TypeFacts DEF registryHistory
<1> QED BY <1>4, <1>5 DEF Valid

LEMMA EvaluateTyped ==
  ASSUME Recorded, NEW c \in Calls, Evaluate(c)
  PROVE  /\ Recorded' /\ OnlyMoves(c) /\ call[c].kind = "refresh"
         /\ \/ call'[c] = Idle
            \/ Holding(call'[c], call[c], "renew", credential[call[c].of], call[c].status,
                       call[c].cur, call[c].to)
<1> DEFINE t == credential[call[c].of]
           w == WithToken(call[c], t, "renew")
<1>1. /\ call[c] \in Working /\ call[c] # Idle /\ Sane(call[c]) /\ Reached(call[c])
      /\ call[c].pc = "evaluate"
  BY CallAtWork DEF Evaluate
<1>2. call[c].kind = "refresh"
  BY <1>1 DEF Sane, InPlace, Working, Kinds, Settling
<1>3. UNCHANGED <<box, since, connects, credential, grant, calls, breaks, registryHistory>>
  BY DEF Evaluate
<1>4. CASE call' = [call EXCEPT ![c] = Idle]
  <2>1. OnlyMoves(c) /\ call'[c] = Idle
    BY <1>4, Stops
  <2> QED BY <1>2, <1>3, <2>1, TypedQuiet, TypeFacts DEF registryHistory
<1>5. CASE Worthwhile(t) /\ call' = [call EXCEPT ![c].pc = "renew", ![c].tok = t]
  <2>1. call' = [call EXCEPT ![c] = w]
    BY <1>1, <1>5 DEF WithToken, Working
  <2>2. t \in Credential /\ "renew" \in Steps /\ t = credential[call[c].of]
    BY <1>1, TypeFacts DEF Working, Steps
  <2>3. t.failures < MaxFailures
    BY <1>5, <2>2, NoBoxApart DEF Worthwhile, Exhausted, Credential
  <2>4. w = WithToken(call[c], t, "renew")
    OBVIOUS
  <2> HIDE DEF t, w
  <2>5. Holding(w, call[c], "renew", t, call[c].status, call[c].cur, call[c].to)
    BY <1>1, <2>2, <2>4, KeptToken
  <2>6. OnlyMoves(c) /\ call'[c] = w
    BY <2>1, <2>5, Put DEF Holding, Continues
  <2>7. Sane(w)
    BY <1>1, <1>2, <2>3, <2>5 DEF Sane, InPlace, Holding, Continues, Chosen
  <2>8. Reached(call[c])'
    BY <1>1, <1>3, <2>5, <2>6 DEF Reached, Holding, Continues
  <2>9. Recorded'
    BY <1>3, <2>6, <2>7, <2>8, TypedQuiet, TypeFacts DEF registryHistory
  <2> QED BY <1>2, <2>2, <2>5, <2>6, <2>9
<1> QED BY <1>4, <1>5 DEF Evaluate

LEMMA RenewsTyped ==
  ASSUME Recorded, NEW c \in Calls, Renews(c)
  PROVE  /\ Recorded' /\ OnlyMoves(c) /\ call'[c] = Idle /\ TokenNoted(c, call[c].of)
         /\ credential'[call[c].of] = Saved(credential[call[c].of], call[c].tok,
                                            [status |-> "connected", expiry |-> "ahead", failures |-> 0])
         /\ \A d \in Boxes \ {call[c].of} : credential'[d] = credential[d]
<1> DEFINE b == call[c].of
           n == [status |-> "connected", expiry |-> "ahead", failures |-> 0]
           k == Saved(credential[b], call[c].tok, n)
<1>1. /\ call[c] \in Working /\ call[c] # Idle /\ Sane(call[c]) /\ Reached(call[c])
      /\ call[c].pc = "renew"
  BY CallAtWork DEF Renews
<1>2. OnlyMoves(c) /\ call'[c] = Idle /\ TokenNoted(c, b)
  BY StopsToken DEF Renews
<1>3. /\ credential' = [credential EXCEPT ![b] = Saved(@, call[c].tok, n)]
      /\ tries' = [tries EXCEPT ![b] = 0] /\ slips' = [slips EXCEPT ![b] = 0]
      /\ crossed' = Crossed(c)
      /\ UNCHANGED <<box, since, connects, grant, calls, breaks, shaken, unpurged, mixed, doubled>>
  BY DEF Renews
<1>4. b \in Boxes /\ call[c].tok \in Credential /\ credential \in [Boxes -> Credential]
  BY <1>1, TypeFacts DEF Working
<1>5. credential' = [credential EXCEPT ![b] = k]
  BY <1>3, <1>4
<1>6. k \in Credential
  <2>1. n.status = "connected" /\ n.expiry = "ahead" /\ n.failures = 0 /\ 0 \in 0 .. MaxFailures
    BY RegistryAssumption
  <2> HIDE DEF n
  <2>2. credential[b] \in Credential
    BY <1>4
  <2> QED BY <1>4, <2>1, <2>2, SavedIs
<1>7. k = Saved(credential[b], call[c].tok, n)
  OBVIOUS
<1> HIDE DEF b, k, n
<1>8. /\ credential' \in [Boxes -> Credential] /\ credential'[b] = k
      /\ \A d \in Boxes \ {b} : credential'[d] = credential[d]
  BY <1>4, <1>5, <1>6, CredentialPut
<1>9. box[b].status # "absent"
  BY <1>1 DEF Reached, b
<1>10. crossed' \subseteq Boxes
  BY <1>3, <1>4, TypeFacts DEF Crossed, b
<1>11. tries' \in [Boxes -> Nat] /\ slips' \in [Boxes -> Nat]
  BY <1>3, <1>4, TypeFacts
<1>12. Recorded'
  BY <1>2, <1>3, <1>8, <1>9, <1>10, <1>11, TypedMoves, TypeFacts
<1> QED BY <1>2, <1>7, <1>8, <1>12 DEF b, n

LEMMA RenewUnsavedTyped ==
  ASSUME Recorded, NEW c \in Calls, RenewUnsaved(c)
  PROVE  /\ Recorded' /\ OnlyMoves(c) /\ call'[c] = Idle /\ TokenNoted(c, call[c].of)
         /\ credential'[call[c].of].failures = 1
         /\ \A d \in Boxes \ {call[c].of} : credential'[d] = credential[d]
<1> DEFINE b == call[c].of
           k == [status |-> "degraded", expiry |-> "ahead", failures |-> 1]
<1>1. /\ call[c] \in Working /\ call[c] # Idle /\ Sane(call[c]) /\ Reached(call[c])
      /\ call[c].pc = "renew"
  BY CallAtWork DEF RenewUnsaved
<1>2. OnlyMoves(c) /\ call'[c] = Idle /\ TokenNoted(c, b)
  BY StopsToken DEF RenewUnsaved
<1>3. /\ credential' = [credential EXCEPT ![b] = k]
      /\ tries' = [tries EXCEPT ![b] = 1] /\ slips' = [slips EXCEPT ![b] = 0]
      /\ crossed' = Crossed(c) /\ breaks < MaxBreaks /\ breaks' = breaks + 1
      /\ UNCHANGED <<box, since, connects, grant, calls, shaken, unpurged, mixed, doubled>>
  BY DEF RenewUnsaved
<1>4. b \in Boxes
  BY <1>1 DEF Working
<1>5. k \in Credential /\ k.failures = 1
  BY RegistryAssumption DEF Credential
<1> HIDE DEF b, k
<1>6. /\ credential' \in [Boxes -> Credential] /\ credential'[b] = k
      /\ \A d \in Boxes \ {b} : credential'[d] = credential[d]
  BY <1>3, <1>4, <1>5, CredentialPut
<1>7. box[b].status # "absent"
  BY <1>1 DEF Reached, b
<1>8. crossed' \subseteq Boxes
  BY <1>3, <1>4, TypeFacts DEF Crossed, b
<1>9. tries' \in [Boxes -> Nat] /\ slips' \in [Boxes -> Nat] /\ breaks' \in 0 .. MaxBreaks
  BY <1>3, <1>4, TypeFacts, RegistryAssumption
<1>10. Recorded'
  BY <1>2, <1>3, <1>6, <1>7, <1>8, <1>9, TypedMoves, TypeFacts
<1> QED BY <1>2, <1>5, <1>6, <1>10 DEF b

(* What a failure writes. *)
Failed(t) == [t EXCEPT !.status = "expired", !.failures = @ + 1]

LEMMA RenewFailsTyped ==
  ASSUME Recorded, NEW c \in Calls, RenewFails(c)
  PROVE  /\ Recorded' /\ OnlyMoves(c) /\ TokenNoted(c, call[c].of)
         /\ Holding(call'[c], call[c], "mark", call[c].tok, "expired", call[c].cur, call[c].to)
         /\ call[c].kind = "refresh"
         /\ credential'[call[c].of] = Saved(credential[call[c].of], call[c].tok, Failed(call[c].tok))
         /\ \A d \in Boxes \ {call[c].of} : credential'[d] = credential[d]
<1> DEFINE b == call[c].of
           n == Failed(call[c].tok)
           k == Saved(credential[b], call[c].tok, n)
           w == WithStatus(call[c], "expired", "mark")
<1>1. /\ call[c] \in Working /\ call[c] # Idle /\ Sane(call[c]) /\ Reached(call[c])
      /\ call[c].pc = "renew"
  BY CallAtWork DEF RenewFails
<1>2. call[c].kind = "refresh" /\ call[c].tok.failures < MaxFailures
  BY <1>1 DEF Sane, InPlace, Working, Kinds, Settling
<1>3. /\ credential' = [credential EXCEPT ![b] = Saved(@, call[c].tok, n)]
      /\ tries' = [tries EXCEPT ![b] = @ + 1]
      /\ slips' = [slips EXCEPT ![b] = IF credential[b].failures - call[c].tok.failures > 0
                                       THEN @ + (credential[b].failures - call[c].tok.failures) ELSE @]
      /\ crossed' = Crossed(c)
      /\ call' = TokenWritten([call EXCEPT ![c] = w], c, b)
      /\ UNCHANGED <<box, since, connects, grant, calls, breaks, shaken, unpurged, mixed, doubled>>
  BY DEF RenewFails, Failed, WithStatus
<1>4. b \in Boxes /\ call[c].tok \in Credential /\ credential \in [Boxes -> Credential]
  BY <1>1, TypeFacts DEF Working
<1>5. credential' = [credential EXCEPT ![b] = k]
  BY <1>3, <1>4
<1>6. k \in Credential
  <2>1. n.status = "expired" /\ n.expiry = call[c].tok.expiry /\ n.failures \in 0 .. MaxFailures
    BY <1>2, <1>4, NoBoxApart DEF Failed, Credential
  <2> HIDE DEF n
  <2>2. credential[b] \in Credential
    BY <1>4
  <2> QED BY <1>4, <2>1, <2>2, SavedIs
<1>7. k = Saved(credential[b], call[c].tok, n)
  OBVIOUS
<1>8. w = WithStatus(call[c], "expired", "mark") /\ "mark" \in Steps /\ "expired" \in Statuses
  BY DEF Steps, Statuses
<1>9. tries' \in [Boxes -> Nat] /\ slips' \in [Boxes -> Nat]
  <2>1. credential[b].failures \in Nat /\ call[c].tok.failures \in Nat
    BY <1>4, NoBoxApart DEF Credential
  <2>2. tries[b] \in Nat /\ slips[b] \in Nat /\ tries \in [Boxes -> Nat] /\ slips \in [Boxes -> Nat]
    BY <1>4, TypeFacts
  <2>3. tries' \in [Boxes -> Nat]
    <3>1. tries' = [tries EXCEPT ![b] = tries[b] + 1] /\ tries[b] + 1 \in Nat
      BY <1>3, <1>4, <2>2
    <3> QED BY <2>2, <3>1
  <2> DEFINE s == IF credential[b].failures - call[c].tok.failures > 0
                  THEN slips[b] + (credential[b].failures - call[c].tok.failures) ELSE slips[b]
  <2>4. s \in Nat
    BY <2>1, <2>2
  <2>5. slips' = [slips EXCEPT ![b] = s]
    BY <1>3, <1>4, <2>2
  <2> HIDE DEF s
  <2>6. slips' \in [Boxes -> Nat]
    BY <2>2, <2>4, <2>5
  <2> QED BY <2>3, <2>6
<1> HIDE DEF b, k, n, w
<1>10. Holding(w, call[c], "mark", call[c].tok, "expired", call[c].cur, call[c].to)
  BY <1>1, <1>8, KeptStatus
<1>11. OnlyMoves(c) /\ call'[c] = w /\ TokenNoted(c, b)
  BY <1>3, <1>10, PutToken DEF Holding, Continues
<1>12. /\ credential' \in [Boxes -> Credential] /\ credential'[b] = k
      /\ \A d \in Boxes \ {b} : credential'[d] = credential[d]
  BY <1>4, <1>5, <1>6, CredentialPut
<1>13. Sane(w)
  BY <1>1, <1>2, <1>10 DEF Sane, InPlace, Holding, Continues, Chosen
<1>14. Reached(call[c])'
  BY <1>1, <1>3, <1>10, <1>11 DEF Reached, Holding, Continues
<1>15. box[b].status # "absent"
  BY <1>1 DEF Reached, b
<1>16. crossed' \subseteq Boxes
  BY <1>3, <1>4, TypeFacts DEF Crossed, b
<1>17. Recorded'
  BY <1>3, <1>9, <1>11, <1>12, <1>13, <1>14, <1>15, <1>16, TypedMoves, TypeFacts
<1> QED BY <1>2, <1>7, <1>10, <1>11, <1>12, <1>17 DEF b, n

LEMMA ProbeTyped ==
  ASSUME Recorded, NEW c \in Calls, Probe(c)
  PROVE  /\ Recorded' /\ OnlyMoves(c) /\ call[c].kind = "validate"
         /\ Holding(call'[c], call[c], "mark", call[c].tok, call'[c].status, call[c].cur, call[c].to)
<1>1. /\ call[c] \in Working /\ call[c] # Idle /\ Sane(call[c]) /\ Reached(call[c])
      /\ call[c].pc = "probe"
  BY CallAtWork DEF Probe
<1>2. call[c].kind = "validate"
  BY <1>1 DEF Sane, InPlace, Working, Kinds, Settling
<1>3. UNCHANGED <<box, since, connects, credential, grant, calls, breaks, registryHistory>>
  BY DEF Probe
<1>4. PICK s \in {"connected", "expired"} : call' = [call EXCEPT ![c].pc = "mark", ![c].status = s]
  BY DEF Probe
<1> DEFINE w == WithStatus(call[c], s, "mark")
<1>5. call' = [call EXCEPT ![c] = w]
  BY <1>4 DEF WithStatus
<1>6. w = WithStatus(call[c], s, "mark") /\ "mark" \in Steps /\ s \in Statuses
  BY DEF Steps, Statuses
<1> HIDE DEF w
<1>7. Holding(w, call[c], "mark", call[c].tok, s, call[c].cur, call[c].to)
  BY <1>1, <1>6, KeptStatus
<1>8. OnlyMoves(c) /\ call'[c] = w
  BY <1>5, <1>7, Put DEF Holding, Continues
<1>9. Sane(w)
  BY <1>1, <1>2, <1>7 DEF Sane, InPlace, Holding, Continues, Chosen
<1>10. Reached(call[c])'
  BY <1>1, <1>3, <1>7, <1>8 DEF Reached, Holding, Continues
<1>11. Recorded'
  BY <1>3, <1>8, <1>9, <1>10, TypedQuiet, TypeFacts DEF registryHistory
<1> QED BY <1>2, <1>7, <1>8, <1>11 DEF Holding

LEMMA MarkStatusTyped ==
  ASSUME Recorded, NEW c \in Calls, MarkStatus(c)
  PROVE  /\ Recorded' /\ OnlyMoves(c) /\ call'[c] = Idle /\ BoxNoted(c, call[c].of)
         /\ call[c].status \in {"connected", "expired"} /\ call[c].kind \in {"refresh", "validate"}
         /\ box'[call[c].of] = WithState(box[call[c].of], call[c].status, box[call[c].of].gone)
         /\ \A d \in Boxes \ {call[c].of} : box'[d] = box[d]
<1> DEFINE b == call[c].of
           m == WithState(box[b], call[c].status, box[b].gone)
<1>1. /\ call[c] \in Working /\ call[c] # Idle /\ Sane(call[c]) /\ Reached(call[c])
      /\ call[c].pc = "mark" /\ call[c].kind # "disconnect"
  BY CallAtWork DEF MarkStatus
<1>2. OnlyMoves(c) /\ call'[c] = Idle /\ BoxNoted(c, b)
  BY <1>1, StopsBox DEF MarkStatus
<1>3. b \in Boxes /\ box[b] \in Mailbox /\ Owner[b] \in Users
  BY <1>1, TypeFacts, NoBoxApart DEF Working
<1>4. call[c].kind \in {"refresh", "validate"} /\ call[c].status \in {"connected", "expired"}
  BY <1>1 DEF Sane, InPlace, Working, Kinds, Settling
<1>5. /\ UNCHANGED <<since, connects, credential, grant, calls, breaks, unpurged, mixed, doubled, tries, slips>>
      /\ shaken' = shaken \cup {Owner[b]} /\ crossed' = Crossed(c)
  BY DEF MarkStatus
<1>6. box' = [box EXCEPT ![b] = m]
  <2>1. box' = [box EXCEPT ![b].status = call[c].status]
    BY DEF MarkStatus
  <2>2. [box[b] EXCEPT !.status = call[c].status] = m
    BY <1>3 DEF WithState, Mailbox
  <2> QED BY <2>1, <2>2
<1>7. m \in Mailbox /\ m.status = call[c].status
  BY <1>3, <1>4, StateIs DEF Statuses, Mailbox
<1>8. crossed' \subseteq Boxes
  BY <1>3, <1>5, TypeFacts DEF Crossed
<1>9. m = WithState(box[b], call[c].status, box[b].gone)
  OBVIOUS
<1> HIDE DEF b, m
<1>10. /\ box' \in [Boxes -> Mailbox] /\ box'[b] = m
       /\ \A d \in Boxes \ {b} : box'[d] = box[d]
       /\ \A d \in Boxes : box'[d].status = "absent" => box[d].status = "absent" /\ box'[d] = Absent
  BY <1>3, <1>4, <1>6, <1>7, BoxPut
<1>11. Recorded'
  BY <1>2, <1>3, <1>5, <1>8, <1>10, TypedBox, TypeFacts
<1> QED BY <1>2, <1>4, <1>9, <1>10, <1>11 DEF b

LEMMA TokenAgesTyped ==
  ASSUME Recorded, NEW b \in Boxes, TokenAges(b)
  PROVE  /\ Recorded' /\ credential'[b].status = credential[b].status
         /\ credential'[b].failures = credential[b].failures
         /\ \A d \in Boxes \ {b} : credential'[d] = credential[d]
<1>1. credential[b] \in Credential /\ box \in [Boxes -> Mailbox]
  BY TypeFacts
<1>2. /\ credential' = [credential EXCEPT ![b].expiry = "due"] /\ credential[b].expiry = "ahead"
      /\ UNCHANGED <<box, since, connects, grant, call, calls, breaks, registryHistory>>
  BY DEF TokenAges
<1> DEFINE k == [credential[b] EXCEPT !.expiry = "due"]
<1>3. /\ k \in Credential /\ k.status = credential[b].status /\ k.failures = credential[b].failures
  BY <1>1 DEF Credential
<1>4. credential' = [credential EXCEPT ![b] = k]
  BY <1>2
<1> HIDE DEF k
<1>5. /\ credential' \in [Boxes -> Credential] /\ credential'[b] = k
      /\ \A d \in Boxes \ {b} : credential'[d] = credential[d]
  BY <1>3, <1>4, CredentialPut
<1>6. box[b].status # "absent"
  BY <1>2, TypeFacts DEF NoAccess
<1>7. Recorded'
  BY <1>2, <1>5, <1>6, TypeFacts, TypeGlue DEF registryHistory, Reached
<1> QED BY <1>3, <1>5, <1>7

WithAssigned(m, A, D) == [m EXCEPT !.assigned = A, !.defaults = D]

LEMMA AssignedIs ==
  ASSUME NEW m \in Mailbox, NEW A \in SUBSET Users, NEW D \in SUBSET Users
  PROVE  /\ WithAssigned(m, A, D) \in Mailbox
         /\ WithAssigned(m, A, D).status = m.status /\ WithAssigned(m, A, D).gone = m.gone
         /\ WithAssigned(m, A, D).isDefault = m.isDefault
         /\ WithAssigned(m, A, D).assigned = A /\ WithAssigned(m, A, D).defaults = D
BY DEF WithAssigned, Mailbox

LEMMA EditTyped ==
  ASSUME Recorded, NEW c \in Calls, Edit(c)
  PROVE  /\ Recorded' /\ OnlyMoves(c) /\ call[c].kind \in Assigning
         /\ \/ call'[c] = Idle
            \/ /\ Wanted(call[c])
               /\ Continues(call'[c], call[c])
               /\ call'[c].pc = IF call[c].kind = "prefer" THEN "pull" ELSE "save"
               /\ call'[c].list = box[call[c].of].assigned
               /\ call'[c].defs = box[call[c].of].defaults
<1> DEFINE m == box[call[c].of]
           pc == IF call[c].kind = "prefer" THEN "pull" ELSE "save"
           w == WithLists(call[c], m.assigned, m.defaults, pc)
<1>1. /\ call[c] \in Working /\ call[c] # Idle /\ Sane(call[c]) /\ Reached(call[c])
      /\ call[c].pc = "edit"
  BY CallAtWork DEF Edit
<1>2. call[c].kind \in {"assign", "unassign", "prefer"}
  BY <1>1 DEF Sane, InPlace, Working, Kinds, Settling
<1>3. UNCHANGED <<box, since, connects, credential, grant, calls, breaks, registryHistory>>
  BY DEF Edit
<1>4. CASE call' = [call EXCEPT ![c] = Idle]
  <2>1. OnlyMoves(c) /\ call'[c] = Idle
    BY <1>4, Stops
  <2> QED BY <1>2, <1>3, <2>1, TypedQuiet, TypeFacts DEF registryHistory, Assigning
<1>5. CASE /\ Wanted(call[c])
           /\ call' = [call EXCEPT ![c].pc = pc, ![c].list = m.assigned, ![c].defs = m.defaults]
  <2>1. call' = [call EXCEPT ![c] = w]
    BY <1>1, <1>5 DEF WithLists, Working
  <2>2. /\ call[c].of \in Boxes /\ m \in Mailbox /\ pc \in Steps
        /\ m.assigned \in SUBSET Users /\ m.defaults \in SUBSET Users
    BY <1>1, TypeFacts DEF Working, Mailbox, Steps
  <2>3. m.status # "absent"
    <3>1. m.status = "absent" => m = Absent
      BY <2>2, TypeFacts
    <3> HIDE DEF m
    <3>2. Absent.assigned = {} /\ Absent.status = "absent"
      BY AbsentIs
    <3>3. CASE call[c].kind = "assign"
      BY <1>5, <3>3 DEF Wanted, Assignable, IsOpen, m
    <3>4. CASE call[c].kind = "unassign"
      <4>1. call[c].who \in m.assigned
        BY <1>5, <3>4 DEF Wanted, m
      <4> QED BY <3>1, <3>2, <4>1
    <3>5. CASE call[c].kind = "prefer"
      BY <1>5, <3>5 DEF Wanted, Assignable, IsOpen, m
    <3> QED BY <1>2, <3>3, <3>4, <3>5
  <2>4. pc = IF call[c].kind = "prefer" THEN "pull" ELSE "save"
    OBVIOUS
  <2>5. w = WithLists(call[c], m.assigned, m.defaults, pc)
    OBVIOUS
  <2> HIDE DEF w, pc
  <2>6. /\ Holding(w, call[c], pc, call[c].tok, call[c].status, call[c].cur, call[c].to)
        /\ w.list = m.assigned /\ w.defs = m.defaults
    <3> HIDE DEF m
    <3> QED BY <1>1, <2>2, <2>5, KeptLists
  <2>7. OnlyMoves(c) /\ call'[c] = w
    BY <2>1, <2>6, Put DEF Holding, Continues
  <2>8. Sane(w)
    BY <1>1, <1>2, <2>4, <2>6 DEF Sane, InPlace, Holding, Continues, Chosen
  <2>9. Reached(call[c])'
    BY <1>1, <1>3, <2>3, <2>6, <2>7 DEF Reached, Holding, Continues
  <2>10. Recorded'
    BY <1>3, <2>7, <2>8, <2>9, TypedQuiet, TypeFacts DEF registryHistory
  <2> QED BY <1>2, <1>5, <2>4, <2>6, <2>7, <2>10 DEF Assigning, Holding
<1> QED BY <1>4, <1>5 DEF Edit

LEMMA SaveTyped ==
  ASSUME Recorded, NEW c \in Calls, SaveLists(c)
  PROVE  /\ Recorded' /\ OnlyMoves(c) /\ call'[c] = Idle /\ ListsNoted(c, {call[c].of}, {})
         /\ call[c].kind \in {"assign", "unassign"}
         /\ box'[call[c].of] =
              IF call[c].kind = "assign"
              THEN WithAssigned(box[call[c].of], call[c].list \cup {call[c].who}, box[call[c].of].defaults)
              ELSE WithAssigned(box[call[c].of], call[c].list \ {call[c].who},
                                DefaultsCleared(call[c], box[call[c].of].defaults))
         /\ \A d \in Boxes \ {call[c].of} : box'[d] = box[d]
<1> DEFINE b == call[c].of
           D == DefaultsCleared(call[c], box[b].defaults)
           m == IF call[c].kind = "assign"
                THEN WithAssigned(box[b], call[c].list \cup {call[c].who}, box[b].defaults)
                ELSE WithAssigned(box[b], call[c].list \ {call[c].who}, D)
<1>1. /\ call[c] \in Working /\ call[c] # Idle /\ Sane(call[c]) /\ Reached(call[c])
      /\ call[c].pc = "save"
  BY CallAtWork DEF SaveLists
<1>2. call[c].kind \in {"assign", "unassign"}
  BY <1>1 DEF Sane, InPlace, Working, Kinds, Settling
<1>3. OnlyMoves(c) /\ call'[c] = Idle /\ ListsNoted(c, {b}, {})
  BY StopsLists DEF SaveLists
<1>4. /\ b \in Boxes /\ box \in [Boxes -> Mailbox] /\ box[b] \in Mailbox /\ call[c].who \in Users
      /\ call[c].list \subseteq Users /\ call[c].defs \subseteq Users
  BY <1>1, TypeFacts DEF Working
<1>5. box[b].defaults \subseteq Users
  BY <1>4 DEF Mailbox
<1>6. D \subseteq Users
  BY <1>4, <1>5 DEF DefaultsCleared
<1>7. /\ UNCHANGED <<since, connects, credential, grant, calls, breaks, shaken, crossed, unpurged, tries, slips>>
      /\ mixed' \subseteq Boxes /\ doubled' \subseteq Users
  BY <1>4, TypeFacts DEF SaveLists
<1>8. box' = [box EXCEPT ![b] = m]
  <2>1. CASE call[c].kind = "assign"
    <3>1. box' = [box EXCEPT ![b].assigned = call[c].list \cup {call[c].who}]
      BY <2>1 DEF SaveLists
    <3>2. [box[b] EXCEPT !.assigned = call[c].list \cup {call[c].who}] = m
      BY <1>4, <2>1 DEF WithAssigned, Mailbox
    <3> QED BY <3>1, <3>2
  <2>2. CASE call[c].kind # "assign"
    <3>1. box' = [box EXCEPT ![b].assigned = call[c].list \ {call[c].who},
                             ![b].defaults = DefaultsCleared(call[c], @)]
      BY <2>2 DEF SaveLists
    <3>2. [box[b] EXCEPT !.assigned = call[c].list \ {call[c].who},
                         !.defaults = DefaultsCleared(call[c], @)] = m
      BY <1>4, <2>2 DEF WithAssigned, Mailbox
    <3> QED BY <1>4, <3>1, <3>2
  <2> QED BY <2>1, <2>2
<1>9. m \in Mailbox /\ m.status = box[b].status
  <2> HIDE DEF D
  <2>1. CASE call[c].kind = "assign"
    BY <1>4, <1>5, <2>1, AssignedIs
  <2>2. CASE call[c].kind # "assign"
    BY <1>4, <1>6, <2>2, AssignedIs
  <2> QED BY <2>1, <2>2
<1>10. m = IF call[c].kind = "assign"
           THEN WithAssigned(box[b], call[c].list \cup {call[c].who}, box[b].defaults)
           ELSE WithAssigned(box[b], call[c].list \ {call[c].who}, D)
  OBVIOUS
<1> HIDE DEF b, m, D
<1>11. box[b].status # "absent"
  BY <1>1 DEF Reached, b
<1>12. /\ box' \in [Boxes -> Mailbox] /\ box'[b] = m
       /\ \A d \in Boxes \ {b} : box'[d] = box[d]
       /\ \A d \in Boxes : box'[d].status = "absent" => box[d].status = "absent" /\ box'[d] = Absent
  BY <1>4, <1>8, <1>9, <1>11, BoxPut
<1>13. Recorded'
  BY <1>3, <1>7, <1>12, TypedBox, TypeFacts
<1> QED BY <1>2, <1>3, <1>10, <1>12, <1>13 DEF b, D

LEMMA PullTyped ==
  ASSUME Recorded, NEW c \in Calls, Pull(c)
  PROVE  /\ Recorded' /\ OnlyMoves(c) /\ Onward(call'[c], call[c], "add") /\ call[c].kind = "prefer"
         /\ ListsNoted(c, {b \in Boxes \ {call[c].of} : call[c].who \in box[b].defaults}, {})
         /\ box'[call[c].of] = box[call[c].of]
         /\ \A d \in Boxes \ {call[c].of} :
              box'[d] = WithAssigned(box[d], box[d].assigned, box[d].defaults \ {call[c].who})
<1> DEFINE b == call[c].of
           B == {d \in Boxes \ {b} : call[c].who \in box[d].defaults}
           m(d) == IF d = b THEN box[d]
                   ELSE WithAssigned(box[d], box[d].assigned, box[d].defaults \ {call[c].who})
<1>1. /\ call[c] \in Working /\ call[c] # Idle /\ Sane(call[c]) /\ Reached(call[c])
      /\ call[c].pc = "pull"
  BY CallAtWork DEF Pull
<1>2. call[c].kind = "prefer"
  BY <1>1 DEF Sane, InPlace, Working, Kinds, Settling
<1>3. OnlyMoves(c) /\ Onward(call'[c], call[c], "add") /\ ListsNoted(c, B, {})
  BY <1>1, GoesLists DEF Pull, Steps
<1>4. b \in Boxes /\ box \in [Boxes -> Mailbox]
  BY <1>1, TypeFacts DEF Working
<1>5. UNCHANGED <<since, connects, credential, grant, calls, breaks, registryHistory>>
  BY DEF Pull
<1>6. box' = [d \in Boxes |-> m(d)]
  <2>1. box' = [d \in Boxes |-> IF d = b THEN box[d]
                                ELSE [box[d] EXCEPT !.defaults = @ \ {call[c].who}]]
    BY DEF Pull
  <2>2. \A d \in Boxes : (IF d = b THEN box[d] ELSE [box[d] EXCEPT !.defaults = @ \ {call[c].who}]) = m(d)
    <3> SUFFICES ASSUME NEW d \in Boxes, d # b
                 PROVE  [box[d] EXCEPT !.defaults = @ \ {call[c].who}] = m(d)
      OBVIOUS
    <3>1. box[d] \in Mailbox
      BY <1>4
    <3> QED BY <3>1 DEF WithAssigned, Mailbox
  <2> QED BY <2>1, <2>2
<1>7. ASSUME NEW d \in Boxes
      PROVE  /\ box'[d] = m(d) /\ box'[d] \in Mailbox /\ box'[d].status = box[d].status
             /\ box'[d].status = "absent" => box'[d] = Absent
  <2>1. box'[d] = m(d) /\ box[d] \in Mailbox
    BY <1>4, <1>6
  <2>2. CASE d = b
    BY <2>1, <2>2, TypeFacts
  <2>3. CASE d # b
    <3> DEFINE A == box[d].assigned
               D == box[d].defaults \ {call[c].who}
    <3>1. A \in SUBSET Users /\ D \in SUBSET Users
      BY <2>1 DEF Mailbox
    <3>2. box'[d] = WithAssigned(box[d], A, D)
      BY <2>1, <2>3
    <3>3. box[d].status = "absent" => A = {} /\ D = {} /\ box[d] = Absent
      BY TypeFacts, AbsentIs
    <3> HIDE DEF A, D
    <3>4. /\ box'[d] \in Mailbox /\ box'[d].status = box[d].status /\ box'[d].gone = box[d].gone
          /\ box'[d].isDefault = box[d].isDefault /\ box'[d].assigned = A /\ box'[d].defaults = D
      BY <2>1, <3>1, <3>2, AssignedIs
    <3>5. box[d].status = "absent" => box'[d] = Absent
      BY <3>3, <3>4, AbsentIs
    <3> QED BY <2>1, <3>4, <3>5
  <2> QED BY <2>2, <2>3
<1>8. box' \in [Boxes -> Mailbox]
  BY <1>6, <1>7
<1>9. Sane(call'[c])
  BY <1>1, <1>2, <1>3, OnwardSane DEF InPlace, Onward, Continues
<1>10. Reached(call[c])'
  <2>1. box[b].status # "absent" /\ \A d \in Boxes : box[d].status # "absent" => box'[d].status # "absent"
    BY <1>1, <1>7 DEF Reached
  <2> QED BY <1>1, <1>3, <1>4, <2>1, OnwardReached
<1>11. Recorded'
  BY <1>3, <1>5, <1>7, <1>8, <1>9, <1>10, TypedBox, TypeFacts DEF registryHistory
<1> QED BY <1>2, <1>3, <1>4, <1>7, <1>11

LEMMA AddTyped ==
  ASSUME Recorded, NEW c \in Calls, Add(c)
  PROVE  /\ Recorded' /\ OnlyMoves(c) /\ call'[c] = Idle /\ ListsNoted(c, {call[c].of}, {call[c].who})
         /\ call[c].kind = "prefer"
         /\ box'[call[c].of] = WithAssigned(box[call[c].of], box[call[c].of].assigned,
                                            box[call[c].of].defaults \cup {call[c].who})
         /\ \A d \in Boxes \ {call[c].of} : box'[d] = box[d]
<1> DEFINE b == call[c].of
           m == WithAssigned(box[b], box[b].assigned, box[b].defaults \cup {call[c].who})
<1>1. /\ call[c] \in Working /\ call[c] # Idle /\ Sane(call[c]) /\ Reached(call[c])
      /\ call[c].pc = "add"
  BY CallAtWork DEF Add
<1>2. call[c].kind = "prefer"
  BY <1>1 DEF Sane, InPlace, Working, Kinds, Settling
<1>3. OnlyMoves(c) /\ call'[c] = Idle /\ ListsNoted(c, {b}, {call[c].who})
  BY StopsLists DEF Add
<1>4. b \in Boxes /\ box[b] \in Mailbox /\ call[c].who \in Users
  BY <1>1, TypeFacts DEF Working
<1>5. box[b].assigned \in SUBSET Users /\ box[b].defaults \cup {call[c].who} \in SUBSET Users
  BY <1>4 DEF Mailbox
<1>6. /\ UNCHANGED <<since, connects, credential, grant, calls, breaks, shaken, crossed, unpurged, tries, slips>>
      /\ mixed' \subseteq Boxes /\ doubled' \subseteq Users
  BY <1>4, TypeFacts DEF Add
<1>7. box' = [box EXCEPT ![b] = m]
  <2>1. box' = [box EXCEPT ![b].defaults = @ \cup {call[c].who}]
    BY DEF Add
  <2>2. [box[b] EXCEPT !.defaults = @ \cup {call[c].who}] = m
    BY <1>4 DEF WithAssigned, Mailbox
  <2> QED BY <1>4, <2>1, <2>2
<1>8. m \in Mailbox /\ m.status = box[b].status
  BY <1>4, <1>5, AssignedIs
<1>9. m = WithAssigned(box[b], box[b].assigned, box[b].defaults \cup {call[c].who})
  OBVIOUS
<1> HIDE DEF b, m
<1>10. box[b].status # "absent"
  BY <1>1 DEF Reached, b
<1>11. /\ box' \in [Boxes -> Mailbox] /\ box'[b] = m
       /\ \A d \in Boxes \ {b} : box'[d] = box[d]
       /\ \A d \in Boxes : box'[d].status = "absent" => box[d].status = "absent" /\ box'[d] = Absent
  BY <1>4, <1>7, <1>8, <1>10, BoxPut
<1>12. Recorded'
  BY <1>3, <1>6, <1>11, TypedBox, TypeFacts
<1> QED BY <1>2, <1>3, <1>9, <1>11, <1>12 DEF b

LEMMA ThrowsTyped ==
  ASSUME Recorded, NEW c \in Calls, CallThrows(c)
  PROVE  Recorded' /\ OnlyMoves(c) /\ call'[c] = Idle
<1>1. OnlyMoves(c) /\ call'[c] = Idle
  BY Stops DEF CallThrows
<1>2. /\ UNCHANGED <<box, since, connects, credential, grant, calls, crossed, unpurged, mixed, doubled, tries, slips>>
      /\ shaken' \subseteq Users /\ breaks' \in 0 .. MaxBreaks
  BY SettledAreUsers, TypeFacts, RegistryAssumption DEF CallThrows
<1> QED BY <1>1, <1>2, TypedQuiet, TypeFacts

LEMMA CrashTyped ==
  ASSUME Recorded, RegistryCrash
  PROVE  Recorded' /\ \A c \in Calls : call'[c] = Idle
<1>1. call' \in [Calls -> Working \cup {Idle}] /\ \A c \in Calls : call'[c] = Idle
  BY DEF RegistryCrash
<1>2. shaken' \subseteq Users
  BY MindsAreUsers, TypeFacts DEF RegistryCrash
<1>3. /\ UNCHANGED <<box, since, connects, credential, grant, calls, crossed, unpurged, mixed, doubled, tries, slips>>
      /\ breaks' \in 0 .. MaxBreaks
  BY TypeFacts, RegistryAssumption DEF RegistryCrash
<1>4. Recorded'
  BY <1>1, <1>2, <1>3, TypeFacts, TypeGlue
<1> QED BY <1>1, <1>4

(* The first state, mailbox by mailbox. *)
InitMailbox(b, ended, given, flagged, preferred, open) ==
  [status    |-> IF b \in open THEN "connected" ELSE IF b \in ended THEN "disconnected" ELSE "absent",
   gone      |-> b \in ended,
   isDefault |-> flagged[Owner[b]] = b,
   assigned  |-> given[b],
   defaults  |-> {u \in Users : preferred[u] = b}]

InitAs(ended, given, flagged, preferred, open) ==
  /\ open = {b \in Boxes \ ended : since[b] # 0}
  /\ \A b \in Boxes : Owner[b] \notin given[b] /\ (since[b] = 0 => given[b] = {})
  /\ \A u \in Users :
       /\ flagged[u] \in IF Owned(u) \cap open = {} THEN {NoBox} ELSE Owned(u) \cap open
       /\ preferred[u] \in {NoBox} \cup {b \in Boxes : u \in given[b]}
  /\ box = [b \in Boxes |-> InitMailbox(b, ended, given, flagged, preferred, open)]
  /\ credential = [b \in Boxes |-> IF b \in open THEN [NoAccess EXCEPT !.status = "connected"] ELSE NoAccess]
  /\ grant = open

LEMMA InitBoxes ==
  ASSUME RegistryInit
  PROVE  \E ended \in SUBSET {b \in Boxes : since[b] # 0},
            given \in [Boxes -> SUBSET Users], flagged \in [Users -> Boxes \cup {NoBox}],
            preferred \in [Users -> Boxes \cup {NoBox}], open \in SUBSET Boxes :
         InitAs(ended, given, flagged, preferred, open)
<1>1. PICK ended \in SUBSET {b \in Boxes : since[b] # 0},
           given \in [Boxes -> SUBSET Users], flagged, preferred \in [Users -> Boxes \cup {NoBox}] :
             InitAs(ended, given, flagged, preferred, {b \in Boxes \ ended : since[b] # 0})
  BY DEF RegistryInit, InitAs, InitMailbox
<1> QED BY <1>1

LEMMA InitTyped == RegistryInit => Recorded
<1> SUFFICES ASSUME RegistryInit PROVE Recorded
  OBVIOUS
<1>1. PICK ended \in SUBSET {b \in Boxes : since[b] # 0},
           given \in [Boxes -> SUBSET Users], flagged \in [Users -> Boxes \cup {NoBox}],
           preferred \in [Users -> Boxes \cup {NoBox}], open \in SUBSET Boxes :
             InitAs(ended, given, flagged, preferred, open)
  BY InitBoxes
<1>2. /\ connects = Cardinality(Boxes) /\ connects \in Nat /\ since \in [Boxes -> 0 .. connects]
  BY RegistryAssumption, FS_CardinalityType DEF RegistryInit
<1>3. ASSUME NEW b \in Boxes
      PROVE  box[b] \in Mailbox /\ (box[b].status = "absent" => box[b] = Absent /\ credential[b] = NoAccess)
  <2>1. box[b] = InitMailbox(b, ended, given, flagged, preferred, open)
    BY <1>1 DEF InitAs
  <2>2. /\ box[b].status = IF b \in open THEN "connected" ELSE IF b \in ended THEN "disconnected" ELSE "absent"
        /\ box[b].gone = (b \in ended) /\ box[b].isDefault = (flagged[Owner[b]] = b)
        /\ box[b].assigned = given[b] /\ box[b].defaults = {u \in Users : preferred[u] = b}
        /\ box[b] \in Mailbox
    <3>1. given[b] \in SUBSET Users /\ {u \in Users : preferred[u] = b} \in SUBSET Users
      BY <1>1
    <3> QED BY <2>1, <3>1 DEF InitMailbox, Mailbox, Statuses
  <2>3. ASSUME box[b].status = "absent" PROVE box[b] = Absent /\ credential[b] = NoAccess
    <3>1. b \notin open /\ b \notin ended /\ since[b] = 0
      BY <2>2, <2>3, <1>1 DEF InitAs
    <3>2. given[b] = {} /\ credential[b] = NoAccess
      BY <1>1, <3>1 DEF InitAs
    <3>3. flagged[Owner[b]] # b
      BY <1>1, <3>1, NoBoxApart DEF InitAs
    <3>4. {u \in Users : preferred[u] = b} = {}
      BY <1>1, <3>2, NoBoxApart DEF InitAs
    <3>5. box[b].gone = FALSE /\ box[b].isDefault = FALSE
      BY <2>2, <3>1, <3>3 DEF Mailbox
    <3>6. box[b].assigned = {} /\ box[b].defaults = {}
      BY <2>2, <3>2, <3>4
    <3>7. box[b] = Absent
      BY <2>2, <2>3, <3>5, <3>6, AbsentIs
    <3> QED BY <3>2, <3>7
  <2> QED BY <2>2, <2>3
<1>4. box \in [Boxes -> Mailbox]
  BY <1>1, <1>3 DEF InitAs
<1>5. credential \in [Boxes -> Credential] /\ grant \subseteq Boxes
  <2>1. NoAccess \in Credential /\ [NoAccess EXCEPT !.status = "connected"] \in Credential
    BY IdleIs DEF Credential
  <2> QED BY <1>1, <2>1 DEF InitAs
<1>6. call \in [Calls -> Call \cup {Idle}] /\ \A c \in Calls : call[c] = Idle
  BY DEF RegistryInit
<1>7. RegistryTypes
  <2>1. /\ tries \in [Boxes -> Nat] /\ slips \in [Boxes -> Nat]
        /\ shaken = {} /\ crossed = {} /\ unpurged = grant /\ mixed = {} /\ doubled = {}
        /\ calls \in 0 .. MaxCalls /\ breaks \in 0 .. MaxBreaks
    BY RegistryAssumption DEF RegistryInit
  <2> QED BY <1>2, <1>3, <1>4, <1>5, <1>6, <2>1 DEF RegistryTypes
<1>8. CallsSane
  BY <1>6 DEF CallsSane
<1> QED BY <1>7, <1>8 DEF Recorded

LEMMA NextTyped == Recorded /\ [RegistryNext]_registryVars => Recorded'
<1> SUFFICES ASSUME Recorded, [RegistryNext]_registryVars PROVE Recorded'
  OBVIOUS
<1>1. CASE UNCHANGED registryVars
  BY <1>1, TypeFacts, TypeGlue DEF registryVars, registryHistory, Reached
<1>2. ASSUME NEW c \in Calls, ConnectStep(c) PROVE Recorded'
  BY <1>2, GrantTyped, UpsertTyped, LoadTyped, RecordTyped, ExistsTyped DEF ConnectStep
<1>3. ASSUME NEW c \in Calls, DisconnectStep(c) PROVE Recorded'
  BY <1>3, RevokeTyped, PurgeTyped, MarkGoneTyped, UnflagTyped DEF DisconnectStep
<1>4. ASSUME NEW c \in Calls, DefaultStep(c) PROVE Recorded'
  BY <1>4, CurrentTyped, ReplaceTyped, DropTyped, TargetTyped, ClearTyped, SetTyped DEF DefaultStep
<1>5. ASSUME NEW c \in Calls, RefreshStep(c) PROVE Recorded'
  BY <1>5, ValidTyped, EvaluateTyped, RenewsTyped, RenewUnsavedTyped, RenewFailsTyped, ProbeTyped,
     MarkStatusTyped DEF RefreshStep
<1>6. ASSUME NEW c \in Calls, AssignStep(c) PROVE Recorded'
  BY <1>6, EditTyped, SaveTyped, PullTyped, AddTyped DEF AssignStep
<1>7. ASSUME NEW c \in Calls, CallBegins(c) \/ CallThrows(c) PROVE Recorded'
  BY <1>7, BeginsTyped, ThrowsTyped
<1>8. ASSUME NEW b \in Boxes, TokenAges(b) PROVE Recorded'
  BY <1>8, TokenAgesTyped
<1>9. CASE RegistryCrash
  BY <1>9, CrashTyped
<1> QED BY <1>1, <1>2, <1>3, <1>4, <1>5, <1>6, <1>7, <1>8, <1>9 DEF RegistryNext

LEMMA AlwaysTyped == RegistrySpec => []Recorded
BY InitTyped, NextTyped, PTL DEF RegistrySpec

(* Every variable holds what the code may put there, and a call at work is where a call of
   its kind may be, with what that place needs. *)
THEOREM RegistryTypeCorrect == RegistrySpec => []RegistryTypes
<1>1. Recorded => RegistryTypes
  BY DEF Recorded
<1> QED BY <1>1, AlwaysTyped, PTL

-------------------------------------------------------------------------------
(* The end of the credentials.                                                *)

(* What a call that nobody cut across still knows of its mailbox and its credential. *)
LinkKnows(c) ==
  call[c].sole =>
    /\ call[c].pc \in {"revoke", "record"} => call[c].tok.status = credential[call[c].of].status
    /\ call[c].kind = "disconnect" /\ call[c].pc \in {"purge", "mark", "close"} =>
         credential[call[c].of].status = "disconnected"
    /\ call[c].kind \in {"connect", "adopt"} /\ call[c].pc \in {"load", "record"} =>
         box[call[c].of].status = "connected"
    /\ call[c].kind = "refresh" => box[call[c].of].status # "disconnected"

Ended == \A b \in Boxes : box[b].status = "disconnected" /\ b \notin crossed => credential[b].status = "disconnected"

Counted == \A b \in Boxes : tries[b] <= credential[b].failures + slips[b]

Credentials == Recorded /\ (\A c \in Calls : LinkKnows(c)) /\ Ended /\ Counted

LEMMA IdleKnows == \A c \in Calls : call'[c] = Idle => LinkKnows(c)'
BY IdleIs DEF LinkKnows

(* Those that a step leaves alone know what they knew, if what they rely on is not written or
   they take note. *)
LEMMA OthersKnow ==
  ASSUME Credentials, NEW c \in Calls, OnlyMoves(c),
         \A d \in Calls \ {c} : call[d].kind \in Linking /\ call'[d].sole =>
           /\ credential'[call[d].of].status = credential[call[d].of].status
           /\ box'[call[d].of].status = box[call[d].of].status
  PROVE  \A d \in Calls \ {c} : LinkKnows(d)'
<1> SUFFICES ASSUME NEW d \in Calls \ {c} PROVE LinkKnows(d)'
  OBVIOUS
<1>1. Stays(call'[d], call[d]) /\ LinkKnows(d)
  BY DEF OnlyMoves, Others, Credentials
<1>2. CASE call[d] = Idle
  BY <1>1, <1>2, IdleKnows DEF Stays
<1>3. CASE call[d] # Idle
  <2>1. call[d] \in Working /\ Sane(call[d])
    BY <1>3, TypeFacts DEF Credentials
  <2>2. CASE call[d].kind \in Linking
    BY <1>1, <2>2 DEF LinkKnows, Stays, Like
  <2>3. CASE call[d].kind \notin Linking
    <3>1. call[d].kind \in {"assign", "unassign", "prefer"} /\ call[d].pc \in {"edit", "save", "pull", "add"}
      BY <2>1, <2>3 DEF Sane, InPlace, Working, Kinds, Linking, Connecting
    <3> QED BY <1>1, <3>1 DEF LinkKnows, Stays, Like
  <2> QED BY <2>2, <2>3
<1> QED BY <1>2, <1>3

(* A step that writes neither a status nor a count. *)
LEMMA KeepCredentials ==
  ASSUME Credentials, Recorded', NEW c \in Calls, OnlyMoves(c), LinkKnows(c)',
         \A b \in Boxes : box'[b].status = box[b].status /\ credential'[b] = credential[b],
         UNCHANGED <<crossed, tries, slips>>
  PROVE  Credentials'
<1>1. \A d \in Calls : call[d].kind \in Linking => call[d].of \in Boxes
  BY TypeFacts, KindIdle DEF Working, Credentials
<1>2. \A d \in Calls \ {c} : LinkKnows(d)'
  BY <1>1, OthersKnow
<1>3. Ended' /\ Counted'
  BY DEF Credentials, Ended, Counted
<1> QED BY <1>2, <1>3 DEF Credentials

(* The kinds at a place. *)
LEMMA KindAt ==
  ASSUME NEW w \in Working, Sane(w)
  PROVE  /\ w.pc \in Settling => w.kind \in Settlers
         /\ w.pc \in {"grant", "exists"} => w.kind = "connect"
         /\ w.pc \in {"upsert", "record"} => w.kind \in {"connect", "adopt"}
         /\ w.pc = "load" => w.kind \in {"connect", "adopt", "disconnect"}
         /\ w.pc \in {"revoke", "purge", "close", "unflag"} => w.kind = "disconnect"
         /\ w.pc \in {"valid", "evaluate", "renew"} => w.kind = "refresh"
         /\ w.pc = "probe" => w.kind = "validate"
         /\ w.pc \in {"edit", "save", "pull", "add"} => w.kind \in {"assign", "unassign", "prefer"}
BY DEF Sane, InPlace, Working, Kinds, Settling, Settlers

LEMMA QuietFrame ==
  ASSUME UNCHANGED <<box, credential, registryHistory>> \/ UNCHANGED <<box, credential, crossed, tries, slips>>
  PROVE  /\ \A b \in Boxes : box'[b].status = box[b].status /\ credential'[b] = credential[b]
         /\ UNCHANGED <<crossed, tries, slips>>
BY DEF registryHistory

LEMMA CredentialsBegin ==
  ASSUME Credentials, NEW c \in Calls, CallBegins(c)
  PROVE  Credentials'
<1>1. ASSUME NEW kind \in Kinds, NEW pc \in Steps, NEW b \in Boxes, NEW u \in Users,
             Starts(c, kind, pc, b, u), pc \notin {"revoke", "record", "purge", "mark", "close"},
             pc = "load" => kind = "disconnect",
             kind = "refresh" => box[b].status # "disconnected"
      PROVE  Credentials'
  <2>1. Begins(c, kind, pc, b, u)
    BY <1>1, StartsDoes DEF Credentials
  <2>2. UNCHANGED <<box, since, connects, credential, grant, breaks, registryHistory>>
    BY <1>1 DEF Starts
  <2>3. LinkKnows(c)'
    BY <1>1, <2>1, <2>2 DEF Begins, FreshAs, LinkKnows
  <2>4. Recorded'
    BY BeginsTyped DEF Credentials
  <2> QED BY <2>1, <2>2, <2>3, <2>4, KeepCredentials, QuietFrame DEF Begins
<1>2. \A b \in Boxes : Owner[b] \in Users
  BY NoBoxApart
<1>3. grant \subseteq Boxes
  BY TypeFacts DEF Credentials
<1> USE DEF Kinds, Steps
<1>5. CASE Connect(c)
  BY <1>1, <1>2, <1>5 DEF Connect
<1>6. CASE Adopt(c)
  BY <1>1, <1>2, <1>3, <1>6 DEF Adopt
<1>7. CASE DisconnectBox(c)
  BY <1>1, <1>7 DEF DisconnectBox
<1>8. CASE Choose(c)
  BY <1>1, <1>2, <1>8 DEF Choose
<1>9. CASE Refresh(c)
  BY <1>1, <1>2, <1>9 DEF Refresh
<1>10. CASE Validate(c)
  BY <1>1, <1>2, <1>10 DEF Validate
<1>11. CASE Assign(c)
  BY <1>1, <1>11 DEF Assign
<1>12. CASE Unassign(c)
  BY <1>1, <1>12 DEF Unassign
<1>13. CASE Prefer(c)
  BY <1>1, <1>13 DEF Prefer
<1> QED BY <1>5, <1>6, <1>7, <1>8, <1>9, <1>10, <1>11, <1>12, <1>13 DEF CallBegins

(* The steps that write no status and no credential. *)
LEMMA CredentialsQuiet ==
  ASSUME Credentials, NEW c \in Calls,
         \/ Grant(c) \/ LoadToken(c) \/ Exists(c) \/ Purge(c) \/ Current(c) \/ Replace(c) \/ Target(c)
         \/ Valid(c) \/ Evaluate(c) \/ Probe(c) \/ Edit(c) \/ CallThrows(c)
  PROVE  Credentials'
<1>0. Recorded /\ LinkKnows(c)
  BY DEF Credentials
<1>1. /\ UNCHANGED <<box, credential, registryHistory>> \/ UNCHANGED <<box, credential, crossed, tries, slips>>
      /\ call[c].pc # "idle"
  BY <1>0 DEF Grant, LoadToken, Exists, Purge, Current, Replace, Target, Valid, Evaluate, Probe, Edit, CallThrows
<1>2. call[c] \in Working /\ Sane(call[c]) /\ call[c] # Idle
  BY <1>0, <1>1, CallAtWork
<1>3. UNCHANGED <<box, credential>>
  BY <1>1
<1>4. Recorded' /\ OnlyMoves(c)
  BY <1>0, GrantTyped, LoadTyped, ExistsTyped, PurgeTyped, CurrentTyped, ReplaceTyped, TargetTyped,
     ValidTyped, EvaluateTyped, ProbeTyped, EditTyped, ThrowsTyped
<1>5. LinkKnows(c)'
  <2>1. CASE Grant(c)
    BY <1>0, <1>2, <2>1, GrantTyped, KindAt DEF Grant, LinkKnows, Onward, Continues
  <2>2. CASE LoadToken(c)
    <3>1. call[c].kind \in {"connect", "adopt", "disconnect"} /\ call[c].pc = "load"
      BY <1>2, <2>2, KindAt DEF LoadToken
    <3>2. Holding(call'[c], call[c], IF call[c].kind = "disconnect" THEN "revoke" ELSE "record",
                    credential[call[c].of], call[c].status, call[c].cur, call[c].to)
      BY <1>0, <2>2, LoadTyped
    <3> QED BY <1>0, <1>3, <3>1, <3>2 DEF LinkKnows, Holding, Continues
  <2>3. CASE Exists(c)
    BY <1>0, <1>2, <2>3, ExistsTyped, KindAt, IdleKnows DEF Exists, LinkKnows, Onward, Continues
  <2>4. CASE Purge(c)
    <3>1. call[c].kind = "disconnect" /\ call[c].pc = "purge"
      BY <1>2, <2>4, KindAt DEF Purge
    <3>2. Onward(call'[c], call[c], "mark") \/ Onward(call'[c], call[c], "close")
      BY <1>0, <2>4, PurgeTyped
    <3> QED BY <1>0, <1>3, <3>1, <3>2 DEF LinkKnows, Onward, Continues
  <2>5. CASE Current(c)
    <3>1. call[c].kind \in Settlers
      BY <1>2, <2>5, KindAt DEF Current, Settling
    <3>2. call'[c] = Idle \/ (call'[c].pc = "replace" /\ call'[c].kind = call[c].kind)
      BY <1>0, <2>5, CurrentTyped DEF Holding, Continues
    <3> QED BY <3>1, <3>2, IdleKnows DEF LinkKnows, Settlers
  <2>6. CASE Replace(c)
    <3>1. call[c].kind \in Settlers
      BY <1>2, <2>6, KindAt DEF Replace, Settling
    <3>2. call'[c] = Idle \/ (call'[c].pc \in {"drop", "target"} /\ call'[c].kind = call[c].kind)
      BY <1>0, <2>6, ReplaceTyped DEF Holding, Onward, Continues
    <3> QED BY <3>1, <3>2, IdleKnows DEF LinkKnows, Settlers
  <2>7. CASE Target(c)
    <3>1. call[c].kind \in Settlers
      BY <1>2, <2>7, KindAt DEF Target, Settling
    <3>2. call'[c] = Idle \/ (call'[c].pc = "clear" /\ call'[c].kind = call[c].kind)
      BY <1>0, <2>7, TargetTyped DEF Onward, Continues
    <3> QED BY <3>1, <3>2, IdleKnows DEF LinkKnows, Settlers
  <2>8. CASE Valid(c)
    <3>1. call'[c] = Idle \/ Onward(call'[c], call[c], "evaluate")
      BY <1>0, <2>8, ValidTyped
    <3> QED BY <1>0, <1>3, <3>1, IdleKnows DEF LinkKnows, Onward, Continues
  <2>9. CASE Evaluate(c)
    <3>1. \/ call'[c] = Idle
          \/ Holding(call'[c], call[c], "renew", credential[call[c].of], call[c].status, call[c].cur, call[c].to)
      BY <1>0, <2>9, EvaluateTyped
    <3> QED BY <1>0, <1>3, <3>1, IdleKnows DEF LinkKnows, Holding, Continues
  <2>10. CASE Probe(c)
    <3>1. call'[c].kind = "validate" /\ call'[c].pc = "mark"
      BY <1>0, <2>10, ProbeTyped DEF Holding, Continues
    <3> QED BY <3>1 DEF LinkKnows
  <2>11. CASE Edit(c)
    <3>1. \/ call'[c] = Idle
          \/ call'[c].kind \in Assigning /\ call'[c].pc \in {"pull", "save"}
      BY <1>0, <2>11, EditTyped DEF Continues
    <3> QED BY <3>1, IdleKnows DEF LinkKnows, Assigning
  <2>12. CASE CallThrows(c)
    BY <1>0, <2>12, ThrowsTyped, IdleKnows
  <2> QED BY <2>1, <2>2, <2>3, <2>4, <2>5, <2>6, <2>7, <2>8, <2>9, <2>10, <2>11, <2>12
<1> QED BY <1>1, <1>4, <1>5, KeepCredentials, QuietFrame

(* The steps that write flags and lists. *)
LEMMA CredentialsFlags ==
  ASSUME Credentials, NEW c \in Calls,
         Unflag(c) \/ DropDefault(c) \/ Clear(c) \/ SetFlag(c) \/ SaveLists(c) \/ Pull(c) \/ Add(c)
  PROVE  Credentials'
<1>0. Recorded /\ LinkKnows(c) /\ box \in [Boxes -> Mailbox]
  BY TypeFacts DEF Credentials
<1>1. UNCHANGED <<credential, crossed, tries, slips>> /\ call[c].pc # "idle"
  BY <1>0 DEF Unflag, DropDefault, Clear, SetFlag, SaveLists, Pull, Add, registryHistory
<1>2. call[c] \in Working /\ Sane(call[c]) /\ call[c] # Idle
  BY <1>0, <1>1, CallAtWork
<1>3. \A b \in Boxes : box[b].isDefault \in BOOLEAN /\ box[b].assigned \subseteq Users
                       /\ box[b].defaults \subseteq Users
  BY <1>0 DEF Mailbox
<1>4. call[c].of \in Boxes /\ call[c].list \subseteq Users /\ call[c].defs \subseteq Users /\ call[c].who \in Users
  BY <1>2 DEF Working
<1>5. Recorded' /\ OnlyMoves(c)
  BY <1>0, UnflagTyped, DropTyped, ClearTyped, SetTyped, SaveTyped, PullTyped, AddTyped
<1>6. \A b \in Boxes : box'[b].status = box[b].status
  <2> SUFFICES ASSUME NEW b \in Boxes PROVE box'[b].status = box[b].status
    OBVIOUS
  <2>1. box[b] \in Mailbox
    BY <1>0
  <2>0. WithFlag(box[b], FALSE).status = box[b].status /\ WithFlag(box[b], TRUE).status = box[b].status
    BY <2>1 DEF WithFlag, Mailbox
  <2>2. CASE Unflag(c)
    <3>1. b # call[c].of => box'[b] = box[b]
      BY <1>0, <2>2, UnflagTyped
    <3>2. b = call[c].of => box'[b] = WithFlag(box[b], FALSE)
      BY <1>0, <2>2, UnflagTyped
    <3> QED BY <2>0, <3>1, <3>2
  <2>3. CASE DropDefault(c)
    <3>1. b # call[c].cur => box'[b] = box[b]
      BY <1>0, <2>3, DropTyped
    <3>2. b = call[c].cur => box'[b] = WithFlag(box[b], FALSE)
      BY <1>0, <2>3, DropTyped
    <3> QED BY <2>0, <3>1, <3>2
  <2>4. CASE Clear(c)
    <3> DEFINE f == box[b].isDefault /\ Owner[b] # call[c].who
    <3>1. box'[b] = WithFlag(box[b], f) /\ f \in BOOLEAN
      BY <1>0, <1>3, <2>4, ClearTyped
    <3> HIDE DEF f
    <3> QED BY <2>1, <3>1, FlagIs
  <2>5. CASE SetFlag(c)
    <3>1. b # Chosen(call[c]) => box'[b] = box[b]
      BY <1>0, <2>5, SetTyped
    <3>2. b = Chosen(call[c]) => box'[b] = box[b] \/ box'[b] = WithFlag(box[b], TRUE)
      BY <1>0, <2>5, SetTyped
    <3> QED BY <2>0, <3>1, <3>2
  <2>6. CASE SaveLists(c)
    <3>1. box[call[c].of].defaults \subseteq Users
      BY <1>3, <1>4
    <3>2. DefaultsCleared(call[c], box[call[c].of].defaults) \subseteq Users
      BY <1>4, <3>1 DEF DefaultsCleared
    <3>3. call[c].list \cup {call[c].who} \in SUBSET Users /\ call[c].list \ {call[c].who} \in SUBSET Users
      BY <1>4
    <3>4. b # call[c].of => box'[b] = box[b]
      BY <1>0, <2>6, SaveTyped
    <3>5. CASE b = call[c].of /\ call[c].kind = "assign"
      <4>1. box'[b] = WithAssigned(box[b], call[c].list \cup {call[c].who}, box[b].defaults)
        BY <1>0, <2>6, <3>5, SaveTyped
      <4> QED BY <1>3, <2>1, <3>3, <4>1, AssignedIs
    <3>6. CASE b = call[c].of /\ call[c].kind # "assign"
      <4>1. box'[b] = WithAssigned(box[b], call[c].list \ {call[c].who}, DefaultsCleared(call[c], box[b].defaults))
        BY <1>0, <2>6, <3>6, SaveTyped
      <4> QED BY <2>1, <3>2, <3>3, <3>6, <4>1, AssignedIs
    <3> QED BY <3>4, <3>5, <3>6
  <2>7. CASE Pull(c)
    <3>1. b = call[c].of => box'[b] = box[b]
      BY <1>0, <2>7, PullTyped
    <3>2. CASE b # call[c].of
      <4>1. box'[b] = WithAssigned(box[b], box[b].assigned, box[b].defaults \ {call[c].who})
        BY <1>0, <2>7, <3>2, PullTyped
      <4>2. box[b].assigned \in SUBSET Users /\ box[b].defaults \ {call[c].who} \in SUBSET Users
        BY <1>3
      <4> QED BY <2>1, <4>1, <4>2, AssignedIs
    <3> QED BY <3>1, <3>2
  <2>8. CASE Add(c)
    <3>1. b # call[c].of => box'[b] = box[b]
      BY <1>0, <2>8, AddTyped
    <3>2. CASE b = call[c].of
      <4>1. box'[b] = WithAssigned(box[b], box[b].assigned, box[b].defaults \cup {call[c].who})
        BY <1>0, <2>8, <3>2, AddTyped
      <4>2. box[b].assigned \in SUBSET Users /\ box[b].defaults \cup {call[c].who} \in SUBSET Users
        BY <1>3, <1>4
      <4> QED BY <2>1, <4>1, <4>2, AssignedIs
    <3> QED BY <3>1, <3>2
  <2> QED BY <2>2, <2>3, <2>4, <2>5, <2>6, <2>7, <2>8
<1>7. LinkKnows(c)'
  <2>1. CASE Unflag(c)
    BY <1>0, <2>1, UnflagTyped DEF Onward, Continues, LinkKnows
  <2>2. CASE Clear(c)
    <3>1. call[c].kind \in Settlers
      BY <1>2, <2>2, KindAt DEF Clear, Settling
    <3> QED BY <1>0, <2>2, <3>1, ClearTyped DEF Onward, Continues, LinkKnows, Settlers
  <2>3. CASE Pull(c)
    BY <1>0, <2>3, PullTyped DEF Onward, Continues, LinkKnows
  <2>4. CASE DropDefault(c) \/ SetFlag(c) \/ SaveLists(c) \/ Add(c)
    BY <1>0, <2>4, DropTyped, SetTyped, SaveTyped, AddTyped, IdleKnows
  <2> QED BY <2>1, <2>2, <2>3, <2>4
<1> QED BY <1>1, <1>5, <1>6, <1>7, KeepCredentials

LEMMA CredentialsUpsert ==
  ASSUME Credentials, NEW c \in Calls, UpsertBox(c)
  PROVE  Credentials'
<1> DEFINE b == call[c].of
<1>0. Recorded /\ box \in [Boxes -> Mailbox]
  BY TypeFacts DEF Credentials
<1>1. call[c] \in Working /\ Sane(call[c]) /\ call[c].pc = "upsert"
  BY <1>0, CallAtWork DEF UpsertBox
<1>2. UNCHANGED <<credential, crossed, tries, slips>>
  BY DEF UpsertBox, registryHistory
<1>3. /\ Recorded' /\ OnlyMoves(c) /\ Onward(call'[c], call[c], "load") /\ BoxNoted(c, b)
      /\ \A d \in Boxes \ {b} : box'[d] = box[d]
      /\ box'[b] = [box[b] EXCEPT !.status = "connected", !.gone = FALSE]
  BY <1>0, UpsertTyped
<1>4. b \in Boxes /\ box[b] \in Mailbox
  BY <1>0, <1>1 DEF Working
<1>5. box'[b].status = "connected"
  BY <1>3, <1>4 DEF Mailbox
<1>6. call[c].kind \in {"connect", "adopt"}
  BY <1>1, KindAt
<1>7. LinkKnows(c)'
  BY <1>3, <1>5, <1>6 DEF LinkKnows, Onward, Continues
<1>8. \A d \in Calls \ {c} : call[d].kind \in Linking => call[d].of \in Boxes
  BY <1>0, TypeFacts, KindIdle DEF Working
<1>9. \A d \in Calls \ {c} : LinkKnows(d)'
  BY <1>2, <1>3, <1>8, OthersKnow DEF BoxNoted
<1>10. Ended' /\ Counted'
  BY <1>2, <1>3, <1>5 DEF Credentials, Ended, Counted
<1> QED BY <1>3, <1>7, <1>9, <1>10 DEF Credentials

LEMMA SavedKeeps ==
  ASSUME NEW now \in Credential, NEW read \in Credential, NEW new
  PROVE  /\ Saved(now, read, new).status = IF new.status = read.status THEN now.status ELSE new.status
         /\ Saved(now, read, new).failures = IF new.failures = read.failures THEN now.failures ELSE new.failures
BY DEF Saved

(* A step that writes the credential of its mailbox. *)
LEMMA CredentialsToken ==
  ASSUME Credentials, Recorded', NEW c \in Calls, OnlyMoves(c), call[c] \in Working, TokenNoted(c, call[c].of), LinkKnows(c)',
         UNCHANGED box, crossed' = Crossed(c),
         \A d \in Boxes \ {call[c].of} : credential'[d] = credential[d] /\ tries'[d] = tries[d] /\ slips'[d] = slips[d],
         call[c].sole => \/ box[call[c].of].status # "disconnected"
                         \/ credential'[call[c].of].status = "disconnected",
         tries'[call[c].of] <= credential'[call[c].of].failures + slips'[call[c].of]
  PROVE  Credentials'
<1>1. \A d \in Calls \ {c} : call[d].kind \in Linking => call[d].of \in Boxes
  BY TypeFacts, KindIdle DEF Working, Credentials
<1>2. \A d \in Calls \ {c} : LinkKnows(d)'
  BY <1>1, OthersKnow DEF TokenNoted
<1>3. Ended'
  <2> SUFFICES ASSUME NEW b \in Boxes, box'[b].status = "disconnected", b \notin crossed'
               PROVE  credential'[b].status = "disconnected"
    BY DEF Ended
  <2>1. b \notin crossed /\ (b = call[c].of => call[c].sole)
    BY DEF Crossed
  <2> QED BY <2>1 DEF Credentials, Ended
<1>4. Counted'
  BY DEF Credentials, Counted
<1> QED BY <1>2, <1>3, <1>4 DEF Credentials

LEMMA CredentialsRecord ==
  ASSUME Credentials, NEW c \in Calls, Record(c)
  PROVE  Credentials'
<1> DEFINE b == call[c].of
           n == [status |-> "connected", expiry |-> "none", failures |-> 0]
<1>0. Recorded /\ LinkKnows(c) /\ tries \in [Boxes -> Nat] /\ slips \in [Boxes -> Nat]
  BY TypeFacts DEF Credentials
<1>1. call[c] \in Working /\ Sane(call[c]) /\ call[c].pc = "record"
  BY <1>0, CallAtWork DEF Record
<1>2. /\ UNCHANGED box /\ crossed' = Crossed(c)
      /\ tries' = [tries EXCEPT ![b] = 0] /\ slips' = [slips EXCEPT ![b] = 0]
  BY DEF Record
<1>3. /\ Recorded' /\ OnlyMoves(c) /\ TokenNoted(c, b)
      /\ Onward(call'[c], call[c], IF call[c].kind = "connect" THEN "exists" ELSE "current")
      /\ \A d \in Boxes \ {b} : credential'[d] = credential[d]
  BY <1>0, RecordTyped
<1>4. call[c].kind \in {"connect", "adopt"} /\ b \in Boxes
  BY <1>1, KindAt DEF Working
<1>5. call[c].sole => box[b].status = "connected"
  BY <1>0, <1>1, <1>4 DEF LinkKnows
<1>6. LinkKnows(c)'
  BY <1>3, <1>4 DEF LinkKnows, Onward, Continues
<1>7. tries'[b] = 0 /\ slips'[b] = 0 /\ \A d \in Boxes \ {b} : tries'[d] = tries[d] /\ slips'[d] = slips[d]
  BY <1>0, <1>2, <1>4
<1>8. credential'[b].failures \in Nat
  <2>1. credential' \in [Boxes -> Credential]
    BY <1>3 DEF Recorded, RegistryTypes
  <2> QED BY <1>4, <2>1, NoBoxApart DEF Credential
<1>9. tries'[b] <= credential'[b].failures + slips'[b]
  BY <1>7, <1>8
<1> QED BY <1>1, <1>2, <1>3, <1>5, <1>6, <1>7, <1>9, CredentialsToken

LEMMA CredentialsRenews ==
  ASSUME Credentials, NEW c \in Calls, Renews(c)
  PROVE  Credentials'
<1> DEFINE b == call[c].of
<1>0. Recorded /\ LinkKnows(c) /\ tries \in [Boxes -> Nat] /\ slips \in [Boxes -> Nat]
  BY TypeFacts DEF Credentials
<1>1. call[c] \in Working /\ Sane(call[c]) /\ call[c].pc = "renew"
  BY <1>0, CallAtWork DEF Renews
<1>2. /\ UNCHANGED box /\ crossed' = Crossed(c)
      /\ tries' = [tries EXCEPT ![b] = 0] /\ slips' = [slips EXCEPT ![b] = 0]
  BY DEF Renews
<1>3. /\ Recorded' /\ OnlyMoves(c) /\ TokenNoted(c, b) /\ call'[c] = Idle
      /\ \A d \in Boxes \ {b} : credential'[d] = credential[d]
  BY <1>0, RenewsTyped
<1>4. call[c].kind = "refresh" /\ b \in Boxes
  BY <1>1, KindAt DEF Working
<1>5. call[c].sole => box[b].status # "disconnected"
  BY <1>0, <1>4 DEF LinkKnows
<1>6. LinkKnows(c)'
  BY <1>3, IdleKnows
<1>7. tries'[b] = 0 /\ slips'[b] = 0 /\ \A d \in Boxes \ {b} : tries'[d] = tries[d] /\ slips'[d] = slips[d]
  BY <1>0, <1>2, <1>4
<1>8. credential'[b].failures \in Nat
  <2>1. credential' \in [Boxes -> Credential]
    BY <1>3 DEF Recorded, RegistryTypes
  <2> QED BY <1>4, <2>1, NoBoxApart DEF Credential
<1>9. tries'[b] <= credential'[b].failures + slips'[b]
  BY <1>7, <1>8
<1> QED BY <1>1, <1>2, <1>3, <1>5, <1>6, <1>7, <1>9, CredentialsToken

LEMMA CredentialsRenewUnsaved ==
  ASSUME Credentials, NEW c \in Calls, RenewUnsaved(c)
  PROVE  Credentials'
<1> DEFINE b == call[c].of
<1>0. Recorded /\ LinkKnows(c) /\ tries \in [Boxes -> Nat] /\ slips \in [Boxes -> Nat]
  BY TypeFacts DEF Credentials
<1>1. call[c] \in Working /\ Sane(call[c]) /\ call[c].pc = "renew"
  BY <1>0, CallAtWork DEF RenewUnsaved
<1>2. /\ UNCHANGED box /\ crossed' = Crossed(c)
      /\ tries' = [tries EXCEPT ![b] = 1] /\ slips' = [slips EXCEPT ![b] = 0]
  BY DEF RenewUnsaved
<1>3. /\ Recorded' /\ OnlyMoves(c) /\ TokenNoted(c, b) /\ call'[c] = Idle
      /\ credential'[b].failures = 1
      /\ \A d \in Boxes \ {b} : credential'[d] = credential[d]
  BY <1>0, RenewUnsavedTyped
<1>4. call[c].kind = "refresh" /\ b \in Boxes
  BY <1>1, KindAt DEF Working
<1>5. call[c].sole => box[b].status # "disconnected"
  BY <1>0, <1>4 DEF LinkKnows
<1>6. LinkKnows(c)'
  BY <1>3, IdleKnows
<1>7. tries'[b] = 1 /\ slips'[b] = 0 /\ \A d \in Boxes \ {b} : tries'[d] = tries[d] /\ slips'[d] = slips[d]
  BY <1>0, <1>2, <1>4
<1>8. tries'[b] <= credential'[b].failures + slips'[b]
  BY <1>3, <1>7
<1> QED BY <1>1, <1>2, <1>3, <1>5, <1>6, <1>7, <1>8, CredentialsToken

LEMMA CredentialsRevoke ==
  ASSUME Credentials, NEW c \in Calls, Revoke(c)
  PROVE  Credentials'
<1> DEFINE b == call[c].of
           t == call[c].tok
<1>0. Recorded /\ LinkKnows(c) /\ credential \in [Boxes -> Credential]
  BY TypeFacts DEF Credentials
<1>1. call[c] \in Working /\ Sane(call[c]) /\ call[c].pc = "revoke"
  BY <1>0, CallAtWork DEF Revoke
<1>2. UNCHANGED <<box, tries, slips>> /\ crossed' = Crossed(c)
  BY DEF Revoke
<1>3. /\ Recorded' /\ OnlyMoves(c) /\ TokenNoted(c, b)
      /\ call[c].kind = "disconnect" /\ call'[c].pc \in {"purge", "mark"}
      /\ Holding(call'[c], call[c], call'[c].pc, t, "disconnected", call[c].cur, call[c].to)
      /\ credential'[b] = Saved(credential[b], t, Revoked(t))
      /\ \A d \in Boxes \ {b} : credential'[d] = credential[d]
  BY <1>0, RevokeTyped
<1>4. b \in Boxes /\ t \in Credential /\ credential[b] \in Credential
  BY <1>0, <1>1 DEF Working
<1>5. Revoked(t).status = "disconnected" /\ Revoked(t).failures = t.failures
  BY <1>4 DEF Revoked, Credential
<1>6. /\ credential'[b].failures = credential[b].failures
      /\ credential'[b].status = IF "disconnected" = t.status THEN credential[b].status ELSE "disconnected"
  BY <1>3, <1>4, <1>5, SavedKeeps
<1>7. call[c].sole => credential'[b].status = "disconnected"
  BY <1>0, <1>1, <1>6 DEF LinkKnows
<1>8. LinkKnows(c)'
  BY <1>3, <1>7 DEF LinkKnows, Holding, Continues
<1>9. tries'[b] <= credential'[b].failures + slips'[b]
  BY <1>2, <1>4, <1>6 DEF Credentials, Counted
<1> QED BY <1>1, <1>2, <1>3, <1>7, <1>8, <1>9, CredentialsToken

LEMMA CredentialsRenewFails ==
  ASSUME Credentials, NEW c \in Calls, RenewFails(c)
  PROVE  Credentials'
<1> DEFINE b == call[c].of
           t == call[c].tok
           lapsed == credential[b].failures - t.failures
<1>0. /\ Recorded /\ LinkKnows(c) /\ credential \in [Boxes -> Credential]
      /\ tries \in [Boxes -> Nat] /\ slips \in [Boxes -> Nat]
  BY TypeFacts DEF Credentials
<1>1. call[c] \in Working /\ Sane(call[c]) /\ call[c].pc = "renew"
  BY <1>0, CallAtWork DEF RenewFails
<1>2. /\ UNCHANGED box /\ crossed' = Crossed(c)
      /\ tries' = [tries EXCEPT ![b] = @ + 1]
      /\ slips' = [slips EXCEPT ![b] = IF lapsed > 0 THEN @ + lapsed ELSE @]
  BY DEF RenewFails
<1>3. /\ Recorded' /\ OnlyMoves(c) /\ TokenNoted(c, b) /\ call[c].kind = "refresh"
      /\ Holding(call'[c], call[c], "mark", t, "expired", call[c].cur, call[c].to)
      /\ credential'[b] = Saved(credential[b], t, Failed(t))
      /\ \A d \in Boxes \ {b} : credential'[d] = credential[d]
  BY <1>0, RenewFailsTyped
<1>4. b \in Boxes /\ t \in Credential /\ credential[b] \in Credential
  BY <1>0, <1>1 DEF Working
<1>5. t.failures \in Nat /\ credential[b].failures \in Nat /\ tries[b] \in Nat /\ slips[b] \in Nat
  BY <1>0, <1>4, NoBoxApart DEF Credential
<1>6. Failed(t).failures = t.failures + 1
  BY <1>4 DEF Failed, Credential
<1>7. credential'[b].failures = t.failures + 1
  <2>1. credential'[b].failures = IF Failed(t).failures = t.failures THEN credential[b].failures ELSE Failed(t).failures
    BY <1>3, <1>4, SavedKeeps
  <2> QED BY <1>5, <1>6, <2>1
<1>8. /\ tries'[b] = tries[b] + 1 /\ slips'[b] = IF lapsed > 0 THEN slips[b] + lapsed ELSE slips[b]
      /\ \A d \in Boxes \ {b} : tries'[d] = tries[d] /\ slips'[d] = slips[d]
  BY <1>0, <1>2, <1>4
<1>9. tries[b] <= credential[b].failures + slips[b]
  BY <1>4 DEF Credentials, Counted
<1>10. tries'[b] <= credential'[b].failures + slips'[b]
  BY <1>5, <1>7, <1>8, <1>9
<1>11. call[c].sole => box[b].status # "disconnected"
  BY <1>0, <1>3 DEF LinkKnows
<1>12. LinkKnows(c)'
  BY <1>2, <1>3, <1>11 DEF LinkKnows, Holding, Continues
<1> HIDE DEF lapsed
<1> QED BY <1>1, <1>2, <1>3, <1>8, <1>10, <1>11, <1>12, CredentialsToken

LEMMA CredentialsMarkGone ==
  ASSUME Credentials, NEW c \in Calls, MarkGone(c)
  PROVE  Credentials'
<1> DEFINE b == call[c].of
<1>0. Recorded /\ LinkKnows(c) /\ box \in [Boxes -> Mailbox]
  BY TypeFacts DEF Credentials
<1>1. call[c] \in Working /\ call[c].pc \in {"mark", "close"} /\ call[c].kind = "disconnect"
  BY <1>0, CallAtWork DEF MarkGone
<1>2. /\ UNCHANGED <<credential, tries, slips>>
      /\ crossed' = IF call[c].sole THEN crossed \ {b} ELSE crossed \cup {b}
  BY DEF MarkGone
<1>3. /\ Recorded' /\ OnlyMoves(c) /\ Onward(call'[c], call[c], "unflag") /\ BoxNoted(c, b)
      /\ \A d \in Boxes \ {b} : box'[d] = box[d]
  BY <1>0, MarkGoneTyped
<1>4. LinkKnows(c)'
  BY <1>1, <1>3 DEF LinkKnows, Onward, Continues
<1>5. \A d \in Calls \ {c} : call[d].kind \in Linking => call[d].of \in Boxes
  BY <1>0, TypeFacts, KindIdle DEF Working
<1>6. \A d \in Calls \ {c} : LinkKnows(d)'
  BY <1>2, <1>3, <1>5, OthersKnow DEF BoxNoted
<1>7. call[c].sole => credential[b].status = "disconnected"
  BY <1>0, <1>1 DEF LinkKnows
<1>8. Ended'
  BY <1>2, <1>3, <1>7 DEF Credentials, Ended
<1>9. Counted'
  BY <1>2 DEF Credentials, Counted
<1> QED BY <1>3, <1>4, <1>6, <1>8, <1>9 DEF Credentials

LEMMA CredentialsMarkStatus ==
  ASSUME Credentials, NEW c \in Calls, MarkStatus(c)
  PROVE  Credentials'
<1> DEFINE b == call[c].of
<1>0. Recorded /\ LinkKnows(c) /\ box \in [Boxes -> Mailbox]
  BY TypeFacts DEF Credentials
<1>1. call[c] \in Working /\ call[c].pc = "mark"
  BY <1>0, CallAtWork DEF MarkStatus
<1>2. UNCHANGED <<credential, tries, slips>> /\ crossed' = Crossed(c)
  BY DEF MarkStatus
<1>3. /\ Recorded' /\ OnlyMoves(c) /\ call'[c] = Idle /\ BoxNoted(c, b)
      /\ call[c].status \in {"connected", "expired"}
      /\ box'[b] = WithState(box[b], call[c].status, box[b].gone)
      /\ \A d \in Boxes \ {b} : box'[d] = box[d]
  BY <1>0, MarkStatusTyped
<1>4. LinkKnows(c)'
  BY <1>3, IdleKnows
<1>5. \A d \in Calls \ {c} : call[d].kind \in Linking => call[d].of \in Boxes
  BY <1>0, TypeFacts, KindIdle DEF Working
<1>6. \A d \in Calls \ {c} : LinkKnows(d)'
  BY <1>2, <1>3, <1>5, OthersKnow DEF BoxNoted
<1>7. box'[b].status # "disconnected"
  <2>1. b \in Boxes /\ box[b] \in Mailbox /\ box[b].gone \in BOOLEAN
    BY <1>0, <1>1 DEF Working, Mailbox
  <2>2. call[c].status \in Statuses /\ call[c].status # "disconnected"
    BY <1>3 DEF Statuses
  <2>3. WithState(box[b], call[c].status, box[b].gone).status = call[c].status
    BY <2>1, <2>2, StateIs
  <2> QED BY <1>3, <2>2, <2>3
<1>8. Ended'
  BY <1>2, <1>3, <1>7 DEF Credentials, Ended, Crossed
<1>9. Counted'
  BY <1>2 DEF Credentials, Counted
<1> QED BY <1>3, <1>4, <1>6, <1>8, <1>9 DEF Credentials

LEMMA CredentialsAges ==
  ASSUME Credentials, NEW b \in Boxes, TokenAges(b)
  PROVE  Credentials'
<1>0. Recorded
  BY DEF Credentials
<1>1. /\ Recorded' /\ \A d \in Boxes : /\ credential'[d].status = credential[d].status
                                    /\ credential'[d].failures = credential[d].failures
  BY <1>0, TokenAgesTyped
<1>2. UNCHANGED <<box, call, crossed, tries, slips>>
  BY DEF TokenAges, registryHistory
<1>3. ASSUME NEW c \in Calls PROVE LinkKnows(c)'
  <2>1. LinkKnows(c) /\ (call[c] = Idle \/ call[c].of \in Boxes)
    BY <1>0, TypeFacts DEF Credentials, Working
  <2>2. CASE call[c] = Idle
    BY <1>2, <2>2, IdleKnows
  <2>3. CASE call[c].of \in Boxes
    BY <1>1, <1>2, <2>1, <2>3 DEF LinkKnows
  <2> QED BY <2>1, <2>2, <2>3
<1> QED BY <1>1, <1>2, <1>3 DEF Credentials, Ended, Counted

LEMMA CredentialsStep == Credentials /\ [RegistryNext]_registryVars => Credentials'
<1> SUFFICES ASSUME Credentials, [RegistryNext]_registryVars PROVE Credentials'
  OBVIOUS
<1>1. CASE UNCHANGED registryVars
  BY <1>1, NextTyped DEF registryVars, registryHistory, Credentials, LinkKnows, Ended, Counted
<1>2. ASSUME NEW c \in Calls, ConnectStep(c) PROVE Credentials'
  BY <1>2, CredentialsQuiet, CredentialsUpsert, CredentialsRecord DEF ConnectStep
<1>3. ASSUME NEW c \in Calls, DisconnectStep(c) PROVE Credentials'
  BY <1>3, CredentialsQuiet, CredentialsFlags, CredentialsRevoke, CredentialsMarkGone DEF DisconnectStep
<1>4. ASSUME NEW c \in Calls, DefaultStep(c) PROVE Credentials'
  BY <1>4, CredentialsQuiet, CredentialsFlags DEF DefaultStep
<1>5. ASSUME NEW c \in Calls, RefreshStep(c) PROVE Credentials'
  BY <1>5, CredentialsQuiet, CredentialsRenews, CredentialsRenewUnsaved, CredentialsRenewFails,
     CredentialsMarkStatus DEF RefreshStep
<1>6. ASSUME NEW c \in Calls, AssignStep(c) PROVE Credentials'
  BY <1>6, CredentialsQuiet, CredentialsFlags DEF AssignStep
<1>7. ASSUME NEW c \in Calls, CallBegins(c) \/ CallThrows(c) PROVE Credentials'
  BY <1>7, CredentialsBegin, CredentialsQuiet
<1>8. ASSUME NEW b \in Boxes, TokenAges(b) PROVE Credentials'
  BY <1>8, CredentialsAges
<1>9. CASE RegistryCrash
  <2>1. Recorded' /\ \A c \in Calls : call'[c] = Idle
    BY <1>9, CrashTyped DEF Credentials
  <2>2. UNCHANGED <<box, credential, crossed, tries, slips>>
    BY <1>9 DEF RegistryCrash
  <2> QED BY <2>1, <2>2, IdleKnows DEF Credentials, Ended, Counted
<1> QED BY <1>1, <1>2, <1>3, <1>4, <1>5, <1>6, <1>7, <1>8, <1>9 DEF RegistryNext

LEMMA InitCredentials == RegistryInit => Credentials
<1> SUFFICES ASSUME RegistryInit PROVE Credentials
  OBVIOUS
<1>1. PICK ended \in SUBSET {b \in Boxes : since[b] # 0},
           given \in [Boxes -> SUBSET Users], flagged \in [Users -> Boxes \cup {NoBox}],
           preferred \in [Users -> Boxes \cup {NoBox}], open \in SUBSET Boxes :
             InitAs(ended, given, flagged, preferred, open)
  BY InitBoxes
<1>2. Ended
  BY <1>1 DEF Ended, InitAs, InitMailbox, NoAccess
<1>3. Counted
  <2>1. Recorded /\ \A b \in Boxes : tries[b] = 0 /\ slips[b] = 0
    BY InitTyped DEF RegistryInit
  <2>2. \A b \in Boxes : credential[b].failures \in Nat
    BY <2>1, TypeFacts, NoBoxApart DEF Credential
  <2> QED BY <2>1, <2>2 DEF Counted
<1>4. \A c \in Calls : LinkKnows(c)
  BY IdleIs DEF RegistryInit, LinkKnows
<1> QED BY <1>2, <1>3, <1>4, InitTyped DEF Credentials

(* A disconnect that has closed the account, and that nobody cut across, still knows that it
   holds no credential; and one that is there was left or given. *)
ClosedKnows(c) == call[c].pc = "close" /\ call[c].sole => call[c].of \notin grant

Closed ==
  /\ Recorded
  /\ \A c \in Calls : ClosedKnows(c)
  /\ \A b \in grant : b \in unpurged \/ b \in crossed

LEMMA IdleNotClosing == Idle.pc # "close"
BY IdleIs

(* A step that gives no credential. *)
LEMMA KeepClosed ==
  ASSUME Closed, Recorded', NEW c \in Calls, OnlyMoves(c), call'[c].pc # "close",
         grant' \subseteq grant, crossed \subseteq crossed', UNCHANGED unpurged
  PROVE  Closed'
<1>1. ASSUME NEW d \in Calls PROVE ClosedKnows(d)'
  <2>1. CASE d = c
    BY <2>1 DEF ClosedKnows
  <2>2. CASE d # c
    <3>1. Like(call'[d], call[d]) /\ ClosedKnows(d)
      BY <2>2 DEF OnlyMoves, Others, Stays, Closed
    <3> QED BY <3>1 DEF ClosedKnows, Like
  <2> QED BY <2>1, <2>2
<1>2. \A b \in grant' : b \in unpurged' \/ b \in crossed'
  BY DEF Closed
<1> QED BY <1>1, <1>2 DEF Closed

LEMMA ClosedBegin ==
  ASSUME Closed, NEW c \in Calls, CallBegins(c)
  PROVE  Closed'
<1>0. Recorded
  BY DEF Closed
<1>1. ASSUME NEW kind \in Kinds, NEW pc \in Steps, NEW b \in Boxes, NEW u \in Users,
             Starts(c, kind, pc, b, u), pc # "close"
      PROVE  Closed'
  <2>0. Begins(c, kind, pc, b, u)
    BY <1>0, <1>1, StartsDoes
  <2>1. OnlyMoves(c) /\ call'[c].pc # "close"
    <3>1. OnlyMoves(c) /\ FreshAs(call'[c], kind, pc, b, u)
      BY <2>0 DEF Begins
    <3>2. call'[c].pc = pc
      BY <3>1 DEF FreshAs
    <3> QED BY <1>1, <3>1, <3>2
  <2>2. UNCHANGED <<grant, registryHistory>>
    BY <1>1 DEF Starts
  <2>3. Recorded'
    BY <1>0, BeginsTyped
  <2> QED BY <2>1, <2>2, <2>3, KeepClosed DEF registryHistory
<1>2. (\A b \in Boxes : Owner[b] \in Users) /\ grant \subseteq Boxes
  BY <1>0, NoBoxApart, TypeFacts
<1>3. \E kind \in Kinds, pc \in Steps \ {"close"}, b \in Boxes, u \in Users : Starts(c, kind, pc, b, u)
  BY <1>2 DEF CallBegins, Connect, Adopt, DisconnectBox, Choose, Refresh, Validate, Assign, Unassign,
              Prefer, Kinds, Steps
<1> QED BY <1>1, <1>3

(* The steps but those of a consent and of a disconnect. *)
LEMMA ClosedAside ==
  ASSUME Closed, NEW c \in Calls,
         \/ UpsertBox(c) \/ LoadToken(c) \/ Record(c) \/ Exists(c) \/ Revoke(c) \/ Unflag(c)
         \/ DefaultStep(c) \/ RefreshStep(c) \/ AssignStep(c) \/ CallThrows(c)
  PROVE  Closed'
<1>0. Recorded
  BY DEF Closed
<1>1. CASE UpsertBox(c) \/ LoadToken(c) \/ Record(c) \/ Exists(c)
  <2>1. Recorded' /\ OnlyMoves(c) /\ call'[c].pc # "close"
    BY <1>0, <1>1, UpsertTyped, LoadTyped, RecordTyped, ExistsTyped, IdleNotClosing DEF Onward, Holding
  <2>2. grant' = grant /\ crossed \subseteq crossed' /\ UNCHANGED unpurged
    BY <1>1 DEF UpsertBox, LoadToken, Record, Exists, Crossed, registryHistory
  <2> QED BY <2>1, <2>2, KeepClosed
<1>2. CASE Revoke(c) \/ Unflag(c)
  <2>1. Recorded' /\ OnlyMoves(c) /\ call'[c].pc # "close"
    BY <1>0, <1>2, RevokeTyped, UnflagTyped DEF Onward
  <2>2. grant' = grant /\ crossed \subseteq crossed' /\ UNCHANGED unpurged
    BY <1>2 DEF Revoke, Unflag, Crossed, registryHistory
  <2> QED BY <2>1, <2>2, KeepClosed
<1>3. CASE DefaultStep(c)
  <2>1. Recorded' /\ OnlyMoves(c) /\ call'[c].pc # "close"
    BY <1>0, <1>3, CurrentTyped, ReplaceTyped, DropTyped, TargetTyped, ClearTyped, SetTyped, IdleNotClosing
    DEF DefaultStep, Onward, Holding
  <2>2. UNCHANGED <<grant, crossed, unpurged>>
    BY <1>3 DEF DefaultStep, Current, Replace, DropDefault, Target, Clear, SetFlag, registryHistory
  <2> QED BY <2>1, <2>2, KeepClosed
<1>4. CASE RefreshStep(c)
  <2>1. Recorded' /\ OnlyMoves(c) /\ call'[c].pc # "close"
    BY <1>0, <1>4, ValidTyped, EvaluateTyped, RenewsTyped, RenewUnsavedTyped, RenewFailsTyped, ProbeTyped,
       MarkStatusTyped, IdleNotClosing DEF RefreshStep, Onward, Holding
  <2>2. grant' = grant /\ crossed \subseteq crossed' /\ UNCHANGED unpurged
    BY <1>4 DEF RefreshStep, Valid, Evaluate, Renews, RenewUnsaved, RenewFails, Probe, MarkStatus, Crossed,
                registryHistory
  <2> QED BY <2>1, <2>2, KeepClosed
<1>5. CASE AssignStep(c)
  <2>1. Recorded' /\ OnlyMoves(c) /\ call'[c].pc # "close"
    BY <1>0, <1>5, EditTyped, SaveTyped, PullTyped, AddTyped, IdleNotClosing DEF AssignStep, Onward
  <2>2. UNCHANGED <<grant, crossed, unpurged>>
    BY <1>5 DEF AssignStep, Edit, SaveLists, Pull, Add, registryHistory
  <2> QED BY <2>1, <2>2, KeepClosed
<1>6. CASE CallThrows(c)
  <2>1. Recorded' /\ OnlyMoves(c) /\ call'[c].pc # "close"
    BY <1>0, <1>6, ThrowsTyped, IdleNotClosing
  <2>2. UNCHANGED <<grant, crossed, unpurged>>
    BY <1>6 DEF CallThrows
  <2> QED BY <2>1, <2>2, KeepClosed
<1> QED BY <1>1, <1>2, <1>3, <1>4, <1>5, <1>6

(* The consent: those that have closed the account take note. *)
LEMMA ClosedGrant ==
  ASSUME Closed, NEW c \in Calls, Grant(c)
  PROVE  Closed'
<1>1. /\ Recorded' /\ OnlyMoves(c) /\ Onward(call'[c], call[c], "upsert")
      /\ TokenNoted(c, call[c].of)
  BY GrantTyped DEF Closed
<1>2. /\ grant' = grant \cup {call[c].of} /\ unpurged' = unpurged \cup {call[c].of}
      /\ crossed' = crossed
  BY DEF Grant
<1>3. ASSUME NEW d \in Calls PROVE ClosedKnows(d)'
  <2>1. CASE d = c
    BY <1>1, <2>1 DEF ClosedKnows, Onward
  <2>2. CASE d # c
    <3>1. Stays(call'[d], call[d]) /\ ClosedKnows(d)
      BY <1>1, <2>2 DEF OnlyMoves, Others, Closed
    <3>2. SUFFICES ASSUME call'[d].pc = "close", call'[d].sole PROVE call'[d].of \notin grant'
      BY DEF ClosedKnows
    <3>3. call[d].pc = "close" /\ call[d].sole /\ call'[d].of = call[d].of
      BY <3>1, <3>2 DEF Stays, Like
    <3>4. call[d].kind \in Linking
      <4>1. call[d] \in Working /\ Sane(call[d])
        BY <3>3, TypeFacts DEF Closed
      <4> QED BY <3>3, <4>1, KindAt DEF Linking, Connecting
    <3>5. call[d].of # call[c].of
      BY <1>1, <2>2, <3>2, <3>4 DEF TokenNoted
    <3> QED BY <1>2, <3>1, <3>3, <3>5 DEF ClosedKnows
  <2> QED BY <2>1, <2>2
<1>4. \A b \in grant' : b \in unpurged' \/ b \in crossed'
  BY <1>2 DEF Closed
<1> QED BY <1>1, <1>3, <1>4 DEF Closed

LEMMA ClosedPurge ==
  ASSUME Closed, NEW c \in Calls, Purge(c)
  PROVE  Closed'
<1>1. /\ Recorded' /\ OnlyMoves(c)
      /\ \/ Onward(call'[c], call[c], "close") /\ grant' = grant \ {call[c].of}
         \/ Onward(call'[c], call[c], "mark") /\ grant' = grant
  BY PurgeTyped DEF Closed
<1>2. UNCHANGED <<crossed, unpurged>>
  BY DEF Purge, registryHistory
<1>3. ASSUME NEW d \in Calls PROVE ClosedKnows(d)'
  <2>1. CASE d = c
    BY <1>1, <2>1 DEF ClosedKnows, Onward, Continues
  <2>2. CASE d # c
    <3>1. Like(call'[d], call[d]) /\ ClosedKnows(d)
      BY <1>1, <2>2 DEF OnlyMoves, Others, Stays, Closed
    <3> QED BY <1>1, <3>1 DEF ClosedKnows, Like
  <2> QED BY <2>1, <2>2
<1>4. \A b \in grant' : b \in unpurged' \/ b \in crossed'
  BY <1>1, <1>2 DEF Closed
<1> QED BY <1>1, <1>3, <1>4 DEF Closed

LEMMA ClosedMarkGone ==
  ASSUME Closed, NEW c \in Calls, MarkGone(c)
  PROVE  Closed'
<1>1. Recorded' /\ OnlyMoves(c) /\ Onward(call'[c], call[c], "unflag") /\ ClosedKnows(c)
  BY MarkGoneTyped DEF Closed
<1>2. /\ crossed' = IF call[c].sole THEN crossed \ {call[c].of} ELSE crossed \cup {call[c].of}
      /\ unpurged' = IF call[c].pc = "close" THEN unpurged \ {call[c].of} ELSE unpurged \cup {call[c].of}
      /\ UNCHANGED grant
  BY DEF MarkGone
<1>3. ASSUME NEW d \in Calls PROVE ClosedKnows(d)'
  <2>1. CASE d = c
    BY <1>1, <2>1 DEF ClosedKnows, Onward
  <2>2. CASE d # c
    <3>1. Like(call'[d], call[d]) /\ ClosedKnows(d)
      BY <1>1, <2>2 DEF OnlyMoves, Others, Stays, Closed
    <3> QED BY <1>2, <3>1 DEF ClosedKnows, Like
  <2> QED BY <2>1, <2>2
<1>4. ASSUME NEW b \in grant PROVE b \in unpurged' \/ b \in crossed'
  <2>1. b \in unpurged \/ b \in crossed
    BY DEF Closed
  <2>2. CASE b # call[c].of
    BY <1>2, <2>1, <2>2
  <2>3. CASE b = call[c].of
    BY <1>1, <1>2, <2>3 DEF ClosedKnows
  <2> QED BY <2>2, <2>3
<1> QED BY <1>1, <1>2, <1>3, <1>4 DEF Closed

LEMMA ClosedStep == Closed /\ [RegistryNext]_registryVars => Closed'
<1> SUFFICES ASSUME Closed, [RegistryNext]_registryVars PROVE Closed'
  OBVIOUS
<1>0. Recorded'
  BY NextTyped DEF Closed
<1>1. CASE UNCHANGED <<call, grant, crossed, unpurged>>
  BY <1>0, <1>1 DEF Closed, ClosedKnows
<1>2. CASE UNCHANGED registryVars
  BY <1>1, <1>2 DEF registryVars, registryHistory
<1>3. ASSUME NEW b \in Boxes, TokenAges(b) PROVE Closed'
  BY <1>1, <1>3 DEF TokenAges, registryHistory
<1>4. CASE RegistryCrash
  <2>1. \A c \in Calls : call'[c] = Idle
    BY <1>4, CrashTyped DEF Closed
  <2>2. UNCHANGED <<grant, crossed, unpurged>>
    BY <1>4 DEF RegistryCrash
  <2>3. \A c \in Calls : ClosedKnows(c)'
    BY <2>1, IdleNotClosing DEF ClosedKnows
  <2> QED BY <1>0, <2>2, <2>3 DEF Closed
<1>5. ASSUME NEW c \in Calls, ConnectStep(c) PROVE Closed'
  BY <1>5, ClosedGrant, ClosedAside DEF ConnectStep
<1>6. ASSUME NEW c \in Calls, DisconnectStep(c) PROVE Closed'
  BY <1>6, ClosedPurge, ClosedMarkGone, ClosedAside DEF DisconnectStep
<1>7. ASSUME NEW c \in Calls, CallBegins(c) PROVE Closed'
  BY <1>7, ClosedBegin
<1>8. ASSUME NEW c \in Calls, DefaultStep(c) \/ RefreshStep(c) \/ AssignStep(c) \/ CallThrows(c)
      PROVE  Closed'
  BY <1>8, ClosedAside
<1> QED BY <1>2, <1>3, <1>4, <1>5, <1>6, <1>7, <1>8 DEF RegistryNext

LEMMA InitClosed == RegistryInit => Closed
<1> SUFFICES ASSUME RegistryInit PROVE Closed
  OBVIOUS
<1>1. \A c \in Calls : ClosedKnows(c)
  BY IdleNotClosing DEF RegistryInit, ClosedKnows
<1>2. unpurged = grant
  BY DEF RegistryInit
<1> QED BY <1>1, <1>2, InitTyped DEF Closed

LEMMA CredentialsEndThen == Credentials /\ Closed => CredentialsEnd
<1> SUFFICES ASSUME Credentials, Closed, NEW b \in Boxes
             PROVE  /\ box[b].status = "disconnected" /\ b \notin crossed =>
                         /\ credential[b].status = "disconnected"
                         /\ b \notin unpurged => b \notin grant
                    /\ tries[b] <= MaxFailures + slips[b]
  BY DEF CredentialsEnd
<1>1. /\ credential[b].failures \in 0 .. MaxFailures /\ MaxFailures \in Nat
      /\ tries[b] \in Nat /\ slips[b] \in Nat
  BY TypeFacts, NoBoxApart DEF Credentials, Credential
<1>2. tries[b] <= credential[b].failures + slips[b]
  BY DEF Credentials, Counted
<1>3. tries[b] <= MaxFailures + slips[b]
  BY <1>1, <1>2
<1>4. box[b].status = "disconnected" /\ b \notin crossed => credential[b].status = "disconnected"
  BY DEF Credentials, Ended
<1>5. b \notin crossed /\ b \notin unpurged => b \notin grant
  BY DEF Closed
<1> QED BY <1>3, <1>4, <1>5

(* A mailbox marked disconnected by a request that no other call cut across has a revoked
   record; and no credential either, if that request closed the account and nobody consented
   since.  Refreshes of a mailbox are tried MaxFailures times at most and once more for each
   failure that was counted from an old count, however many calls overlap. *)
THEOREM CredentialsDoEnd == RegistrySpec => []CredentialsEnd
<1>1. RegistryInit => Credentials /\ Closed
  BY InitCredentials, InitClosed
<1>2. Credentials /\ Closed /\ [RegistryNext]_registryVars => (Credentials /\ Closed)'
  BY CredentialsStep, ClosedStep
<1> QED BY <1>1, <1>2, CredentialsEndThen, PTL DEF RegistrySpec

-------------------------------------------------------------------------------
(* The default an administrator gives a user.                                 *)

(* What an administrator's call that nobody cut across still knows of the lists. *)
ListKnows(c) ==
  call[c].alone =>
    /\ call[c].pc = "save" => /\ call[c].list = box[call[c].of].assigned
                              /\ call[c].defs = box[call[c].of].defaults
    /\ call[c].pc \in {"pull", "add"} => MayUse(call[c].of, call[c].who)
    /\ call[c].pc = "add" =>
         call[c].who \in doubled \/ \A b \in Boxes \ {call[c].of} : call[c].who \notin box[b].defaults

Lists == Recorded /\ (\A c \in Calls : ListKnows(c)) /\ OneDefaultEach

Editing == {"save", "pull", "add"}

LEMMA ElsewhereKnows == \A c \in Calls : call'[c].pc \notin Editing => ListKnows(c)'
BY DEF ListKnows, Editing

LEMMA ListsQuiet ==
  ASSUME Lists, Recorded', NEW c \in Calls, OnlyMoves(c), call'[c].pc \notin Editing,
         \A b \in Boxes : box'[b].assigned = box[b].assigned /\ box'[b].defaults = box[b].defaults,
         UNCHANGED <<mixed, doubled>>
  PROVE  Lists'
<1>1. ASSUME NEW d \in Calls \ {c} PROVE ListKnows(d)'
  <2>1. Stays(call'[d], call[d]) /\ ListKnows(d)
    BY DEF OnlyMoves, Others, Lists
  <2>2. CASE call[d] = Idle
    BY <2>1, <2>2, ElsewhereKnows, IdleIs DEF Stays, Editing
  <2>3. CASE call[d] # Idle
    <3>1. call[d].of \in Boxes
      BY <2>3, TypeFacts DEF Lists, Working
    <3> QED BY <2>1, <3>1 DEF ListKnows, Stays, Like, MayUse
  <2> QED BY <2>2, <2>3
<1>2. ListKnows(c)'
  BY ElsewhereKnows
<1>3. OneDefaultEach'
  BY DEF Lists, OneDefaultEach
<1> QED BY <1>1, <1>2, <1>3 DEF Lists

LEMMA IdleElsewhere == Idle.pc \notin Editing
BY IdleIs DEF Editing

(* The steps of the calls that are not an administrator's. *)
LEMMA ListsLinks ==
  ASSUME Lists, NEW c \in Calls,
         ConnectStep(c) \/ DisconnectStep(c) \/ DefaultStep(c) \/ RefreshStep(c) \/ CallThrows(c)
  PROVE  Lists'
<1>0. Recorded /\ box \in [Boxes -> Mailbox]
  BY TypeFacts DEF Lists
<1> USE DEF Editing, Onward, Holding
<1>1. ASSUME NEW d \in Boxes
      PROVE  /\ WithFlag(box[d], FALSE).assigned = box[d].assigned /\ WithFlag(box[d], FALSE).defaults = box[d].defaults
             /\ WithFlag(box[d], TRUE).assigned = box[d].assigned /\ WithFlag(box[d], TRUE).defaults = box[d].defaults
             /\ \A f : WithFlag(box[d], f).assigned = box[d].assigned /\ WithFlag(box[d], f).defaults = box[d].defaults
             /\ \A s, g : /\ WithState(box[d], s, g).assigned = box[d].assigned
                          /\ WithState(box[d], s, g).defaults = box[d].defaults
  <2>1. box[d] \in Mailbox
    BY <1>0
  <2> QED BY <2>1 DEF WithFlag, WithState, Mailbox
<1>2. ASSUME OnlyMoves(c), Recorded', call'[c].pc \notin Editing,
             \A d \in Boxes : box'[d] = box[d] \/ (\E f : box'[d] = WithFlag(box[d], f))
                              \/ (\E s, g : box'[d] = WithState(box[d], s, g)),
             UNCHANGED <<mixed, doubled>>
      PROVE  Lists'
  <2>1. ASSUME NEW d \in Boxes PROVE box'[d].assigned = box[d].assigned /\ box'[d].defaults = box[d].defaults
    <3>1. CASE box'[d] = box[d]
      BY <3>1
    <3>2. CASE \E f : box'[d] = WithFlag(box[d], f)
      BY <1>1, <3>2
    <3>3. CASE \E s, g : box'[d] = WithState(box[d], s, g)
      BY <1>1, <3>3
    <3> QED BY <1>2, <3>1, <3>2, <3>3
  <2> QED BY <1>2, <2>1, ListsQuiet
<1> HIDE DEF Editing
<1>3. CASE ConnectStep(c)
  <2>1. UNCHANGED <<mixed, doubled>>
    BY <1>3 DEF ConnectStep, Grant, UpsertBox, LoadToken, Record, Exists, registryHistory
  <2>2. Recorded' /\ OnlyMoves(c)
    BY <1>0, <1>3, GrantTyped, UpsertTyped, LoadTyped, RecordTyped, ExistsTyped DEF ConnectStep
  <2>3. call'[c].pc \notin Editing
    BY <1>0, <1>3, GrantTyped, UpsertTyped, LoadTyped, RecordTyped, ExistsTyped, IdleElsewhere
       DEF ConnectStep, Editing
  <2>4. ASSUME NEW d \in Boxes
        PROVE  box'[d] = box[d] \/ \E s, g : box'[d] = WithState(box[d], s, g)
    <3>1. CASE UpsertBox(c)
      <4>1. d # call[c].of => box'[d] = box[d]
        BY <1>0, <3>1, UpsertTyped
      <4>2. d = call[c].of => box'[d] = WithState(box[d], "connected", FALSE)
        BY <1>0, <3>1, UpsertTyped DEF WithState
      <4> QED BY <4>1, <4>2
    <3>2. CASE ~UpsertBox(c)
      BY <1>3, <3>2 DEF ConnectStep, Grant, LoadToken, Record, Exists
    <3> QED BY <3>1, <3>2
  <2> QED BY <1>2, <2>1, <2>2, <2>3, <2>4
<1>4. CASE DisconnectStep(c)
  <2>1. UNCHANGED <<mixed, doubled>>
    BY <1>4 DEF DisconnectStep, Revoke, Purge, MarkGone, Unflag, registryHistory
  <2>2. Recorded' /\ OnlyMoves(c)
    BY <1>0, <1>4, RevokeTyped, PurgeTyped, MarkGoneTyped, UnflagTyped DEF DisconnectStep
  <2>3. call'[c].pc \notin Editing
    BY <1>0, <1>4, RevokeTyped, PurgeTyped, MarkGoneTyped, UnflagTyped DEF DisconnectStep, Editing
  <2>4. ASSUME NEW d \in Boxes
        PROVE  box'[d] = box[d] \/ (\E f : box'[d] = WithFlag(box[d], f))
               \/ (\E s, g : box'[d] = WithState(box[d], s, g))
    <3>1. CASE MarkGone(c)
      <4>1. d # call[c].of => box'[d] = box[d]
        BY <1>0, <3>1, MarkGoneTyped
      <4>2. d = call[c].of => box'[d] = WithState(box[d], "disconnected", TRUE)
        BY <1>0, <3>1, MarkGoneTyped
      <4> QED BY <4>1, <4>2
    <3>2. CASE Unflag(c)
      <4>1. d # call[c].of => box'[d] = box[d]
        BY <1>0, <3>2, UnflagTyped
      <4>2. d = call[c].of => box'[d] = WithFlag(box[d], FALSE)
        BY <1>0, <3>2, UnflagTyped
      <4> QED BY <4>1, <4>2
    <3>3. CASE Revoke(c) \/ Purge(c)
      BY <3>3 DEF Revoke, Purge
    <3> QED BY <1>4, <3>1, <3>2, <3>3 DEF DisconnectStep
  <2> QED BY <1>2, <2>1, <2>2, <2>3, <2>4
<1>5. CASE DefaultStep(c)
  <2>1. UNCHANGED <<mixed, doubled>>
    BY <1>5 DEF DefaultStep, Current, Replace, DropDefault, Target, Clear, SetFlag, registryHistory
  <2>2. Recorded' /\ OnlyMoves(c)
    BY <1>0, <1>5, CurrentTyped, ReplaceTyped, DropTyped, TargetTyped, ClearTyped, SetTyped DEF DefaultStep
  <2>3. call'[c].pc \notin Editing
    <3>1. CASE Current(c) \/ Replace(c)
      BY <1>0, <3>1, CurrentTyped, ReplaceTyped, IdleElsewhere DEF Editing
    <3>2. CASE DropDefault(c) \/ Target(c) \/ Clear(c) \/ SetFlag(c)
      BY <1>0, <3>2, DropTyped, TargetTyped, ClearTyped, SetTyped, IdleElsewhere DEF Editing
    <3> QED BY <1>5, <3>1, <3>2 DEF DefaultStep
  <2>4. ASSUME NEW d \in Boxes
        PROVE  box'[d] = box[d] \/ \E f : box'[d] = WithFlag(box[d], f)
    <3>1. CASE DropDefault(c)
      <4>1. d # call[c].cur => box'[d] = box[d]
        BY <1>0, <3>1, DropTyped
      <4>2. d = call[c].cur => box'[d] = WithFlag(box[d], FALSE)
        BY <1>0, <3>1, DropTyped
      <4> QED BY <4>1, <4>2
    <3>2. CASE Clear(c)
      BY <1>0, <3>2, ClearTyped
    <3>3. CASE SetFlag(c)
      <4>1. d # Chosen(call[c]) => box'[d] = box[d]
        BY <1>0, <3>3, SetTyped
      <4>2. d = Chosen(call[c]) => box'[d] = box[d] \/ box'[d] = WithFlag(box[d], TRUE)
        BY <1>0, <3>3, SetTyped
      <4> QED BY <4>1, <4>2
    <3>4. CASE Current(c) \/ Replace(c) \/ Target(c)
      BY <3>4 DEF Current, Replace, Target
    <3> QED BY <1>5, <3>1, <3>2, <3>3, <3>4 DEF DefaultStep
  <2> QED BY <1>2, <2>1, <2>2, <2>3, <2>4
<1>6. CASE RefreshStep(c)
  <2>1. UNCHANGED <<mixed, doubled>>
    BY <1>6 DEF RefreshStep, Valid, Evaluate, Renews, RenewUnsaved, RenewFails, Probe, MarkStatus, registryHistory
  <2>2. Recorded' /\ OnlyMoves(c)
    BY <1>0, <1>6, ValidTyped, EvaluateTyped, RenewsTyped, RenewUnsavedTyped, RenewFailsTyped, ProbeTyped,
       MarkStatusTyped DEF RefreshStep
  <2>3. call'[c].pc \notin Editing
    BY <1>0, <1>6, ValidTyped, EvaluateTyped, RenewsTyped, RenewUnsavedTyped, RenewFailsTyped, ProbeTyped, MarkStatusTyped,
       IdleElsewhere DEF RefreshStep, Editing
  <2>4. ASSUME NEW d \in Boxes
        PROVE  box'[d] = box[d] \/ \E s, g : box'[d] = WithState(box[d], s, g)
    <3>1. CASE MarkStatus(c)
      <4>1. d # call[c].of => box'[d] = box[d]
        BY <1>0, <3>1, MarkStatusTyped
      <4>2. d = call[c].of => box'[d] = WithState(box[d], call[c].status, box[d].gone)
        BY <1>0, <3>1, MarkStatusTyped
      <4> QED BY <4>1, <4>2
    <3>2. CASE Valid(c) \/ Evaluate(c) \/ Renews(c) \/ RenewUnsaved(c) \/ RenewFails(c) \/ Probe(c)
      BY <3>2 DEF Valid, Evaluate, Renews, RenewUnsaved, RenewFails, Probe
    <3> QED BY <1>6, <3>1, <3>2 DEF RefreshStep
  <2> QED BY <1>2, <2>1, <2>2, <2>3, <2>4
<1>7. CASE CallThrows(c)
  BY <1>0, <1>2, <1>7, ThrowsTyped, IdleElsewhere DEF CallThrows
<1> QED BY <1>3, <1>4, <1>5, <1>6, <1>7

LEMMA ListsBegin ==
  ASSUME Lists, NEW c \in Calls, CallBegins(c)
  PROVE  Lists'
<1>1. ASSUME NEW kind \in Kinds, NEW pc \in Steps, NEW b \in Boxes, NEW u \in Users,
             Starts(c, kind, pc, b, u), pc \notin Editing
      PROVE  Lists'
  <2>1. Begins(c, kind, pc, b, u) /\ Recorded'
    BY <1>1, StartsDoes, BeginsTyped DEF Lists
  <2>2. UNCHANGED <<box, mixed, doubled>>
    BY <1>1 DEF Starts, registryHistory
  <2> QED BY <1>1, <2>1, <2>2, ListsQuiet DEF Begins, FreshAs
<1>2. \A b \in Boxes : Owner[b] \in Users
  BY NoBoxApart
<1>3. grant \subseteq Boxes
  BY TypeFacts DEF Lists
<1> USE DEF Kinds, Steps, Editing
<1>5. CASE Connect(c)
  BY <1>1, <1>2, <1>5 DEF Connect
<1>6. CASE Adopt(c)
  BY <1>1, <1>2, <1>3, <1>6 DEF Adopt
<1>7. CASE DisconnectBox(c)
  BY <1>1, <1>7 DEF DisconnectBox
<1>8. CASE Choose(c)
  BY <1>1, <1>2, <1>8 DEF Choose
<1>9. CASE Refresh(c)
  BY <1>1, <1>2, <1>9 DEF Refresh
<1>10. CASE Validate(c)
  BY <1>1, <1>2, <1>10 DEF Validate
<1>11. CASE Assign(c)
  BY <1>1, <1>11 DEF Assign
<1>12. CASE Unassign(c)
  BY <1>1, <1>12 DEF Unassign
<1>13. CASE Prefer(c)
  BY <1>1, <1>13 DEF Prefer
<1> QED BY <1>5, <1>6, <1>7, <1>8, <1>9, <1>10, <1>11, <1>12, <1>13 DEF CallBegins

LEMMA ListsEdit ==
  ASSUME Lists, NEW c \in Calls, Edit(c)
  PROVE  Lists'
<1>0. Recorded /\ call[c].pc = "edit"
  BY DEF Lists, Edit
<1>1. UNCHANGED <<box, mixed, doubled>>
  BY DEF Edit, registryHistory
<1>2. Recorded' /\ OnlyMoves(c) /\ call[c].kind \in Assigning
  BY <1>0, EditTyped
<1>3. CASE call'[c] = Idle
  BY <1>1, <1>2, <1>3, ListsQuiet, IdleElsewhere
<1>4. CASE /\ Wanted(call[c]) /\ Continues(call'[c], call[c])
           /\ call'[c].pc = IF call[c].kind = "prefer" THEN "pull" ELSE "save"
           /\ call'[c].list = box[call[c].of].assigned /\ call'[c].defs = box[call[c].of].defaults
  <2>1. ListKnows(c)'
    <3>1. CASE call[c].kind = "prefer"
      <4>1. MayUse(call[c].of, call[c].who)
        BY <1>4, <3>1 DEF Wanted
      <4> QED BY <1>1, <1>4, <3>1, <4>1 DEF ListKnows, Continues, MayUse
    <3>2. CASE call[c].kind # "prefer"
      BY <1>1, <1>4, <3>2 DEF ListKnows, Continues
    <3> QED BY <3>1, <3>2
  <2>2. ASSUME NEW d \in Calls \ {c} PROVE ListKnows(d)'
    <3>1. Stays(call'[d], call[d]) /\ ListKnows(d)
      BY <1>2 DEF OnlyMoves, Others, Lists
    <3> QED BY <1>1, <3>1 DEF ListKnows, Stays, Like, MayUse
  <2>3. OneDefaultEach'
    BY <1>1 DEF Lists, OneDefaultEach
  <2> QED BY <1>2, <2>1, <2>2, <2>3 DEF Lists
<1> QED BY <1>0, <1>3, <1>4, EditTyped

(* The lists of the mailboxes, as the writers leave them. *)
LEMMA ListFields ==
  ASSUME Recorded, NEW b \in Boxes, NEW A, NEW D
  PROVE  WithAssigned(box[b], A, D).assigned = A /\ WithAssigned(box[b], A, D).defaults = D
<1>1. box[b] \in Mailbox
  BY TypeFacts
<1> QED BY <1>1 DEF WithAssigned, Mailbox

LEMMA ListsAre ==
  ASSUME Recorded, NEW b \in Boxes
  PROVE  box[b].assigned \in SUBSET Users /\ box[b].defaults \in SUBSET Users
<1>1. box[b] \in Mailbox
  BY TypeFacts
<1> QED BY <1>1 DEF Mailbox

LEMMA ListsSave ==
  ASSUME Lists, NEW c \in Calls, SaveLists(c)
  PROVE  Lists'
<1> DEFINE b == call[c].of
           w == call[c]
<1>0. Recorded
  BY DEF Lists
<1>1. w \in Working /\ Sane(w) /\ w.pc = "save" /\ ListKnows(c)
  BY <1>0, CallAtWork DEF SaveLists, Lists
<1>2. /\ Recorded' /\ OnlyMoves(c) /\ call'[c] = Idle /\ ListsNoted(c, {b}, {}) /\ w.kind \in {"assign", "unassign"}
      /\ \A d \in Boxes \ {b} : box'[d] = box[d]
  BY <1>0, SaveTyped
<1>3. /\ mixed' = IF w.alone THEN mixed ELSE mixed \cup {b}
      /\ doubled' = IF w.alone THEN doubled ELSE doubled \cup w.defs
  BY DEF SaveLists
<1>4. /\ b \in Boxes /\ w.who \in Users /\ w.list \in SUBSET Users /\ w.defs \in SUBSET Users
      /\ box[b].assigned \in SUBSET Users /\ box[b].defaults \in SUBSET Users /\ w.alone \in BOOLEAN
  BY <1>0, <1>1, ListsAre DEF Working
<1>5. DefaultsCleared(w, box[b].defaults) \in SUBSET Users
  BY <1>4 DEF DefaultsCleared
<1>6. /\ w.kind = "assign" =>
           box'[b].assigned = w.list \cup {w.who} /\ box'[b].defaults = box[b].defaults
      /\ w.kind = "unassign" =>
           box'[b].assigned = w.list \ {w.who} /\ box'[b].defaults = DefaultsCleared(w, box[b].defaults)
  <2>1. ASSUME w.kind = "assign"
        PROVE  box'[b].assigned = w.list \cup {w.who} /\ box'[b].defaults = box[b].defaults
    <3>1. box'[b] = WithAssigned(box[b], w.list \cup {w.who}, box[b].defaults)
      BY <1>0, <2>1, SaveTyped
    <3> QED BY <1>0, <1>4, <3>1, ListFields
  <2>2. ASSUME w.kind = "unassign"
        PROVE  box'[b].assigned = w.list \ {w.who} /\ box'[b].defaults = DefaultsCleared(w, box[b].defaults)
    <3>1. box'[b] = WithAssigned(box[b], w.list \ {w.who}, DefaultsCleared(w, box[b].defaults))
      BY <1>0, <2>2, SaveTyped
    <3> QED BY <1>0, <1>4, <3>1, ListFields
  <2> QED BY <2>1, <2>2
<1>7. w.alone => w.list = box[b].assigned /\ w.defs = box[b].defaults
  BY <1>1 DEF ListKnows
<1>8. box'[b].defaults \subseteq box[b].defaults \cup doubled'
  BY <1>2, <1>3, <1>6, <1>7 DEF DefaultsCleared
<1>9. doubled \subseteq doubled' /\ mixed \subseteq mixed'
  BY <1>3
<1>10. ASSUME b \notin mixed' PROVE box'[b].defaults \subseteq box'[b].assigned \cup {Owner[b]}
  <2>1. w.alone /\ b \notin mixed
    BY <1>3, <1>10
  <2>2. box[b].defaults \subseteq box[b].assigned \cup {Owner[b]}
    BY <1>4, <2>1 DEF Lists, OneDefaultEach
  <2> QED BY <1>2, <1>6, <1>7, <2>1, <2>2 DEF DefaultsCleared
<1> HIDE DEF b, w
<1>11. OneDefaultEach'
  <2>1. ASSUME NEW d \in Boxes \ mixed' PROVE box'[d].defaults \subseteq box'[d].assigned \cup {Owner[d]}
    BY <1>2, <1>9, <1>10 DEF Lists, OneDefaultEach
  <2>2. ASSUME NEW u \in Users \ doubled', NEW d \in Boxes, NEW e \in Boxes,
               u \in box'[d].defaults, u \in box'[e].defaults
        PROVE  d = e
    <3>1. u \notin doubled /\ u \in box[d].defaults /\ u \in box[e].defaults
      BY <1>2, <1>8, <1>9, <2>2
    <3> QED BY <3>1 DEF Lists, OneDefaultEach
  <2> QED BY <2>1, <2>2 DEF OneDefaultEach
<1>12. ASSUME NEW d \in Calls \ {c} PROVE ListKnows(d)'
  <2>1. Stays(call'[d], call[d]) /\ ListKnows(d)
    BY <1>2 DEF OnlyMoves, Others, Lists
  <2>2. CASE call[d] = Idle
    BY <2>1, <2>2, ElsewhereKnows, IdleElsewhere DEF Stays
  <2>3. CASE call[d] # Idle
    <3>1. call[d] \in Working /\ Sane(call[d])
      BY <1>0, <2>3, TypeFacts
    <3>2. CASE call[d].pc \notin Editing
      BY <2>1, <3>2, ElsewhereKnows DEF Stays, Like
    <3>3. CASE call[d].pc \in Editing
      <4>1. call[d].kind \in Assigning /\ call[d].of \in Boxes
        BY <3>1, <3>3, KindAt DEF Editing, Assigning, Working
      <4>2. call'[d].alone => call[d].of # b
        BY <1>2, <4>1 DEF ListsNoted
      <4>3. ASSUME call'[d].alone, call[d].pc = "add", call[d].who \notin doubled'
            PROVE  \A e \in Boxes \ {call[d].of} : call[d].who \notin box'[e].defaults
        <5>1. \A e \in Boxes \ {call[d].of} : call[d].who \notin box[e].defaults
          BY <1>9, <2>1, <4>3 DEF ListKnows, Stays, Like
        <5> QED BY <1>2, <1>8, <4>3, <5>1
      <4> QED BY <1>2, <2>1, <4>1, <4>2, <4>3 DEF ListKnows, Stays, Like, MayUse
    <3> QED BY <3>2, <3>3
  <2> QED BY <2>2, <2>3
<1>13. ListKnows(c)'
  BY <1>2, ElsewhereKnows, IdleElsewhere
<1> QED BY <1>2, <1>11, <1>12, <1>13 DEF Lists

LEMMA ListsPull ==
  ASSUME Lists, NEW c \in Calls, Pull(c)
  PROVE  Lists'
<1> DEFINE b == call[c].of
           w == call[c]
<1>0. Recorded
  BY DEF Lists
<1>1. w \in Working /\ Sane(w) /\ w.pc = "pull" /\ ListKnows(c)
  BY <1>0, CallAtWork DEF Pull, Lists
<1>2. /\ Recorded' /\ OnlyMoves(c) /\ Onward(call'[c], w, "add")
      /\ ListsNoted(c, {d \in Boxes \ {b} : w.who \in box[d].defaults}, {})
      /\ box'[b] = box[b]
  BY <1>0, PullTyped
<1>3. UNCHANGED <<mixed, doubled>>
  BY DEF Pull, registryHistory
<1>4. b \in Boxes /\ w.who \in Users
  BY <1>1 DEF Working
<1>5. ASSUME NEW d \in Boxes
      PROVE  /\ box'[d].assigned = box[d].assigned
             /\ box'[d].defaults = IF d = b THEN box[d].defaults ELSE box[d].defaults \ {w.who}
  <2>1. CASE d = b
    BY <1>2, <2>1
  <2>2. CASE d # b
    <3>1. box'[d] = WithAssigned(box[d], box[d].assigned, box[d].defaults \ {w.who})
      BY <1>0, <2>2, PullTyped
    <3> QED BY <1>0, <2>2, <3>1, ListFields
  <2> QED BY <2>1, <2>2
<1> HIDE DEF b, w
<1>6. OneDefaultEach'
  <2>1. \A d \in Boxes : box'[d].defaults \subseteq box[d].defaults /\ box'[d].assigned = box[d].assigned
    BY <1>5
  <2>2. \A d \in Boxes \ mixed : box[d].defaults \subseteq box[d].assigned \cup {Owner[d]}
    BY DEF Lists, OneDefaultEach
  <2>3. \A u \in Users \ doubled, d, e \in Boxes : u \in box[d].defaults /\ u \in box[e].defaults => d = e
    BY DEF Lists, OneDefaultEach
  <2> QED BY <1>3, <2>1, <2>2, <2>3 DEF OneDefaultEach
<1>7. ListKnows(c)'
  <2>1. call'[c].alone => MayUse(b, w.who)
    BY <1>1, <1>2 DEF ListKnows, Onward, Continues, b, w
  <2>2. \A d \in Boxes \ {b} : w.who \notin box'[d].defaults
    BY <1>5
  <2>3. call'[c].of = b /\ call'[c].who = w.who /\ call'[c].pc = "add"
    BY <1>2 DEF Onward, Continues, b, w
  <2> QED BY <1>4, <1>5, <2>1, <2>2, <2>3 DEF ListKnows, MayUse
<1>8. ASSUME NEW d \in Calls \ {c} PROVE ListKnows(d)'
  <2>1. Stays(call'[d], call[d]) /\ ListKnows(d)
    BY <1>2 DEF OnlyMoves, Others, Lists
  <2>2. CASE call[d] = Idle
    BY <2>1, <2>2, ElsewhereKnows, IdleElsewhere DEF Stays
  <2>3. CASE call[d] # Idle
    <3>1. call[d] \in Working /\ Sane(call[d])
      BY <1>0, <2>3, TypeFacts
    <3>2. CASE call[d].pc \notin Editing
      BY <2>1, <3>2, ElsewhereKnows DEF Stays, Like
    <3>3. CASE call[d].pc \in Editing
      <4>1. call[d].kind \in Assigning /\ call[d].of \in Boxes
        BY <3>1, <3>3, KindAt DEF Editing, Assigning, Working
      <4>2. ASSUME call'[d].alone PROVE box'[call[d].of].defaults = box[call[d].of].defaults
        <5>1. call[d].of \notin {e \in Boxes \ {b} : w.who \in box[e].defaults}
          BY <1>2, <4>1, <4>2 DEF ListsNoted
        <5>2. call[d].of = b \/ w.who \notin box[call[d].of].defaults
          BY <4>1, <5>1
        <5>3. w.who \notin box[call[d].of].defaults =>
                box[call[d].of].defaults \ {w.who} = box[call[d].of].defaults
          OBVIOUS
        <5>4. box'[call[d].of].defaults = IF call[d].of = b THEN box[call[d].of].defaults
                                          ELSE box[call[d].of].defaults \ {w.who}
          BY <1>5, <4>1
        <5> QED BY <5>2, <5>3, <5>4
      <4> QED BY <1>3, <1>5, <2>1, <4>1, <4>2 DEF ListKnows, Stays, Like, MayUse
    <3> QED BY <3>2, <3>3
  <2> QED BY <2>2, <2>3
<1> QED BY <1>2, <1>6, <1>7, <1>8 DEF Lists

LEMMA ListsAdd ==
  ASSUME Lists, NEW c \in Calls, Add(c)
  PROVE  Lists'
<1> DEFINE b == call[c].of
           w == call[c]
<1>0. Recorded
  BY DEF Lists
<1>1. w \in Working /\ Sane(w) /\ w.pc = "add" /\ ListKnows(c)
  BY <1>0, CallAtWork DEF Add, Lists
<1>2. /\ Recorded' /\ OnlyMoves(c) /\ call'[c] = Idle /\ ListsNoted(c, {b}, {w.who}) /\ w.kind = "prefer"
      /\ \A d \in Boxes \ {b} : box'[d] = box[d]
      /\ box'[b] = WithAssigned(box[b], box[b].assigned, box[b].defaults \cup {w.who})
  BY <1>0, AddTyped
<1>3. /\ mixed' = IF w.alone THEN mixed ELSE mixed \cup {b}
      /\ doubled' = IF w.alone THEN doubled ELSE doubled \cup {w.who}
  BY DEF Add
<1>4. b \in Boxes /\ w.who \in Users /\ w.alone \in BOOLEAN
  BY <1>1 DEF Working
<1>5. box'[b].assigned = box[b].assigned /\ box'[b].defaults = box[b].defaults \cup {w.who}
  BY <1>0, <1>2, <1>4, ListFields
<1>6. doubled \subseteq doubled' /\ mixed \subseteq mixed'
  BY <1>3
<1>7. ASSUME b \notin mixed' PROVE box'[b].defaults \subseteq box'[b].assigned \cup {Owner[b]}
  <2>1. w.alone /\ b \notin mixed
    BY <1>3, <1>7
  <2>2. box[b].defaults \subseteq box[b].assigned \cup {Owner[b]}
    BY <1>4, <2>1 DEF Lists, OneDefaultEach
  <2>3. MayUse(b, w.who)
    BY <1>1, <2>1 DEF ListKnows
  <2> QED BY <1>5, <2>2, <2>3 DEF MayUse
<1>8. w.who \in doubled' \/ \A d \in Boxes \ {b} : w.who \notin box[d].defaults
  BY <1>1, <1>3 DEF ListKnows
<1> HIDE DEF b, w
<1>9. OneDefaultEach'
  <2>1. ASSUME NEW d \in Boxes \ mixed' PROVE box'[d].defaults \subseteq box'[d].assigned \cup {Owner[d]}
    BY <1>2, <1>6, <1>7 DEF Lists, OneDefaultEach
  <2>2. ASSUME NEW u \in Users \ doubled', NEW d \in Boxes, NEW e \in Boxes,
               u \in box'[d].defaults, u \in box'[e].defaults
        PROVE  d = e
    <3>1. u \notin doubled
      BY <1>6
    <3>2. CASE u # w.who
      <4>1. u \in box[d].defaults /\ u \in box[e].defaults
        BY <1>2, <1>5, <2>2, <3>2
      <4> QED BY <3>1, <4>1 DEF Lists, OneDefaultEach
    <3>3. CASE u = w.who
      BY <1>2, <1>8, <2>2, <3>3
    <3> QED BY <3>2, <3>3
  <2> QED BY <2>1, <2>2 DEF OneDefaultEach
<1>10. ASSUME NEW d \in Calls \ {c} PROVE ListKnows(d)'
  <2>1. Stays(call'[d], call[d]) /\ ListKnows(d)
    BY <1>2 DEF OnlyMoves, Others, Lists
  <2>2. CASE call[d] = Idle
    BY <2>1, <2>2, ElsewhereKnows, IdleElsewhere DEF Stays
  <2>3. CASE call[d] # Idle
    <3>1. call[d] \in Working /\ Sane(call[d])
      BY <1>0, <2>3, TypeFacts
    <3>2. CASE call[d].pc \notin Editing
      BY <2>1, <3>2, ElsewhereKnows DEF Stays, Like
    <3>3. CASE call[d].pc \in Editing
      <4>1. call[d].kind \in Assigning /\ call[d].of \in Boxes
        BY <3>1, <3>3, KindAt DEF Editing, Assigning, Working
      <4>2. call'[d].alone => call[d].of # b /\ (call[d].kind = "prefer" => call[d].who # w.who)
        BY <1>2, <4>1 DEF ListsNoted
      <4>3. ASSUME call'[d].alone, call[d].pc = "add", call[d].who \notin doubled'
            PROVE  \A e \in Boxes \ {call[d].of} : call[d].who \notin box'[e].defaults
        <5>1. \A e \in Boxes \ {call[d].of} : call[d].who \notin box[e].defaults
          BY <1>6, <2>1, <4>3 DEF ListKnows, Stays, Like
        <5>2. call[d].kind = "prefer"
          BY <3>1, <4>3 DEF Sane, InPlace, Working, Kinds, Settling
        <5> QED BY <1>2, <1>5, <4>2, <4>3, <5>1, <5>2
      <4> QED BY <1>2, <2>1, <4>1, <4>2, <4>3 DEF ListKnows, Stays, Like, MayUse
    <3> QED BY <3>2, <3>3
  <2> QED BY <2>2, <2>3
<1>11. ListKnows(c)'
  BY <1>2, ElsewhereKnows, IdleElsewhere
<1> QED BY <1>2, <1>9, <1>10, <1>11 DEF Lists

LEMMA ListsStep == Lists /\ [RegistryNext]_registryVars => Lists'
<1> SUFFICES ASSUME Lists, [RegistryNext]_registryVars PROVE Lists'
  OBVIOUS
<1>1. CASE UNCHANGED registryVars
  BY <1>1, NextTyped DEF registryVars, registryHistory, Lists, ListKnows, MayUse, OneDefaultEach
<1>2. ASSUME NEW c \in Calls,
             ConnectStep(c) \/ DisconnectStep(c) \/ DefaultStep(c) \/ RefreshStep(c) \/ CallThrows(c)
      PROVE  Lists'
  BY <1>2, ListsLinks
<1>3. ASSUME NEW c \in Calls, AssignStep(c) PROVE Lists'
  BY <1>3, ListsEdit, ListsSave, ListsPull, ListsAdd DEF AssignStep
<1>4. ASSUME NEW c \in Calls, CallBegins(c) PROVE Lists'
  BY <1>4, ListsBegin
<1>5. ASSUME NEW b \in Boxes, TokenAges(b) PROVE Lists'
  <2>1. Recorded' /\ UNCHANGED <<box, call, mixed, doubled>>
    BY <1>5, TokenAgesTyped DEF Lists, TokenAges, registryHistory
  <2> QED BY <2>1 DEF Lists, ListKnows, MayUse, OneDefaultEach
<1>6. CASE RegistryCrash
  <2>1. Recorded' /\ \A c \in Calls : call'[c] = Idle
    BY <1>6, CrashTyped DEF Lists
  <2>2. UNCHANGED <<box, mixed, doubled>>
    BY <1>6 DEF RegistryCrash
  <2>3. \A c \in Calls : ListKnows(c)'
    BY <2>1, ElsewhereKnows, IdleElsewhere
  <2> QED BY <2>1, <2>2, <2>3 DEF Lists, OneDefaultEach
<1> QED BY <1>1, <1>2, <1>3, <1>4, <1>5, <1>6 DEF RegistryNext

LEMMA InitLists == RegistryInit => Lists
<1> SUFFICES ASSUME RegistryInit PROVE Lists
  OBVIOUS
<1>1. PICK ended \in SUBSET {b \in Boxes : since[b] # 0},
           given \in [Boxes -> SUBSET Users], flagged \in [Users -> Boxes \cup {NoBox}],
           preferred \in [Users -> Boxes \cup {NoBox}], open \in SUBSET Boxes :
             InitAs(ended, given, flagged, preferred, open)
  BY InitBoxes
<1>2. \A b \in Boxes : box[b].assigned = given[b] /\ box[b].defaults = {u \in Users : preferred[u] = b}
  BY <1>1 DEF InitAs, InitMailbox
<1>3. OneDefaultEach
  <2>1. ASSUME NEW b \in Boxes PROVE box[b].defaults \subseteq box[b].assigned
    BY <1>1, <1>2, NoBoxApart DEF InitAs
  <2>2. ASSUME NEW u \in Users, NEW b \in Boxes, NEW d \in Boxes, u \in box[b].defaults, u \in box[d].defaults
        PROVE  b = d
    BY <1>2, <2>2
  <2> QED BY <2>1, <2>2 DEF OneDefaultEach
<1>4. \A c \in Calls : ListKnows(c)
  BY IdleElsewhere DEF RegistryInit, ListKnows, Editing
<1> QED BY <1>3, <1>4, InitTyped DEF Lists

(* A mailbox is the default of users who may use it and a user has one such default, unless
   two administrators' calls cut across one another. *)
THEOREM OneDefaultEachHolds == RegistrySpec => []OneDefaultEach
<1>1. Lists => OneDefaultEach
  BY DEF Lists
<1> QED BY <1>1, InitLists, ListsStep, PTL DEF RegistrySpec

-------------------------------------------------------------------------------
(* The default a user sends from.                                             *)

(* The defaults of u work; and he has one if any of his mailboxes works. *)
Semi(u) == \A b \in Defaults(u) : IsOpen(b)
Good(u) == Semi(u) /\ ((\E b \in Owned(u) : IsOpen(b)) => Defaults(u) # {})

(* A call that will settle the default of its user, whatever it meets. *)
WillSettle(w) == w.kind \in Connecting /\ (w.kind # "connect" \/ w.pc \in Settling)

(* Call c answers for u: it will settle his default, or knows that it need not, or was cut
   across and will say so. *)
Answers(c, u) ==
  /\ u \in Minds(call[c])
  /\ \/ ~call[c].alone
     \/ WillSettle(call[c])
     \/ call[c].pc \in {"load", "record", "exists"} /\ Semi(u)

Answered == \A u \in Users \ shaken : Good(u) \/ \E c \in Calls : Answers(c, u)

OneFlag == \A u \in Users : \A b, d \in Defaults(u) : b = d

(* What a call that nobody cut across still knows of the default it settles. *)
DefaultKnows(c) ==
  call[c].alone =>
    /\ call[c].pc = "replace" => IF call[c].cur = NoBox THEN Defaults(call[c].who) = {}
                                 ELSE call[c].cur \in Defaults(call[c].who)
    /\ call[c].pc = "drop" => call[c].cur \in Defaults(call[c].who) /\ Candidates(call[c].who) = {}
    /\ call[c].pc \in {"target", "clear", "set"} => IsOpen(Chosen(call[c]))
    /\ call[c].pc = "set" => Defaults(call[c].who) = {}

Settlement == Recorded /\ OneFlag /\ Answered /\ \A c \in Calls : DefaultKnows(c)

(* A step that u does not see. *)
Unseen(u) == \A b \in Owned(u) : box'[b].status = box[b].status /\ box'[b].isDefault = box[b].isDefault

LEMMA UnseenSame ==
  ASSUME NEW u, Unseen(u)
  PROVE  /\ Defaults(u)' = Defaults(u) /\ Candidates(u)' = Candidates(u)
         /\ Semi(u)' <=> Semi(u)
         /\ Good(u)' <=> Good(u)
         /\ \A b \in Owned(u) : IsOpen(b)' <=> IsOpen(b)
<1>1. Owned(u) = {b \in Boxes : Owner[b] = u} /\ Owned(u)' = Owned(u)
  BY DEF Owned
<1>2. \A b \in Owned(u) : IsOpen(b)' <=> IsOpen(b)
  BY DEF Unseen, IsOpen
<1>3. Defaults(u)' = Defaults(u)
  BY <1>1 DEF Defaults, Unseen
<1>4. Candidates(u)' = Candidates(u)
  BY <1>1, <1>2 DEF Candidates
<1>5. \A b \in Defaults(u) : b \in Owned(u)
  BY DEF Defaults
<1>6. Semi(u)' <=> Semi(u)
  BY <1>2, <1>3, <1>5 DEF Semi
<1>7. Good(u)' <=> Good(u)
  BY <1>1, <1>2, <1>3, <1>6 DEF Good
<1> QED BY <1>2, <1>3, <1>4, <1>6, <1>7

LEMMA SettlersConnect == Settlers = Connecting /\ Connecting \subseteq Linking
BY DEF Settlers, Connecting, Linking

LEMMA MindsOf ==
  ASSUME NEW w, NEW v, v.kind = w.kind, v.of = w.of, v.who = w.who
  PROVE  Minds(v) = Minds(w)
BY DEF Minds

LEMMA SettlerMinds ==
  ASSUME NEW w \in Working, Sane(w), w.pc \in Settling
  PROVE  /\ w.who \in Minds(w) /\ w.who \in Users /\ WillSettle(w) /\ w.kind \in Connecting
         /\ w.pc \in {"target", "clear", "set"} => Chosen(w) \in Boxes /\ Owner[Chosen(w)] = w.who
<1>1. w.kind \in Connecting
  BY KindAt, SettlersConnect
<1>2. w.who \in Minds(w) /\ w.who \in Users /\ WillSettle(w)
  BY <1>1 DEF Minds, Working, WillSettle
<1>3. w.pc \in {"target", "clear", "set"} => Chosen(w) \in Boxes /\ Owner[Chosen(w)] = w.who
  BY NoBoxApart DEF Sane, Chosen
<1> QED BY <1>1, <1>2, <1>3

(* The other calls go on answering and knowing, if those that did not take note see nothing. *)
LEMMA OthersAnswer ==
  ASSUME Settlement, NEW c \in Calls, OnlyMoves(c), NEW d \in Calls \ {c},
         call[d].kind \in Connecting /\ call'[d].alone => \A u \in Minds(call[d]) : Unseen(u)
  PROVE  DefaultKnows(d)' /\ \A u : Answers(d, u) => Answers(d, u)'
<1>1. Stays(call'[d], call[d]) /\ DefaultKnows(d)
  BY DEF OnlyMoves, Others, Settlement
<1>2. Minds(call'[d]) = Minds(call[d])
  BY <1>1, MindsOf DEF Stays, Like
<1>3. ASSUME NEW u, Answers(d, u) PROVE Answers(d, u)'
  <2>1. u \in Minds(call[d]) /\ call[d].kind \in Connecting
    BY <1>3 DEF Answers, Minds
  <2>2. CASE ~call'[d].alone
    BY <1>2, <2>1, <2>2 DEF Answers
  <2>3. CASE call'[d].alone
    <3>1. Unseen(u) /\ call[d].alone
      BY <1>1, <2>1, <2>3 DEF Stays, Like
    <3>2. Semi(u)' <=> Semi(u)
      BY <3>1, UnseenSame
    <3> QED BY <1>1, <1>2, <1>3, <3>1, <3>2 DEF Answers, Stays, Like, WillSettle
  <2> QED BY <2>2, <2>3
<1>4. DefaultKnows(d)'
  <2>1. CASE call'[d].pc \notin Settling \/ ~call'[d].alone
    BY <2>1 DEF DefaultKnows, Settling
  <2>2. CASE call'[d].pc \in Settling /\ call'[d].alone
    <3>1. call[d] # Idle
      BY <1>1, <2>2, IdleIs DEF Settling, Stays
    <3>2. call[d] \in Working /\ Sane(call[d])
      BY <3>1, TypeFacts DEF Settlement
    <3>3. /\ call[d].who \in Minds(call[d]) /\ call[d].kind \in Connecting
          /\ call[d].pc \in {"target", "clear", "set"} =>
               Chosen(call[d]) \in Boxes /\ Owner[Chosen(call[d])] = call[d].who
      BY <1>1, <2>2, <3>2, SettlerMinds DEF Stays, Like
    <3>4. Unseen(call[d].who)
      BY <2>2, <3>3
    <3>5. PICK u : u = call[d].who
      OBVIOUS
    <3>6. /\ Defaults(u)' = Defaults(u) /\ Candidates(u)' = Candidates(u)
          /\ \A b \in Owned(u) : IsOpen(b)' <=> IsOpen(b)
      BY <3>4, <3>5, UnseenSame
    <3>7. /\ call'[d].who = u /\ Chosen(call'[d]) = Chosen(call[d]) /\ call'[d].cur = call[d].cur
          /\ call'[d].pc = call[d].pc /\ call[d].alone
      BY <1>1, <2>2, <3>5 DEF Stays, Like, Chosen
    <3>8. Defaults(call[d].who)' = Defaults(u) /\ Candidates(call[d].who)' = Candidates(u)
      BY <3>6, <3>7 DEF Defaults, Candidates, Owned, IsOpen
    <3>9. ASSUME call[d].pc \in {"target", "clear", "set"} PROVE IsOpen(Chosen(call[d]))' <=> IsOpen(Chosen(call[d]))
      <4>1. Chosen(call[d]) \in Owned(u)
        BY <3>3, <3>5, <3>9 DEF Owned
      <4> QED BY <3>6, <3>7, <4>1 DEF IsOpen
    <3> QED BY <1>1, <3>5, <3>7, <3>8, <3>9 DEF DefaultKnows
  <2> QED BY <2>1, <2>2
<1> QED BY <1>3, <1>4

(* What a step of c owes a user who was not shaken. *)
Owes(c, u) ==
  \/ Good(u)'
  \/ Answers(c, u)'
  \/ u \notin shaken /\ ~Answers(c, u) /\ (Good(u) => Good(u)' \/ Answers(c, u)')

LEMMA SettleStep ==
  ASSUME Settlement, Recorded', NEW c \in Calls, OnlyMoves(c), OneFlag', DefaultKnows(c)',
         \A d \in Calls \ {c} : call[d].kind \in Connecting /\ call'[d].alone =>
           \A u \in Minds(call[d]) : Unseen(u),
         \A u \in Users \ shaken' : Owes(c, u)
  PROVE  Settlement'
<1>1. ASSUME NEW d \in Calls \ {c} PROVE DefaultKnows(d)' /\ \A u : Answers(d, u) => Answers(d, u)'
  BY OthersAnswer
<1>2. Answered'
  <2> SUFFICES ASSUME NEW u \in Users \ shaken' PROVE Good(u)' \/ \E d \in Calls : Answers(d, u)'
    BY DEF Answered
  <2>1. CASE Good(u)' \/ Answers(c, u)'
    BY <2>1
  <2>2. CASE u \notin shaken /\ ~Answers(c, u) /\ (Good(u) => Good(u)' \/ Answers(c, u)')
    <3>1. CASE Good(u)
      BY <2>2, <3>1
    <3>2. CASE ~Good(u)
      <4>1. PICK d \in Calls : Answers(d, u)
        BY <2>2, <3>2 DEF Settlement, Answered
      <4>2. d # c
        BY <2>2, <4>1
      <4> QED BY <1>1, <4>1, <4>2
    <3> QED BY <3>1, <3>2
  <2> QED BY <2>1, <2>2 DEF Owes
<1> QED BY <1>1, <1>2 DEF Settlement

LEMMA FlagsStay == ASSUME OneFlag, \A u \in Users : Unseen(u) PROVE OneFlag'
<1>1. \A u \in Users : Defaults(u)' = Defaults(u)
  BY UnseenSame
<1> QED BY <1>1 DEF OneFlag

(* A step that no user sees. *)
LEMMA SettleAside ==
  ASSUME Settlement, Recorded', NEW c \in Calls, OnlyMoves(c), DefaultKnows(c)',
         \A u \in Users : Unseen(u), shaken \subseteq shaken',
         \A u \in Users \ shaken' : Answers(c, u) => Good(u)' \/ Answers(c, u)'
  PROVE  Settlement'
<1>1. OneFlag'
  BY FlagsStay DEF Settlement
<1>2. \A d \in Calls : \A u \in Minds(call[d]) : Unseen(u)
  BY MindsAreUsers DEF Settlement
<1>3. ASSUME NEW u \in Users \ shaken' PROVE Owes(c, u)
  <2>1. Good(u)' <=> Good(u)
    BY UnseenSame
  <2> QED BY <2>1 DEF Owes
<1> QED BY <1>1, <1>2, <1>3, SettleStep

LEMMA IdleDefault == \A c \in Calls : call'[c].pc \notin Settling => DefaultKnows(c)'
BY DEF DefaultKnows, Settling

LEMMA IdleSettling == Idle.pc \notin Settling
BY IdleIs DEF Settling

(* A call is over and has settled the default of its user. *)
LEMMA SettleEnds ==
  ASSUME Settlement, Recorded', NEW c \in Calls, OnlyMoves(c), call'[c] = Idle, OneFlag',
         shaken' = Settled(call[c]), call[c].who \in Minds(call[c]),
         \A d \in Calls \ {c} : call[d].kind \in Connecting /\ call'[d].alone =>
           \A u \in Minds(call[d]) : Unseen(u),
         \A u \in Users : u # call[c].who => Unseen(u),
         call[c].alone => \A u \in Users : u = call[c].who => Good(u)'
  PROVE  Settlement'
<1>1. DefaultKnows(c)'
  BY IdleDefault, IdleSettling
<1>2. ASSUME NEW u \in Users \ shaken' PROVE Owes(c, u)
  <2>1. CASE u # call[c].who
    <3>1. u \notin shaken /\ u \notin Minds(call[c])
      BY <2>1 DEF Settled
    <3>2. Good(u)' <=> Good(u)
      BY <2>1, UnseenSame
    <3> QED BY <3>1, <3>2 DEF Owes, Answers
  <2>2. CASE u = call[c].who
    <3>1. call[c].alone
      BY <2>2 DEF Settled
    <3> QED BY <2>2, <3>1 DEF Owes
  <2> QED BY <2>1, <2>2
<1> QED BY <1>1, <1>2, SettleStep

(* The same, of a step that writes no mailbox. *)
LEMMA SettleEndsQuiet ==
  ASSUME Settlement, Recorded', NEW c \in Calls, OnlyMoves(c), call'[c] = Idle,
         shaken' = Settled(call[c]), call[c].who \in Minds(call[c]), UNCHANGED box,
         call[c].alone => \A u \in Users : u = call[c].who => Good(u)
  PROVE  Settlement'
<1>1. \A u : Unseen(u)
  BY DEF Unseen
<1>2. OneFlag'
  BY <1>1, FlagsStay DEF Settlement
<1>3. \A u : Good(u)' <=> Good(u)
  BY <1>1, UnseenSame
<1> QED BY <1>1, <1>2, <1>3, SettleEnds

(* A step that writes mailboxes of one user: the others see nothing, and those who look
   after his default take note. *)
LEMMA NotedOthers ==
  ASSUME Recorded, NEW c \in Calls, NEW b \in Boxes, BoxNoted(c, b), NEW o, o = Owner[b],
         \A u \in Users : u # o => Unseen(u)
  PROVE  \A d \in Calls \ {c} : call[d].kind \in Connecting /\ call'[d].alone =>
           \A u \in Minds(call[d]) : Unseen(u)
<1> SUFFICES ASSUME NEW d \in Calls \ {c}, call[d].kind \in Connecting, call'[d].alone,
                    NEW u \in Minds(call[d])
             PROVE  Unseen(u)
  OBVIOUS
<1>1. Owner[b] \notin Minds(call[d])
  BY SettlersConnect DEF BoxNoted
<1>2. u \in Users
  BY MindsAreUsers
<1> QED BY <1>1, <1>2

(* A call goes on and still minds whom it minded. *)
LEMMA MindsStay ==
  ASSUME NEW c \in Calls, Continues(call'[c], call[c])
  PROVE  Minds(call'[c]) = Minds(call[c]) /\ call'[c].kind = call[c].kind /\ call'[c].alone = call[c].alone
BY MindsOf DEF Continues

LEMMA StillSettles ==
  ASSUME NEW c \in Calls, Continues(call'[c], call[c]), call[c].kind \in Connecting,
         call[c].kind # "connect" \/ call'[c].pc \in Settling
  PROVE  \A u : Answers(c, u) => Answers(c, u)'
<1>1. Minds(call'[c]) = Minds(call[c]) /\ call'[c].kind = call[c].kind
  BY MindsStay
<1>2. WillSettle(call'[c])
  BY <1>1 DEF WillSettle
<1> QED BY <1>1, <1>2 DEF Answers

LEMMA SettlementBegin ==
  ASSUME Settlement, NEW c \in Calls, CallBegins(c)
  PROVE  Settlement'
<1>1. ASSUME NEW kind \in Kinds, NEW pc \in Steps, NEW b \in Boxes, NEW u \in Users,
             Starts(c, kind, pc, b, u), pc \notin Settling \/ (kind = "choose" /\ pc = "target" /\ IsOpen(b))
      PROVE  Settlement'
  <2>1. Begins(c, kind, pc, b, u) /\ Recorded'
    BY <1>1, StartsDoes, BeginsTyped DEF Settlement
  <2>2. UNCHANGED <<box, shaken>>
    BY <1>1 DEF Starts, registryHistory
  <2>3. DefaultKnows(c)'
    BY <1>1, <2>1, <2>2 DEF DefaultKnows, Begins, FreshAs, Settling, IsOpen, Chosen
  <2>4. \A v : ~Answers(c, v)
    BY <2>1, IdleIs DEF Begins, Answers
  <2> QED BY <2>1, <2>2, <2>3, <2>4, SettleAside DEF Begins, Unseen
<1>2. \A b \in Boxes : Owner[b] \in Users
  BY NoBoxApart
<1>3. grant \subseteq Boxes
  BY TypeFacts DEF Settlement
<1> USE DEF Kinds, Steps, Settling
<1>5. CASE Connect(c)
  BY <1>1, <1>2, <1>5 DEF Connect
<1>6. CASE Adopt(c)
  BY <1>1, <1>2, <1>3, <1>6 DEF Adopt
<1>7. CASE DisconnectBox(c)
  BY <1>1, <1>7 DEF DisconnectBox
<1>8. CASE Choose(c)
  BY <1>1, <1>2, <1>8 DEF Choose
<1>9. CASE Refresh(c)
  BY <1>1, <1>2, <1>9 DEF Refresh
<1>10. CASE Validate(c)
  BY <1>1, <1>2, <1>10 DEF Validate
<1>11. CASE Assign(c)
  BY <1>1, <1>11 DEF Assign
<1>12. CASE Unassign(c)
  BY <1>1, <1>12 DEF Unassign
<1>13. CASE Prefer(c)
  BY <1>1, <1>13 DEF Prefer
<1> QED BY <1>5, <1>6, <1>7, <1>8, <1>9, <1>10, <1>11, <1>12, <1>13 DEF CallBegins

(* The steps that write no mailbox and of which the call goes on. *)
LEMMA SettleGoesOn ==
  ASSUME Settlement, Recorded', NEW c \in Calls, OnlyMoves(c), Continues(call'[c], call[c]),
         UNCHANGED <<box, shaken>>, DefaultKnows(c)',
         \/ call[c].kind # "connect" \/ call'[c].pc \in Settling
         \/ call[c].pc = "grant"
         \/ call[c].pc \in {"load", "record"} /\ call'[c].pc \in {"record", "exists"}
  PROVE  Settlement'
<1>1. \A u : Unseen(u)
  BY DEF Unseen
<1>2. Minds(call'[c]) = Minds(call[c]) /\ call'[c].kind = call[c].kind /\ call'[c].alone = call[c].alone
  BY MindsStay
<1>3. \A u : Semi(u)' <=> Semi(u)
  BY <1>1, UnseenSame
<1>4. ASSUME NEW u, Answers(c, u) PROVE Answers(c, u)'
  <2>1. call[c].kind \in Connecting
    BY <1>4 DEF Answers, Minds
  <2>2. CASE ~call[c].alone
    BY <1>2, <1>4, <2>2 DEF Answers
  <2>3. CASE call[c].kind # "connect" \/ call'[c].pc \in Settling
    BY <1>4, <2>1, <2>3, StillSettles
  <2>4. CASE call[c].kind = "connect" /\ call[c].pc = "grant" /\ call[c].alone
    BY <1>4, <2>4 DEF Answers, WillSettle, Settling
  <2>5. CASE /\ call[c].kind = "connect" /\ call[c].alone
             /\ call[c].pc \in {"load", "record"} /\ call'[c].pc \in {"record", "exists"}
    BY <1>2, <1>3, <1>4, <2>5 DEF Answers, WillSettle, Settling
  <2> QED BY <2>2, <2>3, <2>4, <2>5
<1> QED BY <1>1, <1>4, SettleAside

LEMMA SettlementOnward ==
  ASSUME Settlement, NEW c \in Calls, Grant(c) \/ LoadToken(c) \/ Record(c) \/ Revoke(c) \/ Purge(c)
  PROVE  Settlement'
<1>1. Recorded /\ call[c].pc # "idle"
  BY DEF Settlement, Grant, LoadToken, Record, Revoke, Purge
<1>2. /\ call[c].pc \in {"grant", "exists"} => call[c].kind = "connect"
      /\ call[c].pc \in {"revoke", "purge"} => call[c].kind = "disconnect"
  BY <1>1, CallAtWork, KindAt
<1>3. UNCHANGED <<box, shaken>>
  BY DEF Grant, LoadToken, Record, Revoke, Purge, registryHistory
<1>4. CASE Grant(c)
  <2>1. Recorded' /\ OnlyMoves(c) /\ Onward(call'[c], call[c], "upsert") /\ call[c].pc = "grant"
    BY <1>1, <1>4, GrantTyped DEF Grant
  <2>2. DefaultKnows(c)'
    BY <2>1, IdleDefault DEF Onward, Settling
  <2> QED BY <1>3, <2>1, <2>2, SettleGoesOn DEF Onward
<1>5. CASE LoadToken(c)
  <2>1. /\ Recorded' /\ OnlyMoves(c) /\ Continues(call'[c], call[c]) /\ call[c].pc = "load"
        /\ call'[c].pc = IF call[c].kind = "disconnect" THEN "revoke" ELSE "record"
    BY <1>1, <1>5, LoadTyped DEF LoadToken, Holding
  <2>2. DefaultKnows(c)'
    BY <2>1, IdleDefault DEF Settling
  <2> QED BY <1>3, <2>1, <2>2, SettleGoesOn
<1>6. CASE Record(c)
  <2>1. /\ Recorded' /\ OnlyMoves(c) /\ Continues(call'[c], call[c]) /\ call[c].pc = "record"
        /\ call'[c].pc = IF call[c].kind = "connect" THEN "exists" ELSE "current"
    BY <1>1, <1>6, RecordTyped DEF Record, Onward
  <2>2. DefaultKnows(c)'
    BY <2>1 DEF DefaultKnows
  <2> QED BY <1>3, <2>1, <2>2, SettleGoesOn
<1>7. CASE Revoke(c)
  <2>1. /\ Recorded' /\ OnlyMoves(c) /\ Continues(call'[c], call[c])
        /\ call'[c].pc \in {"purge", "mark"} /\ call[c].kind = "disconnect"
    BY <1>1, <1>7, RevokeTyped DEF Holding
  <2>2. DefaultKnows(c)'
    BY <2>1, IdleDefault DEF Settling
  <2> QED BY <1>3, <2>1, <2>2, SettleGoesOn
<1>8. CASE Purge(c)
  <2>1. /\ Recorded' /\ OnlyMoves(c) /\ Continues(call'[c], call[c]) /\ call'[c].pc \in {"mark", "close"}
    BY <1>1, <1>8, PurgeTyped DEF Onward
  <2>2. DefaultKnows(c)' /\ call[c].kind = "disconnect"
    BY <1>2, <1>8, <2>1, IdleDefault DEF Settling, Purge
  <2> QED BY <1>3, <2>1, <2>2, SettleGoesOn
<1> QED BY <1>4, <1>5, <1>6, <1>7, <1>8

(* A call ends that has no default to look after. *)
LEMMA SettleNobody ==
  ASSUME Settlement, Recorded', NEW c \in Calls, OnlyMoves(c), call[c].kind \notin Connecting,
         call'[c].pc \notin Settling, \A u : Unseen(u), UNCHANGED shaken
  PROVE  Settlement'
<1>1. \A u : ~Answers(c, u)
  BY DEF Answers, Minds
<1>2. DefaultKnows(c)'
  BY IdleDefault
<1> QED BY <1>1, <1>2, SettleAside

LEMMA SettlementRefresh ==
  ASSUME Settlement, NEW c \in Calls,
         Valid(c) \/ Evaluate(c) \/ Renews(c) \/ RenewUnsaved(c) \/ RenewFails(c) \/ Probe(c) \/ Edit(c)
  PROVE  Settlement'
<1>1. Recorded /\ call[c].pc # "idle"
  BY DEF Settlement, Valid, Evaluate, Renews, RenewUnsaved, RenewFails, Probe, Edit
<1>2. call[c].pc \in {"valid", "evaluate", "renew", "probe", "edit"}
  BY DEF Valid, Evaluate, Renews, RenewUnsaved, RenewFails, Probe, Edit
<1>3. call[c].kind \notin Connecting
  BY <1>1, <1>2, CallAtWork, KindAt DEF Connecting
<1>4. UNCHANGED <<box, shaken>>
  BY DEF Valid, Evaluate, Renews, RenewUnsaved, RenewFails, Probe, Edit, registryHistory
<1>5. \A u : Unseen(u)
  BY <1>4 DEF Unseen
<1>6. Recorded' /\ OnlyMoves(c) /\ call'[c].pc \notin Settling
  <2>1. CASE Valid(c)
    BY <1>1, <2>1, ValidTyped, IdleSettling DEF Onward, Settling
  <2>2. CASE Evaluate(c)
    BY <1>1, <2>2, EvaluateTyped, IdleSettling DEF Holding, Settling
  <2>3. CASE Renews(c) \/ RenewUnsaved(c)
    BY <1>1, <2>3, RenewsTyped, RenewUnsavedTyped, IdleSettling
  <2>4. CASE RenewFails(c)
    BY <1>1, <2>4, RenewFailsTyped DEF Holding, Settling
  <2>5. CASE Probe(c)
    BY <1>1, <2>5, ProbeTyped DEF Holding, Settling
  <2>6. CASE Edit(c)
    BY <1>1, <2>6, EditTyped, IdleSettling DEF Settling
  <2> QED BY <2>1, <2>2, <2>3, <2>4, <2>5, <2>6
<1> QED BY <1>3, <1>4, <1>5, <1>6, SettleNobody

LEMMA SettlementLists ==
  ASSUME Settlement, NEW c \in Calls, SaveLists(c) \/ Pull(c) \/ Add(c)
  PROVE  Settlement'
<1>1. Recorded
  BY DEF Settlement
<1>2. box \in [Boxes -> Mailbox] /\ call \in [Calls -> Working \cup {Idle}]
  BY <1>1, TypeFacts
<1>3. ASSUME NEW b \in Boxes, NEW A, NEW D, box'[b] = WithAssigned(box[b], A, D)
      PROVE  box'[b].status = box[b].status /\ box'[b].isDefault = box[b].isDefault
  BY <1>2, <1>3 DEF WithAssigned, Mailbox
<1>4. CASE SaveLists(c)
  <2>1. /\ Recorded' /\ OnlyMoves(c) /\ call'[c] = Idle /\ call[c].kind \in {"assign", "unassign"}
        /\ \A d \in Boxes \ {call[c].of} : box'[d] = box[d]
    BY <1>1, <1>4, SaveTyped
  <2>4. box'[call[c].of] =
              IF call[c].kind = "assign"
              THEN WithAssigned(box[call[c].of], call[c].list \cup {call[c].who}, box[call[c].of].defaults)
              ELSE WithAssigned(box[call[c].of], call[c].list \ {call[c].who},
                                DefaultsCleared(call[c], box[call[c].of].defaults))
    BY <1>1, <1>4, SaveTyped
  <2>5. PICK A, D : box'[call[c].of] = WithAssigned(box[call[c].of], A, D)
    <3>1. CASE call[c].kind = "assign"
      <4>1. box'[call[c].of] = WithAssigned(box[call[c].of], call[c].list \cup {call[c].who}, box[call[c].of].defaults)
        BY <2>4, <3>1
      <4> QED BY <4>1
    <3>2. CASE call[c].kind # "assign"
      <4>1. box'[call[c].of] = WithAssigned(box[call[c].of], call[c].list \ {call[c].who},
                                            DefaultsCleared(call[c], box[call[c].of].defaults))
        BY <2>4, <3>2
      <4> QED BY <4>1
    <3> QED BY <3>1, <3>2
  <2>2. UNCHANGED shaken
    BY <1>4 DEF SaveLists
  <2>3. \A u : Unseen(u)
    BY <1>3, <2>1, <2>5 DEF Unseen, Owned
  <2> QED BY <2>1, <2>2, <2>3, IdleSettling, SettleNobody DEF Connecting
<1>5. CASE Pull(c)
  <2>1. /\ Recorded' /\ OnlyMoves(c) /\ call'[c].pc = "add" /\ call[c].kind = "prefer"
        /\ box'[call[c].of] = box[call[c].of]
        /\ \A d \in Boxes \ {call[c].of} :
             box'[d] = WithAssigned(box[d], box[d].assigned, box[d].defaults \ {call[c].who})
    BY <1>1, <1>5, PullTyped DEF Onward
  <2>2. UNCHANGED shaken
    BY <1>5 DEF Pull, registryHistory
  <2>3. \A u : Unseen(u)
    <3>1. ASSUME NEW d \in Boxes
          PROVE  box'[d].status = box[d].status /\ box'[d].isDefault = box[d].isDefault
      <4>1. CASE d = call[c].of
        BY <2>1, <4>1
      <4>2. CASE d # call[c].of
        <5>1. box'[d] = WithAssigned(box[d], box[d].assigned, box[d].defaults \ {call[c].who})
          BY <2>1, <4>2
        <5> QED BY <1>3, <5>1
      <4> QED BY <4>1, <4>2
    <3> QED BY <3>1 DEF Unseen, Owned
  <2> QED BY <2>1, <2>2, <2>3, SettleNobody DEF Connecting, Settling
<1>6. CASE Add(c)
  <2>1. /\ Recorded' /\ OnlyMoves(c) /\ call'[c] = Idle /\ call[c].kind = "prefer"
        /\ box'[call[c].of] = WithAssigned(box[call[c].of], box[call[c].of].assigned,
                                           box[call[c].of].defaults \cup {call[c].who})
        /\ \A d \in Boxes \ {call[c].of} : box'[d] = box[d]
    BY <1>1, <1>6, AddTyped
  <2>2. UNCHANGED shaken
    BY <1>6 DEF Add
  <2>3. \A u : Unseen(u)
    BY <1>3, <2>1 DEF Unseen, Owned
  <2> QED BY <2>1, <2>2, <2>3, IdleSettling, SettleNobody DEF Connecting
<1> QED BY <1>4, <1>5, <1>6

(* A call ends without having looked at a default; it knew that it need not. *)
LEMMA SettlementExists ==
  ASSUME Settlement, NEW c \in Calls, Exists(c)
  PROVE  Settlement'
<1>1. Recorded /\ call[c].pc = "exists"
  BY DEF Settlement, Exists
<1>2. call[c] \in Working /\ call[c] # Idle /\ Sane(call[c])
  BY <1>1, CallAtWork
<1>3. call[c].kind = "connect"
  BY <1>1, <1>2, KindAt
<1>4. Minds(call[c]) = {call[c].who} /\ call[c].who \in Users
  BY <1>2, <1>3, NoBoxApart DEF Minds, Connecting, Working, Sane
<1>5. UNCHANGED box /\ \A u : Unseen(u)
  BY DEF Exists, Unseen
<1>6. PICK u : u = call[c].who
  OBVIOUS
<1>7. Good(u)' <=> Good(u)
  BY <1>5, UnseenSame
<1>8. CASE Defaults(u) # {} /\ Leaves(c)
  <2>1. Recorded' /\ OnlyMoves(c) /\ call'[c] = Idle
    BY <1>1, <1>8, ExistsTyped, EndsTyped
  <2>2. shaken' = IF call[c].alone THEN shaken ELSE shaken \cup Minds(call[c])
    BY <1>8 DEF Leaves
  <2>3. ASSUME NEW v \in Users \ shaken', Answers(c, v) PROVE Good(v)'
    <3>1. v = u
      BY <1>4, <1>6, <2>3 DEF Answers
    <3>2. call[c].alone
      BY <1>4, <1>6, <2>2, <2>3, <3>1
    <3>3. Semi(u)
      BY <1>1, <1>3, <2>3, <3>1, <3>2 DEF Answers, WillSettle, Settling
    <3>4. Good(u)
      BY <1>8, <3>3 DEF Good
    <3> QED BY <1>7, <3>1, <3>4
  <2>4. DefaultKnows(c)' /\ shaken \subseteq shaken'
    BY <2>1, <2>2, IdleDefault, IdleSettling
  <2> QED BY <1>5, <2>1, <2>3, <2>4, SettleAside
<1>9. CASE Onward(call'[c], call[c], "current") /\ shaken' = shaken
  <2>1. Recorded' /\ OnlyMoves(c)
    BY <1>1, ExistsTyped
  <2>2. DefaultKnows(c)'
    BY <1>9 DEF DefaultKnows, Onward
  <2> QED BY <1>5, <1>9, <2>1, <2>2, SettleGoesOn DEF Onward, Settling
<1> QED BY <1>1, <1>6, <1>8, <1>9, ExistsTyped

LEMMA SettlementCurrent ==
  ASSUME Settlement, NEW c \in Calls, Current(c)
  PROVE  Settlement'
<1>1. Recorded /\ call[c].pc = "current" /\ OneFlag
  BY DEF Settlement, Current
<1>2. call[c] \in Working /\ call[c] # Idle /\ Sane(call[c])
  BY <1>1, CallAtWork
<1>3. PICK u : u = call[c].who
  OBVIOUS
<1>4. u \in Minds(call[c]) /\ u \in Users
  BY <1>1, <1>2, <1>3, SettlerMinds DEF Settling
<1>5. Recorded' /\ OnlyMoves(c) /\ UNCHANGED box
  BY <1>1, CurrentTyped DEF Current
<1>6. CASE (\E b \in Defaults(u) : IsOpen(b)) /\ Settles(c) /\ call'[c] = Idle
  <2>1. Good(u)
    BY <1>1, <1>4, <1>6 DEF OneFlag, Good, Semi
  <2> QED BY <1>3, <1>4, <1>5, <1>6, <2>1, SettleEndsQuiet DEF Settles
<1>7. CASE /\ shaken' = shaken
           /\ \E b \in Defaults(u) \cup {NoBox} :
                /\ b = NoBox => Defaults(u) = {}
                /\ Holding(call'[c], call[c], "replace", call[c].tok, call[c].status, b, call[c].to)
  <2>1. PICK b \in Defaults(u) \cup {NoBox} :
          /\ b = NoBox => Defaults(u) = {}
          /\ Holding(call'[c], call[c], "replace", call[c].tok, call[c].status, b, call[c].to)
    BY <1>7
  <2>2. Continues(call'[c], call[c]) /\ call'[c].pc = "replace" /\ call'[c].cur = b /\ call'[c].who = u
    BY <1>3, <2>1 DEF Holding, Continues
  <2>3. Defaults(call[c].who)' = Defaults(u)
    BY <1>5, <2>2 DEF Defaults, Owned
  <2>4. DefaultKnows(c)'
    BY <2>1, <2>2, <2>3 DEF DefaultKnows
  <2> QED BY <1>5, <1>7, <2>2, <2>4, SettleGoesOn DEF Settling
<1> QED BY <1>1, <1>3, <1>6, <1>7, CurrentTyped

LEMMA SettlementReplace ==
  ASSUME Settlement, NEW c \in Calls, Replace(c)
  PROVE  Settlement'
<1>1. Recorded /\ call[c].pc = "replace" /\ OneFlag /\ DefaultKnows(c)
  BY DEF Settlement, Replace
<1>2. call[c] \in Working /\ call[c] # Idle /\ Sane(call[c])
  BY <1>1, CallAtWork
<1>3. PICK u : u = call[c].who
  OBVIOUS
<1>4. u \in Minds(call[c]) /\ u \in Users
  BY <1>1, <1>2, <1>3, SettlerMinds DEF Settling
<1>5. Recorded' /\ OnlyMoves(c) /\ UNCHANGED box
  BY <1>1, ReplaceTyped DEF Replace
<1>6. call[c].alone => IF call[c].cur = NoBox THEN Defaults(u) = {} ELSE call[c].cur \in Defaults(u)
  BY <1>1, <1>3 DEF DefaultKnows
<1>7. \A b \in Owned(u) : IsOpen(b) => b \in Candidates(u)
  BY DEF Candidates
<1>8. \A b \in Candidates(u) : IsOpen(b) /\ b \in Boxes
  BY DEF Candidates, Owned
<1>9. CASE Candidates(u) = {} /\ call[c].cur # NoBox /\ Onward(call'[c], call[c], "drop") /\ shaken' = shaken
  <2>1. call'[c].who = u /\ call'[c].cur = call[c].cur /\ call'[c].alone = call[c].alone
    BY <1>3, <1>9 DEF Onward, Continues
  <2>2. Defaults(call[c].who)' = Defaults(u) /\ Candidates(call[c].who)' = Candidates(u)
    BY <1>5, <2>1 DEF Defaults, Candidates, Owned, IsOpen
  <2>3. DefaultKnows(c)'
    BY <1>6, <1>9, <2>1, <2>2 DEF DefaultKnows, Onward
  <2> QED BY <1>5, <1>9, <2>3, SettleGoesOn DEF Onward, Settling
<1>10. CASE Candidates(u) = {} /\ call[c].cur = NoBox /\ Settles(c) /\ call'[c] = Idle
  <2>1. call[c].alone => Good(u)
    BY <1>6, <1>7, <1>10 DEF Good, Semi
  <2> QED BY <1>3, <1>4, <1>5, <1>10, <2>1, SettleEndsQuiet DEF Settles
<1>11. CASE call[c].cur \in Candidates(u) /\ Settles(c) /\ call'[c] = Idle
  <2>1. call[c].cur # NoBox
    BY <1>8, <1>11, NoBoxApart
  <2>2. call[c].alone => Good(u)
    BY <1>1, <1>4, <1>6, <1>8, <1>11, <2>1 DEF Good, Semi, OneFlag
  <2> QED BY <1>3, <1>4, <1>5, <1>11, <2>2, SettleEndsQuiet DEF Settles
<1>12. CASE /\ shaken' = shaken
            /\ \E b \in Candidates(u) :
                 Holding(call'[c], call[c], "target", call[c].tok, call[c].status, call[c].cur, b)
  <2>1. PICK b \in Candidates(u) :
          Holding(call'[c], call[c], "target", call[c].tok, call[c].status, call[c].cur, b)
    BY <1>12
  <2>2. Continues(call'[c], call[c]) /\ call'[c].pc = "target" /\ call'[c].to = b
    BY <2>1 DEF Holding
  <2>3. call'[c].kind # "choose"
    <3>1. call[c].kind # "choose"
      BY <1>1, <1>2 DEF Sane, InPlace
    <3> QED BY <2>2, <3>1 DEF Continues
  <2>4. Chosen(call'[c]) = b /\ IsOpen(b)
    BY <1>8, <2>2, <2>3 DEF Chosen
  <2>5. IsOpen(Chosen(call[c]))'
    BY <1>5, <2>4 DEF IsOpen
  <2>6. DefaultKnows(c)'
    BY <2>2, <2>5 DEF DefaultKnows
  <2> QED BY <1>5, <1>12, <2>2, <2>6, SettleGoesOn DEF Settling
<1> QED BY <1>1, <1>3, <1>9, <1>10, <1>11, <1>12, ReplaceTyped

LEMMA SettlementTarget ==
  ASSUME Settlement, NEW c \in Calls, Target(c)
  PROVE  Settlement'
<1>1. Recorded /\ call[c].pc = "target" /\ OneFlag /\ DefaultKnows(c)
  BY DEF Settlement, Target
<1>2. call[c] \in Working /\ call[c] # Idle /\ Sane(call[c])
  BY <1>1, CallAtWork
<1>3. PICK u, b : u = call[c].who /\ b = Chosen(call[c])
  OBVIOUS
<1>4. u \in Minds(call[c]) /\ u \in Users /\ b \in Boxes /\ Owner[b] = u
  BY <1>1, <1>2, <1>3, SettlerMinds DEF Settling
<1>5. Recorded' /\ OnlyMoves(c) /\ UNCHANGED box
  BY <1>1, TargetTyped DEF Target
<1>6. call[c].alone => IsOpen(b)
  BY <1>1, <1>3 DEF DefaultKnows
<1>7. CASE box[b].isDefault /\ Settles(c) /\ call'[c] = Idle
  <2>1. b \in Defaults(u)
    BY <1>4, <1>7 DEF Defaults, Owned
  <2>2. call[c].alone => Good(u)
    BY <1>1, <1>4, <1>6, <2>1 DEF OneFlag, Good, Semi
  <2> QED BY <1>3, <1>4, <1>5, <1>7, <2>2, SettleEndsQuiet DEF Settles
<1>8. CASE Onward(call'[c], call[c], "clear") /\ shaken' = shaken
  <2>1. Chosen(call'[c]) = b /\ call'[c].alone = call[c].alone /\ call'[c].pc = "clear"
    BY <1>3, <1>8 DEF Onward, Continues, Chosen
  <2>2. IsOpen(Chosen(call[c]))' <=> IsOpen(b)
    BY <1>5, <2>1 DEF IsOpen
  <2>3. DefaultKnows(c)'
    BY <1>6, <2>1, <2>2 DEF DefaultKnows
  <2> QED BY <1>5, <1>8, <2>3, SettleGoesOn DEF Onward, Settling
<1> QED BY <1>1, <1>3, <1>7, <1>8, TargetTyped

LEMMA SettlementThrows ==
  ASSUME Settlement, NEW c \in Calls, CallThrows(c)
  PROVE  Settlement'
<1>1. Recorded' /\ OnlyMoves(c) /\ call'[c] = Idle
  BY ThrowsTyped DEF Settlement
<1>2. shaken' = shaken \cup Minds(call[c]) /\ UNCHANGED box
  BY DEF CallThrows
<1>3. \A u \in Users \ shaken' : ~Answers(c, u)
  BY <1>2 DEF Answers
<1>4. DefaultKnows(c)'
  BY <1>1, IdleDefault, IdleSettling
<1> QED BY <1>1, <1>2, <1>3, <1>4, SettleAside DEF Unseen

(* A step that writes one mailbox is seen by its owner alone. *)
LEMMA OneBoxSeen ==
  ASSUME NEW b \in Boxes, \A d \in Boxes \ {b} : box'[d] = box[d]
  PROVE  \A u \in Users : u # Owner[b] => Unseen(u)
<1> SUFFICES ASSUME NEW u \in Users, u # Owner[b], NEW d \in Owned(u)
             PROVE  box'[d] = box[d]
  BY DEF Unseen
<1> QED BY DEF Owned

(* Flags that are only taken away leave one at most. *)
LEMMA FewerFlags ==
  ASSUME OneFlag, \A b \in Boxes : box'[b].isDefault => box[b].isDefault
  PROVE  OneFlag' /\ \A u : Defaults(u)' \subseteq Defaults(u)
<1>1. ASSUME NEW u PROVE Defaults(u)' \subseteq Defaults(u)
  BY DEF Defaults, Owned
<1> QED BY <1>1 DEF OneFlag

(* A step of a call that goes on to settle the default of the user whose mailbox it writes. *)
LEMMA SettlerWrites ==
  ASSUME Settlement, Recorded', NEW c \in Calls, OnlyMoves(c), OneFlag', DefaultKnows(c)',
         NEW b \in Boxes, BoxNoted(c, b), Owner[b] \in Minds(call[c]),
         \A u \in Users : u # Owner[b] => Unseen(u),
         Continues(call'[c], call[c]), WillSettle(call'[c]), UNCHANGED shaken
  PROVE  Settlement'
<1>1. PICK o : o = Owner[b]
  OBVIOUS
<1>2. \A d \in Calls \ {c} : call[d].kind \in Connecting /\ call'[d].alone =>
        \A u \in Minds(call[d]) : Unseen(u)
  BY <1>1, NotedOthers DEF Settlement
<1>3. Minds(call'[c]) = Minds(call[c])
  BY MindsStay
<1>4. ASSUME NEW u \in Users \ shaken' PROVE Owes(c, u)
  <2>1. CASE u \in Minds(call[c])
    BY <1>3, <2>1 DEF Owes, Answers
  <2>2. CASE u \notin Minds(call[c])
    <3>1. Unseen(u)
      BY <2>2
    <3>2. Good(u)' <=> Good(u)
      BY <3>1, UnseenSame
    <3> QED BY <2>2, <3>2 DEF Owes, Answers
  <2> QED BY <2>1, <2>2
<1> QED BY <1>2, <1>4, SettleStep

LEMMA SettlementUpsert ==
  ASSUME Settlement, NEW c \in Calls, UpsertBox(c)
  PROVE  Settlement'
<1>1. Recorded /\ call[c].pc = "upsert" /\ OneFlag
  BY DEF Settlement, UpsertBox
<1>2. call[c] \in Working /\ call[c] # Idle /\ Sane(call[c])
  BY <1>1, CallAtWork
<1>3. PICK o, b : o = Owner[b] /\ b = call[c].of
  OBVIOUS
<1>4. call[c].kind \in {"connect", "adopt"} /\ b \in Boxes /\ o = call[c].who /\ o \in Users
  BY <1>1, <1>2, <1>3, KindAt DEF Working, Sane
<1>5. Minds(call[c]) = {o}
  BY <1>3, <1>4 DEF Minds, Connecting
<1>6. /\ Recorded' /\ OnlyMoves(c) /\ Continues(call'[c], call[c]) /\ call'[c].pc = "load" /\ BoxNoted(c, b)
      /\ \A d \in Boxes \ {b} : box'[d] = box[d]
      /\ box'[b] = [box[b] EXCEPT !.status = "connected", !.gone = FALSE]
  BY <1>1, <1>3, UpsertTyped DEF Onward
<1>7. UNCHANGED shaken
  BY DEF UpsertBox, registryHistory
<1>8. box'[b].status = "connected" /\ box'[b].isDefault = box[b].isDefault
  <2>1. box[b] \in Mailbox
    BY <1>1, <1>4, TypeFacts
  <2> QED BY <1>6, <2>1 DEF Mailbox
<1>9. \A u \in Users : u # o => Unseen(u)
  BY <1>3, <1>4, <1>6, OneBoxSeen
<1>10. \A d \in Boxes : box'[d].isDefault = box[d].isDefault
  BY <1>6, <1>8
<1>11. OneFlag' /\ \A u : Defaults(u)' \subseteq Defaults(u)
  BY <1>1, <1>10, FewerFlags
<1>12. DefaultKnows(c)'
  BY <1>6, IdleDefault DEF Settling
<1>13. CASE call[c].kind = "adopt"
  <2>1. WillSettle(call'[c])
    BY <1>6, <1>13 DEF WillSettle, Continues, Connecting
  <2> QED BY <1>3, <1>4, <1>5, <1>6, <1>7, <1>9, <1>11, <1>12, <2>1, SettlerWrites
<1>14. CASE call[c].kind = "connect"
  <2>1. /\ Minds(call'[c]) = {o} /\ call'[c].alone = call[c].alone
    BY <1>5, <1>6, MindsStay
  <2>2. Semi(o) => Semi(o)'
    <3>1. SUFFICES ASSUME Semi(o), NEW d, d \in Defaults(o)' PROVE IsOpen(d)'
      BY DEF Semi
    <3>2. d \in Defaults(o) /\ d \in Boxes
      BY <1>11, <3>1 DEF Defaults, Owned
    <3> QED BY <1>6, <1>8, <3>1, <3>2 DEF Semi, IsOpen
  <2>3. ASSUME NEW u \in Users \ shaken' PROVE Owes(c, u)
    <3>1. CASE u # o
      <4>1. Good(u)' <=> Good(u)
        BY <1>9, <3>1, UnseenSame
      <4> QED BY <1>5, <1>7, <3>1, <4>1 DEF Owes, Answers
    <3>2. CASE u = o /\ ~call[c].alone
      BY <2>1, <3>2 DEF Owes, Answers
    <3>3. CASE u = o /\ call[c].alone
      <4>1. ~Answers(c, u)
        BY <1>1, <1>14, <3>3 DEF Answers, WillSettle, Settling
      <4>2. Good(u) => Answers(c, u)'
        BY <1>6, <2>1, <2>2, <3>3 DEF Good, Answers
      <4> QED BY <1>7, <4>1, <4>2 DEF Owes
    <3> QED BY <3>1, <3>2, <3>3
  <2>4. \A d \in Calls \ {c} : call[d].kind \in Connecting /\ call'[d].alone =>
          \A u \in Minds(call[d]) : Unseen(u)
    BY <1>1, <1>3, <1>4, <1>6, <1>9, NotedOthers
  <2> QED BY <1>6, <1>11, <1>12, <2>3, <2>4, SettleStep
<1> QED BY <1>4, <1>13, <1>14

(* A disconnect writes the status, then the flag. *)
LEMMA SettlementGone ==
  ASSUME Settlement, NEW c \in Calls, MarkGone(c) \/ Unflag(c)
  PROVE  Settlement'
<1>1. Recorded /\ call[c].pc # "idle" /\ OneFlag
  BY DEF Settlement, MarkGone, Unflag
<1>2. call[c] \in Working /\ call[c] # Idle /\ Sane(call[c])
  BY <1>1, CallAtWork
<1>3. PICK b : b = call[c].of
  OBVIOUS
<1>4. call[c].kind = "disconnect" /\ b \in Boxes /\ box[b] \in Mailbox
  BY <1>1, <1>2, <1>3, KindAt, TypeFacts DEF Working, MarkGone, Unflag
<1>5. Owner[b] \in Minds(call[c])
  BY <1>3, <1>4 DEF Minds, Connecting
<1>6. /\ Recorded' /\ OnlyMoves(c) /\ BoxNoted(c, b) /\ Continues(call'[c], call[c])
      /\ call'[c].pc \in {"unflag", "current"}
      /\ \A d \in Boxes \ {b} : box'[d] = box[d]
      /\ box'[b].isDefault => box[b].isDefault
  <2>1. CASE MarkGone(c)
    <3>1. /\ Recorded' /\ OnlyMoves(c) /\ BoxNoted(c, b) /\ Onward(call'[c], call[c], "unflag")
          /\ \A d \in Boxes \ {b} : box'[d] = box[d]
          /\ box'[b] = WithState(box[b], "disconnected", TRUE)
      BY <1>1, <1>3, <2>1, MarkGoneTyped
    <3>2. WithState(box[b], "disconnected", TRUE).isDefault = box[b].isDefault
      BY <1>4, StateIs DEF Statuses
    <3> QED BY <3>1, <3>2 DEF Onward
  <2>2. CASE Unflag(c)
    <3>1. /\ Recorded' /\ OnlyMoves(c) /\ BoxNoted(c, b) /\ Onward(call'[c], call[c], "current")
          /\ \A d \in Boxes \ {b} : box'[d] = box[d]
          /\ box'[b] = WithFlag(box[b], FALSE)
      BY <1>1, <1>3, <2>2, UnflagTyped
    <3>2. ~WithFlag(box[b], FALSE).isDefault
      BY <1>4, FlagIs
    <3> QED BY <3>1, <3>2 DEF Onward
  <2> QED BY <2>1, <2>2
<1>7. UNCHANGED shaken
  BY DEF MarkGone, Unflag, registryHistory
<1>8. \A u \in Users : u # Owner[b] => Unseen(u)
  BY <1>4, <1>6, OneBoxSeen
<1>9. OneFlag'
  BY <1>1, <1>6, FewerFlags
<1>10. DefaultKnows(c)' /\ WillSettle(call'[c])
  BY <1>4, <1>6 DEF DefaultKnows, WillSettle, Continues, Connecting
<1> QED BY <1>4, <1>5, <1>6, <1>7, <1>8, <1>9, <1>10, SettlerWrites

LEMMA SettlementDrop ==
  ASSUME Settlement, NEW c \in Calls, DropDefault(c)
  PROVE  Settlement'
<1>1. Recorded /\ call[c].pc = "drop" /\ OneFlag /\ DefaultKnows(c)
  BY DEF Settlement, DropDefault
<1>2. call[c] \in Working /\ call[c] # Idle /\ Sane(call[c])
  BY <1>1, CallAtWork
<1>3. PICK u, b : u = call[c].who /\ b = call[c].cur
  OBVIOUS
<1>4. u \in Minds(call[c]) /\ u \in Users
  BY <1>1, <1>2, <1>3, SettlerMinds DEF Settling
<1>5. /\ Recorded' /\ OnlyMoves(c) /\ call'[c] = Idle /\ BoxNoted(c, b) /\ b \in Boxes /\ Owner[b] = u
      /\ box'[b] = WithFlag(box[b], FALSE)
      /\ \A d \in Boxes \ {b} : box'[d] = box[d]
  BY <1>1, <1>3, DropTyped
<1>6. box'[b].status = box[b].status /\ ~box'[b].isDefault
  <2>1. box[b] \in Mailbox
    BY <1>1, <1>5, TypeFacts
  <2> QED BY <1>5, <2>1, FlagIs
<1>7. OneFlag' /\ \A v : Defaults(v)' \subseteq Defaults(v)
  BY <1>1, <1>5, <1>6, FewerFlags
<1>8. \A v \in Users : v # u => Unseen(v)
  BY <1>5, OneBoxSeen
<1>9. \A d \in Calls \ {c} : call[d].kind \in Connecting /\ call'[d].alone =>
        \A v \in Minds(call[d]) : Unseen(v)
  BY <1>1, <1>5, <1>8, NotedOthers
<1>10. call[c].alone => Good(u)'
  <2> SUFFICES ASSUME call[c].alone PROVE Good(u)'
    OBVIOUS
  <2>1. b \in Defaults(u) /\ Candidates(u) = {}
    BY <1>1, <1>3 DEF DefaultKnows
  <2>2. Defaults(u)' = {}
    <3>1. b \notin Defaults(u)'
      BY <1>6 DEF Defaults
    <3> QED BY <1>1, <1>4, <1>7, <2>1, <3>1 DEF OneFlag
  <2>3. \A d \in Owned(u)' : ~IsOpen(d)'
    BY <1>5, <1>6, <2>1 DEF Owned, Candidates, IsOpen
  <2> QED BY <2>2, <2>3 DEF Good, Semi
<1>11. shaken' = Settled(call[c])
  BY DEF DropDefault
<1> QED BY <1>3, <1>4, <1>5, <1>7, <1>8, <1>9, <1>10, <1>11, SettleEnds

LEMMA SettlementClear ==
  ASSUME Settlement, NEW c \in Calls, Clear(c)
  PROVE  Settlement'
<1>1. Recorded /\ call[c].pc = "clear" /\ OneFlag /\ DefaultKnows(c)
  BY DEF Settlement, Clear
<1>2. call[c] \in Working /\ call[c] # Idle /\ Sane(call[c])
  BY <1>1, CallAtWork
<1>3. PICK u, b : u = call[c].who /\ b = Chosen(call[c])
  OBVIOUS
<1>4. u \in Minds(call[c]) /\ u \in Users /\ call[c].kind \in Connecting
  BY <1>1, <1>2, <1>3, SettlerMinds DEF Settling
<1>5. /\ Recorded' /\ OnlyMoves(c) /\ Onward(call'[c], call[c], "set") /\ BoxNoted(c, b)
      /\ b \in Boxes /\ Owner[b] = u
      /\ \A d \in Boxes : box'[d] = WithFlag(box[d], box[d].isDefault /\ Owner[d] # u)
  BY <1>1, <1>3, ClearTyped
<1>6. ASSUME NEW d \in Boxes
      PROVE  /\ box'[d].status = box[d].status
             /\ box'[d].isDefault = (box[d].isDefault /\ Owner[d] # u)
  <2>1. box[d] \in Mailbox /\ (box[d].isDefault /\ Owner[d] # u) \in BOOLEAN
    BY <1>1, TypeFacts
  <2> QED BY <1>5, <2>1, FlagIs
<1>7. OneFlag'
  BY <1>1, <1>6, FewerFlags
<1>8. ASSUME NEW v \in Users, v # u PROVE Unseen(v)
  <2> SUFFICES ASSUME NEW d \in Owned(v)
               PROVE  box'[d].status = box[d].status /\ box'[d].isDefault = box[d].isDefault
    BY DEF Unseen
  <2>1. d \in Boxes /\ Owner[d] # u
    BY <1>8 DEF Owned
  <2>2. box[d].isDefault \in BOOLEAN
    BY <1>1, <2>1, TypeFacts DEF Mailbox
  <2> QED BY <1>6, <2>1, <2>2
<1>9. Continues(call'[c], call[c]) /\ call'[c].pc = "set" /\ Chosen(call'[c]) = b /\ call'[c].who = u
      /\ call'[c].alone = call[c].alone /\ call'[c].kind = call[c].kind
  BY <1>3, <1>5 DEF Onward, Continues, Chosen
<1>10. DefaultKnows(c)'
  <2>1. Defaults(call[c].who)' = {}
    BY <1>6, <1>9 DEF Defaults, Owned
  <2>2. call[c].alone => IsOpen(b)
    BY <1>1, <1>3 DEF DefaultKnows
  <2>3. IsOpen(Chosen(call[c]))' <=> IsOpen(b)
    BY <1>5, <1>6, <1>9 DEF IsOpen
  <2> QED BY <1>9, <2>1, <2>2, <2>3 DEF DefaultKnows
<1>11. WillSettle(call'[c])
  BY <1>4, <1>9 DEF WillSettle, Settling
<1>12. UNCHANGED shaken
  BY DEF Clear, registryHistory
<1> QED BY <1>4, <1>5, <1>7, <1>8, <1>9, <1>10, <1>11, <1>12, SettlerWrites

LEMMA SettlementSet ==
  ASSUME Settlement, NEW c \in Calls, SetFlag(c)
  PROVE  Settlement'
<1>1. Recorded /\ call[c].pc = "set" /\ OneFlag /\ DefaultKnows(c)
  BY DEF Settlement, SetFlag
<1>2. call[c] \in Working /\ call[c] # Idle /\ Sane(call[c])
  BY <1>1, CallAtWork
<1>3. PICK u, b : u = call[c].who /\ b = Chosen(call[c])
  OBVIOUS
<1>4. u \in Minds(call[c]) /\ u \in Users
  BY <1>1, <1>2, <1>3, SettlerMinds DEF Settling
<1>5. /\ Recorded' /\ OnlyMoves(c) /\ call'[c] = Idle /\ b \in Boxes /\ Owner[b] = u
      /\ \/ /\ Defaults(u) \subseteq {b} /\ BoxNoted(c, b) /\ shaken' = Settled(call[c])
            /\ box'[b] = WithFlag(box[b], TRUE)
            /\ \A d \in Boxes \ {b} : box'[d] = box[d]
         \/ ~(Defaults(u) \subseteq {b}) /\ Leaves(c) /\ box' = box
  BY <1>1, <1>3, SetTyped
<1>6. call[c].alone => IsOpen(b) /\ Defaults(u) = {}
  BY <1>1, <1>3 DEF DefaultKnows
<1>7. CASE /\ Defaults(u) \subseteq {b} /\ BoxNoted(c, b) /\ shaken' = Settled(call[c])
           /\ box'[b] = WithFlag(box[b], TRUE)
           /\ \A d \in Boxes \ {b} : box'[d] = box[d]
  <2>1. box'[b].status = box[b].status /\ box'[b].isDefault
    <3>1. box[b] \in Mailbox
      BY <1>1, <1>5, TypeFacts
    <3> QED BY <1>7, <3>1, FlagIs
  <2>2. \A v \in Users : v # u => Unseen(v)
    BY <1>5, <1>7, OneBoxSeen
  <2>3. Defaults(u)' = {b}
    BY <1>5, <1>7, <2>1 DEF Defaults, Owned
  <2>4. OneFlag'
    <3>1. SUFFICES ASSUME NEW v \in Users PROVE \A d, e \in Defaults(v)' : d = e
      BY DEF OneFlag
    <3>2. CASE v = u
      BY <2>3, <3>2
    <3>3. CASE v # u
      <4>1. Defaults(v)' = Defaults(v)
        BY <2>2, <3>3, UnseenSame
      <4> QED BY <1>1, <4>1 DEF OneFlag
    <3> QED BY <3>2, <3>3
  <2>5. \A d \in Calls \ {c} : call[d].kind \in Connecting /\ call'[d].alone =>
          \A v \in Minds(call[d]) : Unseen(v)
    BY <1>1, <1>5, <1>7, <2>2, NotedOthers
  <2>6. call[c].alone => Good(u)'
    BY <1>6, <2>1, <2>3 DEF Good, Semi, IsOpen
  <2> QED BY <1>3, <1>4, <1>5, <1>7, <2>2, <2>4, <2>5, <2>6, SettleEnds
<1>8. CASE ~(Defaults(u) \subseteq {b}) /\ Leaves(c) /\ box' = box
  <2>1. shaken' = shaken \cup Minds(call[c])
    BY <1>6, <1>8 DEF Leaves
  <2>2. \A v \in Users \ shaken' : ~Answers(c, v)
    BY <2>1 DEF Answers
  <2>3. DefaultKnows(c)'
    BY <1>5, IdleDefault, IdleSettling
  <2> QED BY <1>5, <1>8, <2>1, <2>2, <2>3, SettleAside DEF Unseen
<1> QED BY <1>5, <1>7, <1>8

LEMMA SettlementMark ==
  ASSUME Settlement, NEW c \in Calls, MarkStatus(c)
  PROVE  Settlement'
<1>1. Recorded /\ call[c].pc = "mark" /\ OneFlag
  BY DEF Settlement, MarkStatus
<1>2. call[c] \in Working /\ call[c] # Idle /\ Sane(call[c])
  BY <1>1, CallAtWork
<1>3. PICK b : b = call[c].of
  OBVIOUS
<1>4. /\ Recorded' /\ OnlyMoves(c) /\ call'[c] = Idle /\ BoxNoted(c, b)
      /\ call[c].status \in Statuses /\ call[c].kind \in {"refresh", "validate"}
      /\ box'[b] = WithState(box[b], call[c].status, box[b].gone)
      /\ \A d \in Boxes \ {b} : box'[d] = box[d]
  BY <1>1, <1>3, MarkStatusTyped DEF Statuses
<1>5. b \in Boxes /\ box[b] \in Mailbox
  BY <1>1, <1>2, <1>3, TypeFacts DEF Working
<1>6. box'[b].isDefault = box[b].isDefault
  <2>1. box[b].gone \in BOOLEAN
    BY <1>5 DEF Mailbox
  <2> QED BY <1>4, <1>5, <2>1, StateIs
<1>7. OneFlag'
  BY <1>1, <1>4, <1>6, FewerFlags
<1>8. shaken' = shaken \cup {Owner[b]}
  BY <1>3 DEF MarkStatus
<1>9. \A u \in Users : u # Owner[b] => Unseen(u)
  BY <1>4, <1>5, OneBoxSeen
<1>10. PICK o : o = Owner[b]
  OBVIOUS
<1>11. \A d \in Calls \ {c} : call[d].kind \in Connecting /\ call'[d].alone =>
         \A u \in Minds(call[d]) : Unseen(u)
  BY <1>1, <1>4, <1>5, <1>9, <1>10, NotedOthers
<1>12. ASSUME NEW u \in Users \ shaken' PROVE Owes(c, u)
  <2>1. Unseen(u) /\ u \notin shaken
    BY <1>8, <1>9, <1>12
  <2>2. Good(u)' <=> Good(u)
    BY <2>1, UnseenSame
  <2>3. ~Answers(c, u)
    BY <1>4 DEF Answers, Minds, Connecting
  <2> QED BY <2>1, <2>2, <2>3 DEF Owes
<1>13. DefaultKnows(c)'
  BY <1>4, IdleDefault, IdleSettling
<1> QED BY <1>4, <1>7, <1>11, <1>12, <1>13, SettleStep

LEMMA SettlementAges ==
  ASSUME Settlement, NEW b \in Boxes, TokenAges(b)
  PROVE  Settlement'
<1>1. Recorded'
  BY TokenAgesTyped DEF Settlement
<1>2. UNCHANGED <<box, call, shaken>>
  BY DEF TokenAges, registryHistory
<1>3. OneFlag' /\ Answered' /\ \A c \in Calls : DefaultKnows(c)'
  BY <1>2 DEF Settlement, OneFlag, Answered, Answers, Good, Semi, DefaultKnows, Defaults, Candidates, IsOpen, Owned
<1> QED BY <1>1, <1>3 DEF Settlement

LEMMA SettlementCrash ==
  ASSUME Settlement, RegistryCrash
  PROVE  Settlement'
<1>1. Recorded' /\ \A c \in Calls : call'[c] = Idle
  BY CrashTyped DEF Settlement
<1>2. UNCHANGED box /\ \A u : Unseen(u)
  BY DEF RegistryCrash, Unseen
<1>3. shaken' = shaken \cup UNION {Minds(call[c]) : c \in {d \in Calls : call[d].pc # "idle"}}
  BY DEF RegistryCrash
<1>4. Answered'
  <2> SUFFICES ASSUME NEW u \in Users \ shaken' PROVE Good(u)'
    BY DEF Answered
  <2>1. \A c \in Calls : ~Answers(c, u)
    <3> SUFFICES ASSUME NEW c \in Calls, Answers(c, u) PROVE FALSE
      OBVIOUS
    <3>1. u \in Minds(call[c]) /\ call[c].kind \in Connecting
      BY DEF Answers, Minds
    <3>2. call[c].pc = "idle" => call[c] = Idle
      BY TypeFacts DEF Settlement
    <3>3. call[c].pc # "idle"
      BY <3>1, <3>2, IdleIs DEF Connecting
    <3> QED BY <1>3, <3>1, <3>3
  <2>2. Good(u)
    BY <1>3, <2>1 DEF Settlement, Answered
  <2> QED BY <1>2, <2>2, UnseenSame
<1>5. OneFlag'
  BY <1>2, FlagsStay DEF Settlement
<1>6. \A c \in Calls : DefaultKnows(c)'
  BY <1>1, IdleDefault, IdleSettling
<1> QED BY <1>1, <1>4, <1>5, <1>6 DEF Settlement

LEMMA SettlementStep == Settlement /\ [RegistryNext]_registryVars => Settlement'
<1> SUFFICES ASSUME Settlement, [RegistryNext]_registryVars PROVE Settlement'
  OBVIOUS
<1>1. CASE UNCHANGED registryVars
  <2>1. Recorded' /\ UNCHANGED <<box, call, shaken>>
    BY <1>1, NextTyped DEF registryVars, registryHistory, Settlement
  <2>2. OneFlag' /\ Answered' /\ \A c \in Calls : DefaultKnows(c)'
    BY <2>1 DEF Settlement, OneFlag, Answered, Answers, Good, Semi, DefaultKnows, Defaults, Candidates, IsOpen, Owned
  <2> QED BY <2>1, <2>2 DEF Settlement
<1>2. ASSUME NEW c \in Calls, ConnectStep(c) PROVE Settlement'
  BY <1>2, SettlementOnward, SettlementUpsert, SettlementExists DEF ConnectStep
<1>3. ASSUME NEW c \in Calls, DisconnectStep(c) PROVE Settlement'
  BY <1>3, SettlementOnward, SettlementGone DEF DisconnectStep
<1>4. ASSUME NEW c \in Calls, DefaultStep(c) PROVE Settlement'
  BY <1>4, SettlementCurrent, SettlementReplace, SettlementDrop, SettlementTarget, SettlementClear,
     SettlementSet DEF DefaultStep
<1>5. ASSUME NEW c \in Calls, RefreshStep(c) PROVE Settlement'
  BY <1>5, SettlementRefresh, SettlementMark DEF RefreshStep
<1>6. ASSUME NEW c \in Calls, AssignStep(c) PROVE Settlement'
  BY <1>6, SettlementRefresh, SettlementLists DEF AssignStep
<1>7. ASSUME NEW c \in Calls, CallBegins(c) \/ CallThrows(c) PROVE Settlement'
  BY <1>7, SettlementBegin, SettlementThrows
<1>8. ASSUME NEW b \in Boxes, TokenAges(b) PROVE Settlement'
  BY <1>8, SettlementAges
<1>9. CASE RegistryCrash
  BY <1>9, SettlementCrash
<1> QED BY <1>1, <1>2, <1>3, <1>4, <1>5, <1>6, <1>7, <1>8, <1>9 DEF RegistryNext

LEMMA InitSettlement == RegistryInit => Settlement
<1> SUFFICES ASSUME RegistryInit PROVE Settlement
  OBVIOUS
<1>1. PICK ended \in SUBSET {b \in Boxes : since[b] # 0},
           given \in [Boxes -> SUBSET Users], flagged \in [Users -> Boxes \cup {NoBox}],
           preferred \in [Users -> Boxes \cup {NoBox}], open \in SUBSET Boxes :
             InitAs(ended, given, flagged, preferred, open)
  BY InitBoxes
<1>2. \A b \in Boxes : /\ box[b].isDefault = (flagged[Owner[b]] = b)
                       /\ IsOpen(b) <=> b \in open
  BY <1>1 DEF InitAs, InitMailbox, IsOpen
<1>3. ASSUME NEW u \in Users
      PROVE  /\ \A b \in Defaults(u) : b = flagged[u]
             /\ Good(u)
  <2>1. \A b : b \in Owned(u) <=> b \in Boxes /\ Owner[b] = u
    BY DEF Owned
  <2>2. \A b : b \in Defaults(u) <=> b \in Owned(u) /\ flagged[u] = b
    BY <1>2, <2>1 DEF Defaults
  <2>3. flagged[u] \in IF Owned(u) \cap open = {} THEN {NoBox} ELSE Owned(u) \cap open
    BY <1>1 DEF InitAs
  <2>4. CASE Owned(u) \cap open = {}
    <3>1. Defaults(u) = {}
      BY <2>1, <2>2, <2>3, <2>4, NoBoxApart
    <3> QED BY <1>2, <2>1, <2>4, <3>1 DEF Good, Semi
  <2>5. CASE Owned(u) \cap open # {}
    <3>1. flagged[u] \in Defaults(u) /\ flagged[u] \in open
      BY <2>2, <2>3, <2>5
    <3> QED BY <1>2, <2>1, <2>2, <3>1 DEF Good, Semi
  <2> QED BY <2>4, <2>5
<1>4. OneFlag
  BY <1>3 DEF OneFlag
<1>5. Answered
  BY <1>3 DEF Answered
<1>6. \A c \in Calls : DefaultKnows(c)
  BY IdleSettling DEF RegistryInit, DefaultKnows, Settling
<1> QED BY <1>4, <1>5, <1>6, InitTyped DEF Settlement

LEMMA SettlementKeeps == Settlement => DefaultKept
<1> SUFFICES ASSUME Settlement, NEW u \in Users
             PROVE  /\ \A b, d \in Defaults(u) : b = d
                    /\ u \notin shaken /\ (\A c \in Calls : call[c].pc # "idle" => u \notin Minds(call[c])) => Good(u)
  BY DEF DefaultKept, Good, Semi
<1>1. \A b, d \in Defaults(u) : b = d
  BY DEF Settlement, OneFlag
<1>2. ASSUME u \notin shaken, \A c \in Calls : call[c].pc # "idle" => u \notin Minds(call[c]) PROVE Good(u)
  <2>1. \A c \in Calls : ~Answers(c, u)
    <3> SUFFICES ASSUME NEW c \in Calls, Answers(c, u) PROVE FALSE
      OBVIOUS
    <3>1. u \in Minds(call[c]) /\ call[c].kind \in Connecting
      BY DEF Answers, Minds
    <3>2. call[c].pc = "idle" => call[c] = Idle
      BY TypeFacts DEF Settlement
    <3> QED BY <1>2, <3>1, <3>2, IdleIs DEF Connecting
  <2> QED BY <1>2, <2>1 DEF Settlement, Answered
<1> QED BY <1>1, <1>2

LEMMA AlwaysSettled == RegistrySpec => []Settlement
BY InitSettlement, SettlementStep, PTL DEF RegistrySpec

(* Whatever calls overlap, throw or die with the process, a user has one default at most; and
   when no call looks after it and none was cut across, broke off or marked his mailbox, the
   default works, and there is one if any of his mailboxes works. *)
THEOREM DefaultIsKept == RegistrySpec => []DefaultKept
BY AlwaysSettled, SettlementKeeps, PTL

(* From which mailbox a user sends: his own default and the one an administrator gave him. *)
THEOREM SenderIsKept == RegistrySpec => []SenderKept
<1>1. DefaultKept /\ OneDefaultEach => SenderKept
  BY DEF SenderKept
<1> QED BY <1>1, DefaultIsKept, OneDefaultEachHolds, PTL

(* The folder, the replies and the registry of a run take no step into each other's state, so *)
(* what each keeps on its own it keeps beside the others.                                     *)
THEOREM MailStepEither == MailSpec => FolderSpec /\ ReplySpec /\ RegistrySpec
<1>1. MailInit => FolderInit /\ ReplyInit /\ RegistryInit
  BY DEF MailInit
<1>2. [MailNext]_<<side, folderVars, replyVars, registryVars>> =>
        [FolderNext]_folderVars /\ [ReplyNext]_replyVars /\ [RegistryNext]_registryVars
  BY Zenon DEF MailNext
<1> QED BY <1>1, <1>2, PTL DEF MailSpec, FolderSpec, ReplySpec, RegistrySpec

(* The folders, letters, leads, mailboxes and calls hold what the code may put there.         *)
THEOREM MailTypesHold == MailSpec => []MailTypes
<1>1. FolderTypes /\ ReplyTypes /\ RegistryTypes => MailTypes
  BY DEF MailTypes
<1> QED BY <1>1, MailStepEither, FolderTypeCorrect, ReplyTypeCorrect, RegistryTypeCorrect, PTL
================================================================================

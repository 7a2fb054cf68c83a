----------------------------- MODULE MailboxRegistry -----------------------------
(****************************************************************************)
(* The mailboxes of the workspaces: which are connected, with which         *)
(* credentials, who may use them, and from which one a user sends when he    *)
(* names none.  Each request and each sync is a call that reads and writes   *)
(* documents step by step; nothing keeps two calls apart but an index that   *)
(* lets a user have one default.                                            *)
(*                                                                          *)
(*   src/src/modules/provider/repositories/mailbox.repository.js            *)
(*   src/src/modules/provider/services/mailboxConnect.service.js            *)
(*   src/src/modules/provider/services/tokenManager.js                      *)
(*   src/src/modules/provider/controllers/mailbox.controller.js             *)
(*   src/src/modules/admin/services/mailboxAssignment.service.js            *)
(****************************************************************************)
EXTENDS Naturals, FiniteSets

CONSTANTS
  Boxes,        \* mailboxes
  Users,
  Owner,        \* who connects each mailbox: Mailbox.user
  NoBox,
  Calls,        \* calls that may be under way
  MaxFailures,  \* MAX_REFRESH_FAILURES
  MaxCalls,     \* bound on the calls of a behaviour
  MaxBreaks     \* bound on errors and crashes

ASSUME RegistryAssumption ==
  /\ IsFiniteSet(Boxes) /\ Owner \in [Boxes -> Users]
  /\ NoBox \notin Boxes
  /\ MaxFailures \in Nat \ {0} /\ MaxCalls \in Nat /\ MaxBreaks \in Nat

VARIABLES
  box,       \* each Mailbox: status, disconnectedAt set, isDefault, assignedUsers, defaultUsers
  since,     \* the order of connectedAt
  connects,  \* how many connections there have been
  credential, \* each ProviderToken: status, expiresAt, refreshFailureCount
  grant,     \* mailboxes whose OutlookAccount holds a credential
  call,      \* each call
  calls, breaks,  \* how much of the bounds is used
  \* History, read by properties only:
  shaken,    \* users whose default was disturbed since it was last settled undisturbed
  crossed,   \* mailboxes whose status or credential was last written by a call that another cut across
  mixed,     \* mailboxes whose lists were written by a call that another cut across
  doubled,   \* users whose defaults were
  unpurged,  \* mailboxes given a credential since the last disconnect, or whose credential it left
  tries,     \* refreshes of each mailbox that failed since the last that counted from nothing
  slips      \* failures that were counted from an old count

registryHistory == <<shaken, crossed, unpurged, mixed, doubled, tries, slips>>
registryVars == <<box, since, connects, credential, grant, call, calls, breaks, registryHistory>>

NoAccess == [status |-> "disconnected", expiry |-> "none", failures |-> 0]

Idle == [pc |-> "idle", kind |-> "none", of |-> NoBox, who |-> NoBox, tok |-> NoAccess,
         status |-> "absent", cur |-> NoBox, to |-> NoBox, list |-> {}, defs |-> {},
         alone |-> TRUE, sole |-> TRUE]

Absent == [status |-> "absent", gone |-> FALSE, isDefault |-> FALSE, assigned |-> {}, defaults |-> {}]

IsOpen(b) == box[b].status = "connected"

Owned(u) == {b \in Boxes : Owner[b] = u}

\* Nothing is under way.  Some mailboxes were connected, one after the other, some of them
\* disconnected again; each owner of a connected one has a default; users were assigned, and
\* may have a default among the mailboxes given to them.
RegistryInit ==
  /\ since \in [Boxes -> 0 .. Cardinality(Boxes)]
  /\ \A b, d \in Boxes : b # d /\ since[b] = since[d] => since[b] = 0
  /\ connects = Cardinality(Boxes)
  /\ \E ended \in SUBSET {b \in Boxes : since[b] # 0},
        given \in [Boxes -> SUBSET Users], flagged, preferred \in [Users -> Boxes \cup {NoBox}] :
       LET open == {b \in Boxes \ ended : since[b] # 0} IN
       /\ \A b \in Boxes : Owner[b] \notin given[b] /\ (since[b] = 0 => given[b] = {})
       /\ \A u \in Users :
            /\ flagged[u] \in IF Owned(u) \cap open = {} THEN {NoBox} ELSE Owned(u) \cap open
            /\ preferred[u] \in {NoBox} \cup {b \in Boxes : u \in given[b]}
       /\ box = [b \in Boxes |->
            [status    |-> IF b \in open THEN "connected" ELSE IF b \in ended THEN "disconnected" ELSE "absent",
             gone      |-> b \in ended,
             isDefault |-> flagged[Owner[b]] = b,
             assigned  |-> given[b],
             defaults  |-> {u \in Users : preferred[u] = b}]]
       /\ credential = [b \in Boxes |-> IF b \in open THEN [NoAccess EXCEPT !.status = "connected"] ELSE NoAccess]
       /\ grant = open
  /\ call = [c \in Calls |-> Idle]
  /\ calls = 0 /\ breaks = 0
  /\ shaken = {} /\ crossed = {} /\ unpurged = grant /\ mixed = {} /\ doubled = {}
  /\ tries = [b \in Boxes |-> 0] /\ slips = [b \in Boxes |-> 0]

MayUse(b, u) == Owner[b] = u \/ u \in box[b].assigned

Connecting == {"connect", "adopt", "disconnect", "choose"}
Linking    == Connecting \cup {"refresh", "validate"}
Assigning  == {"assign", "unassign", "prefer"}

\* Users whose default a call at work looks after.
Minds(w) == IF w.kind \in Connecting THEN {w.who, Owner[w.of]} ELSE {}

-------------------------------------------------------------------------------
(* What the other calls know is old: f are the calls after a step of c.      *)

\* c wrote the status or the flag of mailbox b.
BoxWritten(f, c, b) ==
  [d \in Calls |-> IF d = c \/ f[d].kind \notin Linking THEN f[d]
                   ELSE [f[d] EXCEPT !.alone = @ /\ Owner[b] \notin Minds(f[d]), !.sole = @ /\ f[d].of # b]]

\* c wrote the credential of mailbox b.
TokenWritten(f, c, b) ==
  [d \in Calls |-> IF d = c \/ f[d].kind \notin Linking \/ f[d].of # b THEN f[d]
                   ELSE [f[d] EXCEPT !.sole = FALSE]]

\* c wrote the lists of the mailboxes B, and the default of the users U.
ListsWritten(f, c, B, U) ==
  [d \in Calls |->
     IF d # c /\ f[d].kind \in Assigning /\ (f[d].of \in B \/ (f[d].kind = "prefer" /\ f[d].who \in U))
     THEN [f[d] EXCEPT !.alone = FALSE] ELSE f[d]]

\* What document.save() writes of a credential read earlier: the fields that were changed.
Saved(now, read, new) ==
  [status   |-> IF new.status = read.status THEN now.status ELSE new.status,
   expiry   |-> IF new.expiry = read.expiry THEN now.expiry ELSE new.expiry,
   failures |-> IF new.failures = read.failures THEN now.failures ELSE new.failures]

Crossed(c) == IF call[c].sole THEN crossed ELSE crossed \cup {call[c].of}

-------------------------------------------------------------------------------
(* A call begins and ends.                                                   *)

Starts(c, kind, pc, b, u) ==
  /\ call[c].pc = "idle"
  /\ calls < MaxCalls /\ calls' = calls + 1
  /\ call' = [call EXCEPT ![c] = [Idle EXCEPT !.pc = pc, !.kind = kind, !.of = b, !.who = u]]
  /\ UNCHANGED <<box, since, connects, credential, grant, breaks, registryHistory>>

\* beginMailboxConnect and the consent; provider.service.connect, with the credential of an
\* earlier consent; a disconnect, by whoever may use the mailbox; a chosen default, which
\* must be connected.
Connect(c)    == \E b \in Boxes : Starts(c, "connect", "grant", b, Owner[b])
Adopt(c)      == \E b \in grant : Starts(c, "adopt", "upsert", b, Owner[b])
DisconnectBox(c) == \E b \in Boxes, u \in Users :
                   /\ box[b].status # "absent" /\ MayUse(b, u)
                   /\ Starts(c, "disconnect", "load", b, u)
Choose(c)     == \E b \in Boxes : IsOpen(b) /\ Starts(c, "choose", "target", b, Owner[b])

\* A sync, refused for a mailbox that is disconnected; a probe.
Refresh(c)  == \E b \in Boxes :
                 /\ box[b].status \notin {"absent", "disconnected"}
                 /\ Starts(c, "refresh", "valid", b, Owner[b])
Validate(c) == \E b \in Boxes : box[b].status # "absent" /\ Starts(c, "validate", "probe", b, Owner[b])

\* An administrator's calls; setUserMailboxes is a loop of the first two, one call after another.
Assign(c)   == \E b \in Boxes, u \in Users : Starts(c, "assign", "edit", b, u)
Unassign(c) == \E b \in Boxes, u \in Users : Starts(c, "unassign", "edit", b, u)
Prefer(c)   == \E b \in Boxes, u \in Users : Starts(c, "prefer", "edit", b, u)

\* The call goes on.
To(c, pc) == [call EXCEPT ![c].pc = pc]

\* The call is over and has settled the default of its user, if nobody cut across.
Settled(w) == IF w.alone THEN (shaken \ {w.who}) \cup (Minds(w) \ {w.who}) ELSE shaken \cup Minds(w)

Settles(c) ==
  /\ call' = [call EXCEPT ![c] = Idle]
  /\ shaken' = Settled(call[c])

\* The call is over and has looked at no default.
Leaves(c) ==
  /\ call' = [call EXCEPT ![c] = Idle]
  /\ shaken' = IF call[c].alone THEN shaken ELSE shaken \cup Minds(call[c])

-------------------------------------------------------------------------------
(* Connecting and disconnecting a mailbox.                                   *)

\* completeMailboxConnect: the credential...
Grant(c) ==
  LET b == call[c].of IN
  /\ call[c].pc = "grant"
  /\ grant' = grant \cup {b}
  /\ unpurged' = unpurged \cup {b}
  /\ call' = TokenWritten(To(c, "upsert"), c, b)
  /\ UNCHANGED <<box, since, connects, credential, calls, breaks, shaken, crossed, mixed, doubled, tries, slips>>

\* ...the mailbox...
UpsertBox(c) ==
  LET b == call[c].of IN
  /\ call[c].pc = "upsert"
  /\ box' = [box EXCEPT ![b].status = "connected", ![b].gone = FALSE]
  /\ connects' = connects + 1
  /\ since' = [since EXCEPT ![b] = connects + 1]
  /\ call' = BoxWritten(To(c, "load"), c, b)
  /\ UNCHANGED <<credential, grant, calls, breaks, registryHistory>>

\* Of a connect and a disconnect: ensureRecord (recordConnection) or findOne (revoke)...
LoadToken(c) ==
  /\ call[c].pc = "load"
  /\ call' = [call EXCEPT ![c].tok = credential[call[c].of],
                          ![c].pc = IF call[c].kind = "disconnect" THEN "revoke" ELSE "record"]
  /\ UNCHANGED <<box, since, connects, credential, grant, calls, breaks, registryHistory>>

\* recordConnection.
Record(c) ==
  LET b == call[c].of IN
  /\ call[c].pc = "record"
  /\ credential' = [credential EXCEPT ![b] =
       Saved(@, call[c].tok, [status |-> "connected", expiry |-> "none", failures |-> 0])]
  /\ tries' = [tries EXCEPT ![b] = 0] /\ slips' = [slips EXCEPT ![b] = 0]
  /\ crossed' = Crossed(c)
  /\ call' = TokenWritten(To(c, IF call[c].kind = "connect" THEN "exists" ELSE "current"), c, b)
  /\ UNCHANGED <<box, since, connects, grant, calls, breaks, shaken, unpurged, mixed, doubled>>

Defaults(u) == {b \in Owned(u) : box[b].isDefault}

\* Only the first mailbox becomes the default.
Exists(c) ==
  /\ call[c].pc = "exists"
  /\ \/ /\ Defaults(call[c].who) # {}
        /\ Leaves(c)
     \/ /\ Defaults(call[c].who) = {}
        /\ call' = To(c, "current")
        /\ UNCHANGED shaken
  /\ UNCHANGED <<box, since, connects, credential, grant, calls, breaks, crossed, unpurged, mixed, doubled, tries, slips>>

Revoked(t) == [t EXCEPT !.status = "disconnected", !.expiry = "none"]

\* disconnect: revoke; the credential itself goes by one of the two routes only, and only if
\* the account is the caller's...
Revoke(c) ==
  LET w == call[c] IN
  /\ w.pc = "revoke"
  /\ credential' = [credential EXCEPT ![w.of] = Saved(@, w.tok, Revoked(w.tok))]
  /\ crossed' = Crossed(c)
  /\ \E next \in {"purge", "mark"} :
       /\ next = "purge" => w.who = Owner[w.of]
       /\ call' = TokenWritten([call EXCEPT ![c].pc = next, ![c].status = "disconnected"], c, w.of)
  /\ UNCHANGED <<box, since, connects, grant, calls, breaks, shaken, unpurged, mixed, doubled, tries, slips>>

\* Mutant: the account is not saved.
PurgeUnsaved(c) ==
  /\ call[c].pc = "purge"
  /\ call' = To(c, "close")
  /\ UNCHANGED <<box, since, connects, credential, grant, calls, breaks, registryHistory>>

\* ...the cache of MSAL is purged and the account closed, or that fails, which is logged...
Purge(c) ==
  /\ call[c].pc = "purge"
  /\ \/ /\ grant' = grant \ {call[c].of}
        /\ call' = To(c, "close")
        /\ UNCHANGED breaks
     \/ /\ breaks < MaxBreaks /\ breaks' = breaks + 1
        /\ call' = To(c, "mark")
        /\ UNCHANGED grant
  /\ UNCHANGED <<box, since, connects, credential, calls, registryHistory>>

\* ...markMailboxStatus, of a disconnect, of one that has closed the account or not...
MarkGone(c) ==
  LET b == call[c].of IN
  /\ call[c].pc \in {"mark", "close"} /\ call[c].kind = "disconnect"
  /\ box' = [box EXCEPT ![b].status = "disconnected", ![b].gone = TRUE]
  /\ crossed' = IF call[c].sole THEN crossed \ {b} ELSE crossed \cup {b}
  /\ unpurged' = IF call[c].pc = "close" THEN unpurged \ {b} ELSE unpurged \cup {b}
  /\ call' = BoxWritten(To(c, "unflag"), c, b)
  /\ UNCHANGED <<since, connects, credential, grant, calls, breaks, shaken, mixed, doubled, tries, slips>>

\* ...and the flag.
Unflag(c) ==
  LET b == call[c].of IN
  /\ call[c].pc = "unflag"
  /\ box' = [box EXCEPT ![b].isDefault = FALSE]
  /\ call' = BoxWritten(To(c, "current"), c, b)
  /\ UNCHANGED <<since, connects, credential, grant, calls, breaks, registryHistory>>

-------------------------------------------------------------------------------
(* ensureDefaultMailbox and setDefaultMailbox.                               *)

Current(c) ==
  LET held == Defaults(call[c].who) IN
  /\ call[c].pc = "current"
  /\ \/ /\ \E b \in held : IsOpen(b)
        /\ Settles(c)
     \/ /\ \A b \in held : ~IsOpen(b)
        /\ \E b \in held \cup {NoBox} :
             /\ b = NoBox => held = {}
             /\ call' = [call EXCEPT ![c].cur = b, ![c].pc = "replace"]
        /\ UNCHANGED shaken
  /\ UNCHANGED <<box, since, connects, credential, grant, calls, breaks, crossed, unpurged, mixed, doubled, tries, slips>>

\* Mutant: whatever its status.
CandidatesAny(u) == {b \in Owned(u) : box[b].status # "absent"}

\* The mailboxes that can take over; the oldest does.
Candidates(u) == {b \in Owned(u) : IsOpen(b)}

Replace(c) ==
  LET w == call[c] IN
  /\ w.pc = "replace"
  /\ \/ /\ Candidates(w.who) = {} /\ w.cur # NoBox
        /\ call' = To(c, "drop")
        /\ UNCHANGED shaken
     \/ /\ Candidates(w.who) = {} /\ w.cur = NoBox
        /\ Settles(c)
     \/ \E b \in Candidates(w.who) :
          /\ \A d \in Candidates(w.who) : since[b] <= since[d]
          /\ \/ /\ b = w.cur
                /\ Settles(c)
             \/ /\ b # w.cur
                /\ call' = [call EXCEPT ![c].to = b, ![c].pc = "target"]
                /\ UNCHANGED shaken
  /\ UNCHANGED <<box, since, connects, credential, grant, calls, breaks, crossed, unpurged, mixed, doubled, tries, slips>>

DropDefault(c) ==
  /\ call[c].pc = "drop"
  /\ box' = [box EXCEPT ![call[c].cur].isDefault = FALSE]
  /\ call' = BoxWritten([call EXCEPT ![c] = Idle], c, call[c].cur)
  /\ shaken' = Settled(call[c])
  /\ UNCHANGED <<since, connects, credential, grant, calls, breaks, crossed, unpurged, mixed, doubled, tries, slips>>

\* setDefaultMailbox, of the mailbox chosen by the user or by ensureDefaultMailbox.
Chosen(w) == IF w.kind = "choose" THEN w.of ELSE w.to

Target(c) ==
  LET b == Chosen(call[c]) IN
  /\ call[c].pc = "target"
  /\ \/ box[b].isDefault /\ Settles(c)
     \/ ~box[b].isDefault /\ call' = To(c, "clear") /\ UNCHANGED shaken
  /\ UNCHANGED <<box, since, connects, credential, grant, calls, breaks, crossed, unpurged, mixed, doubled, tries, slips>>

Clear(c) ==
  LET w == call[c] IN
  /\ w.pc = "clear"
  /\ box' = [b \in Boxes |-> [box[b] EXCEPT !.isDefault = @ /\ Owner[b] # w.who]]
  /\ call' = BoxWritten(To(c, "set"), c, Chosen(w))
  /\ UNCHANGED <<since, connects, credential, grant, calls, breaks, registryHistory>>

\* The unique index refuses a second default.
SetFlag(c) ==
  LET b == Chosen(call[c]) IN
  /\ call[c].pc = "set"
  /\ \/ /\ Defaults(Owner[b]) \subseteq {b}
        /\ box' = [box EXCEPT ![b].isDefault = TRUE]
        /\ call' = BoxWritten([call EXCEPT ![c] = Idle], c, b)
        /\ shaken' = Settled(call[c])
     \/ /\ ~(Defaults(Owner[b]) \subseteq {b})
        /\ Leaves(c) /\ UNCHANGED box
  /\ UNCHANGED <<since, connects, credential, grant, calls, breaks, crossed, unpurged, mixed, doubled, tries, slips>>

-------------------------------------------------------------------------------
(* ensureValid and refresh, at the start of a sync; validate.                *)

Exhausted(t) == t.failures >= MaxFailures

\* evaluate
Worthwhile(t) == ~Exhausted(t) /\ t.status # "disconnected" /\ t.expiry # "ahead"

\* ensureValid evaluates the record...
Valid(c) ==
  /\ call[c].pc = "valid"
  /\ \/ Worthwhile(credential[call[c].of]) /\ call' = To(c, "evaluate")
     \/ ~Worthwhile(credential[call[c].of]) /\ call' = [call EXCEPT ![c] = Idle]
  /\ UNCHANGED <<box, since, connects, credential, grant, calls, breaks, registryHistory>>

\* ...refresh loads it again...
Evaluate(c) ==
  LET now == credential[call[c].of] IN
  /\ call[c].pc = "evaluate"
  /\ \/ Worthwhile(now) /\ call' = [call EXCEPT ![c].pc = "renew", ![c].tok = now]
     \/ ~Worthwhile(now) /\ call' = [call EXCEPT ![c] = Idle]
  /\ UNCHANGED <<box, since, connects, credential, grant, calls, breaks, registryHistory>>

\* ...asks the provider, and saves the outcome.
Renews(c) ==
  LET b == call[c].of IN
  /\ call[c].pc = "renew" /\ b \in grant
  /\ credential' = [credential EXCEPT ![b] =
       Saved(@, call[c].tok, [status |-> "connected", expiry |-> "ahead", failures |-> 0])]
  /\ tries' = [tries EXCEPT ![b] = 0] /\ slips' = [slips EXCEPT ![b] = 0]
  /\ crossed' = Crossed(c)
  /\ call' = TokenWritten([call EXCEPT ![c] = Idle], c, b)
  /\ UNCHANGED <<box, since, connects, grant, calls, breaks, shaken, unpurged, mixed, doubled>>

\* The save after a refresh that succeeded fails: a failure is counted, from nothing, and saved.
RenewUnsaved(c) ==
  LET b == call[c].of IN
  /\ call[c].pc = "renew" /\ b \in grant
  /\ breaks < MaxBreaks /\ breaks' = breaks + 1
  /\ credential' = [credential EXCEPT ![b] = [status |-> "degraded", expiry |-> "ahead", failures |-> 1]]
  /\ tries' = [tries EXCEPT ![b] = 1] /\ slips' = [slips EXCEPT ![b] = 0]
  /\ crossed' = Crossed(c)
  /\ call' = TokenWritten([call EXCEPT ![c] = Idle], c, b)
  /\ UNCHANGED <<box, since, connects, grant, calls, shaken, unpurged, mixed, doubled>>

\* A failure of any kind comes from the adapter as one that is fatal: the sync ends, and
\* marks the mailbox.
RenewFails(c) ==
  LET b == call[c].of  old == call[c].tok  lost == credential[b].failures - old.failures IN
  /\ call[c].pc = "renew"
  /\ credential' = [credential EXCEPT ![b] =
       Saved(@, old, [old EXCEPT !.status = "expired", !.failures = @ + 1])]
  /\ tries' = [tries EXCEPT ![b] = @ + 1]
  /\ slips' = [slips EXCEPT ![b] = IF lost > 0 THEN @ + lost ELSE @]
  /\ crossed' = Crossed(c)
  /\ call' = TokenWritten([call EXCEPT ![c].pc = "mark", ![c].status = "expired"], c, b)
  /\ UNCHANGED <<box, since, connects, grant, calls, breaks, shaken, unpurged, mixed, doubled>>

\* validate: whatever the credential record says, the provider is asked.
Probe(c) ==
  /\ call[c].pc = "probe"
  /\ \E s \in {"connected", "expired"} :
       /\ s = "connected" => call[c].of \in grant
       /\ call' = [call EXCEPT ![c].pc = "mark", ![c].status = s]
  /\ UNCHANGED <<box, since, connects, credential, grant, calls, breaks, registryHistory>>

\* markMailboxStatus, of both: nobody looks after the default.
MarkStatus(c) ==
  LET b == call[c].of IN
  /\ call[c].pc = "mark" /\ call[c].kind # "disconnect"
  /\ box' = [box EXCEPT ![b].status = call[c].status]
  /\ crossed' = Crossed(c)
  /\ shaken' = shaken \cup {Owner[b]}
  /\ call' = BoxWritten([call EXCEPT ![c] = Idle], c, b)
  /\ UNCHANGED <<since, connects, credential, grant, calls, breaks, unpurged, mixed, doubled, tries, slips>>

TokenAges(b) ==
  /\ credential[b].expiry = "ahead"
  /\ credential' = [credential EXCEPT ![b].expiry = "due"]
  /\ UNCHANGED <<box, since, connects, grant, call, calls, breaks, registryHistory>>

-------------------------------------------------------------------------------
(* mailboxAssignment.service.                                                *)

\* assignabilityOf
Assignable(b) == IsOpen(b) /\ ~box[b].gone

IsDefaultFor(b, u) == u \in box[b].defaults \/ (box[b].isDefault /\ Owner[b] = u)

\* The mailbox is loaded and the request is looked at; one that changes nothing, or is
\* refused, ends here.
Wanted(w) ==
  LET m == box[w.of] IN
  CASE w.kind = "assign"   -> Assignable(w.of) /\ w.who \notin m.assigned \cup {Owner[w.of]}
    [] w.kind = "unassign" -> w.who # Owner[w.of] /\ w.who \in m.assigned
    [] w.kind = "prefer"   -> /\ MayUse(w.of, w.who) /\ Assignable(w.of)
                              /\ ~(IsDefaultFor(w.of, w.who) /\ m.defaults # {})

Edit(c) ==
  LET w == call[c] IN
  /\ w.pc = "edit"
  /\ \/ /\ Wanted(w)
        /\ call' = [call EXCEPT ![c].pc = IF w.kind = "prefer" THEN "pull" ELSE "save",
                                ![c].list = box[w.of].assigned, ![c].defs = box[w.of].defaults]
     \/ ~Wanted(w) /\ call' = [call EXCEPT ![c] = Idle]
  /\ UNCHANGED <<box, since, connects, credential, grant, calls, breaks, registryHistory>>

\* The defaults are written only if the user was among those that were loaded.
DefaultsCleared(w, now) == IF w.who \in w.defs THEN w.defs \ {w.who} ELSE now

\* Whole arrays, as computed from what was loaded.
SaveLists(c) ==
  LET w == call[c] IN
  /\ w.pc = "save"
  /\ box' = IF w.kind = "assign" THEN [box EXCEPT ![w.of].assigned = w.list \cup {w.who}]
            ELSE [box EXCEPT ![w.of].assigned = w.list \ {w.who}, ![w.of].defaults = DefaultsCleared(w, @)]
  /\ mixed' = IF w.alone THEN mixed ELSE mixed \cup {w.of}
  /\ doubled' = IF w.alone THEN doubled ELSE doubled \cup w.defs
  /\ call' = ListsWritten([call EXCEPT ![c] = Idle], c, {w.of}, {})
  /\ UNCHANGED <<since, connects, credential, grant, calls, breaks, shaken, crossed, unpurged, tries, slips>>

\* setDefaultMailboxForUser: the user is taken from every other mailbox...
Pull(c) ==
  LET w == call[c] IN
  /\ w.pc = "pull"
  /\ box' = [b \in Boxes |-> IF b = w.of THEN box[b] ELSE [box[b] EXCEPT !.defaults = @ \ {w.who}]]
  /\ call' = ListsWritten(To(c, "add"), c, {b \in Boxes \ {w.of} : w.who \in box[b].defaults}, {})
  /\ UNCHANGED <<since, connects, credential, grant, calls, breaks, registryHistory>>

\* ...and added to this one.
Add(c) ==
  LET w == call[c] IN
  /\ w.pc = "add"
  /\ box' = [box EXCEPT ![w.of].defaults = @ \cup {w.who}]
  /\ mixed' = IF w.alone THEN mixed ELSE mixed \cup {w.of}
  /\ doubled' = IF w.alone THEN doubled ELSE doubled \cup {w.who}
  /\ call' = ListsWritten([call EXCEPT ![c] = Idle], c, {w.of}, {w.who})
  /\ UNCHANGED <<since, connects, credential, grant, calls, breaks, shaken, crossed, unpurged, tries, slips>>

-------------------------------------------------------------------------------
(* Failure.                                                                  *)

\* A request of the database or of the provider throws, which ends the call, unless it is one
\* of the purge.
CallThrows(c) ==
  /\ call[c].pc \notin {"idle", "purge"}
  /\ breaks < MaxBreaks /\ breaks' = breaks + 1
  /\ call' = [call EXCEPT ![c] = Idle]
  /\ shaken' = shaken \cup Minds(call[c])
  /\ UNCHANGED <<box, since, connects, credential, grant, calls, crossed, unpurged, mixed, doubled, tries, slips>>

\* The process dies, and every call with it.
RegistryCrash ==
  /\ \E c \in Calls : call[c].pc # "idle"
  /\ breaks < MaxBreaks /\ breaks' = breaks + 1
  /\ call' = [c \in Calls |-> Idle]
  /\ shaken' = shaken \cup UNION {Minds(call[c]) : c \in {d \in Calls : call[d].pc # "idle"}}
  /\ UNCHANGED <<box, since, connects, credential, grant, calls, crossed, unpurged, mixed, doubled, tries, slips>>

ConnectStep(c) == Grant(c) \/ UpsertBox(c) \/ LoadToken(c) \/ Record(c) \/ Exists(c)
DisconnectStep(c) == Revoke(c) \/ Purge(c) \/ MarkGone(c) \/ Unflag(c)
DefaultStep(c) == Current(c) \/ Replace(c) \/ DropDefault(c) \/ Target(c) \/ Clear(c) \/ SetFlag(c)
RefreshStep(c) == Valid(c) \/ Evaluate(c) \/ Renews(c) \/ RenewUnsaved(c) \/ RenewFails(c) \/ Probe(c)
                  \/ MarkStatus(c)
AssignStep(c) == Edit(c) \/ SaveLists(c) \/ Pull(c) \/ Add(c)
CallBegins(c) == Connect(c) \/ Adopt(c) \/ DisconnectBox(c) \/ Choose(c) \/ Refresh(c) \/ Validate(c)
                 \/ Assign(c) \/ Unassign(c) \/ Prefer(c)

RegistryNext ==
  \/ \E c \in Calls : \/ CallBegins(c) \/ ConnectStep(c) \/ DisconnectStep(c) \/ DefaultStep(c)
                      \/ RefreshStep(c) \/ AssignStep(c) \/ CallThrows(c)
  \/ \E b \in Boxes : TokenAges(b)
  \/ RegistryCrash

RegistrySpec == RegistryInit /\ [][RegistryNext]_registryVars

-------------------------------------------------------------------------------
(* Properties.                                                               *)

Credential == [status : {"connected", "disconnected", "expired", "degraded"},
               expiry : {"none", "ahead", "due"}, failures : 0 .. MaxFailures]
Statuses == {"absent", "connected", "disconnected", "expired"}
Mailbox == [status : Statuses, gone : BOOLEAN, isDefault : BOOLEAN,
            assigned : SUBSET Users, defaults : SUBSET Users]

\* Where a call of each kind may be.
Places ==
  [connect |-> {"grant", "upsert", "load", "record", "exists", "current", "replace", "drop",
                "target", "clear", "set"},
   adopt |-> {"upsert", "load", "record", "current", "replace", "drop", "target", "clear", "set"},
   disconnect |-> {"load", "revoke", "purge", "mark", "close", "unflag", "current", "replace",
                   "drop", "target", "clear", "set"},
   choose |-> {"target", "clear", "set"},
   refresh |-> {"valid", "evaluate", "renew", "mark"}, validate |-> {"probe", "mark"},
   assign |-> {"edit", "save"}, unassign |-> {"edit", "save"}, prefer |-> {"edit", "pull", "add"}]

Call == [pc : UNION {Places[k] : k \in DOMAIN Places}, kind : DOMAIN Places, of : Boxes, who : Users,
         tok : Credential, status : Statuses, cur : Boxes \cup {NoBox}, to : Boxes \cup {NoBox},
         list : SUBSET Users, defs : SUBSET Users, alone : BOOLEAN, sole : BOOLEAN]

\* A call at work is at a place of its kind, and knows what that place needs.
AtPlace(w) ==
  /\ w.pc \in Places[w.kind]
  /\ w.pc = "drop" => w.cur # NoBox
  /\ w.pc \in {"target", "clear", "set"} => Chosen(w) \in Boxes
  /\ w.pc = "renew" => w.tok.failures < MaxFailures
  /\ w.pc = "mark" => w.status \in IF w.kind = "refresh" THEN {"expired"}
                                    ELSE IF w.kind = "validate" THEN {"connected", "expired"}
                                    ELSE {"disconnected"}

\* Every variable holds what the code may put there; a mailbox that was never connected has
\* neither credentials nor users.
RegistryTypes ==
  /\ box \in [Boxes -> Mailbox]
  /\ since \in [Boxes -> 0 .. connects] /\ connects \in Nat
  /\ credential \in [Boxes -> Credential]
  /\ grant \subseteq Boxes
  /\ {shaken, doubled} \subseteq SUBSET Users /\ {crossed, unpurged, mixed} \subseteq SUBSET Boxes
  /\ call \in [Calls -> Call \cup {Idle}]
  /\ \A c \in Calls : call[c] # Idle => AtPlace(call[c])
  /\ calls \in 0 .. MaxCalls /\ breaks \in 0 .. MaxBreaks
  /\ tries \in [Boxes -> Nat] /\ slips \in [Boxes -> Nat]
  /\ \A b \in Boxes : box[b].status = "absent" => box[b] = Absent /\ credential[b] = NoAccess

\* The default a user sends from works, and there is one if any mailbox of his does, unless
\* calls cut across one another, one of them broke off, or a sync or a probe marked a
\* mailbox: after a connect, a disconnect and a choice nothing is left to be repaired
\* (ensureDefaultMailbox, mailbox.repository.js:218-249).  Two at once there never are.
DefaultKept ==
  \A u \in Users :
    /\ \A b, d \in Defaults(u) : b = d
    /\ u \notin shaken /\ (\A c \in Calls : call[c].pc # "idle" => u \notin Minds(call[c])) =>
         /\ \A b \in Defaults(u) : IsOpen(b)
         /\ (\E b \in Owned(u) : IsOpen(b)) => Defaults(u) # {}

\* A mailbox is the default of users who may use it, and a user has one such default, unless
\* two administrators' calls cut across one another (mailboxAssignment.service.js:16-33).
OneDefaultEach ==
  /\ \A b \in Boxes \ mixed : box[b].defaults \subseteq box[b].assigned \cup {Owner[b]}
  /\ \A u \in Users \ doubled, b, d \in Boxes :
       u \in box[b].defaults /\ u \in box[d].defaults => b = d

\* Access ends with a disconnect (mailbox.controller.js:278-282): a mailbox marked
\* disconnected by a request that no other call cut across has a revoked record, and no
\* credential to send or read with either, if the request was its owner's DELETE and the
\* purge did not fail, and he has not consented again since.  The other ways to disconnect,
\* POST /provider/disconnect among them, leave the credential.  And however calls overlap, refreshes are
\* tried MAX_REFRESH_FAILURES times at most, and once more for each failure that a slower
\* call wrote over (tokenManager.js:97, 169).
CredentialsEnd ==
  \A b \in Boxes :
    /\ box[b].status = "disconnected" /\ b \notin crossed =>
         /\ credential[b].status = "disconnected"
         /\ b \notin unpurged => b \notin grant
    /\ tries[b] <= MaxFailures + slips[b]

\* From which mailbox a user sends.
SenderKept == DefaultKept /\ OneDefaultEach
=============================================================================

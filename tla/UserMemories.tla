----------------------------- MODULE UserMemories -----------------------------
(* The long-term memories of one user: create, suggest, confirm, reject,      *)
(* archive, restore, edit, delete, and the limit of active memories.          *)
(*                                                                            *)
(* A request is one READ COMMITTED transaction of statements that take no     *)
(* lock before they write: what it found is what was committed when it        *)
(* looked, and it writes the columns it changed over whatever is there by     *)
(* then.  Requests of the API, of the administration and of chat turns        *)
(* overlap.                                                                   *)
EXTENDS Integers, FiniteSets

CONSTANTS
    Memories,     \* user_memories ids
    Requests,     \* requests that may be in flight at the same time
    Texts,        \* contents, each with the category it is filed under
    Preferences,  \* those filed as preference or instruction
    Related,      \* pairs of one category that conflict or are near-duplicates
    Limits,       \* values of maximum_active_memories, with the platform's cap applied
    Redacted,     \* "[redacted]"
    MaxExpiries,  \* bound: expiry dates that pass
    MaxStarted    \* bound: requests that are made

ASSUME FiniteAssumption == IsFiniteSet(Memories) /\ IsFiniteSet(Requests)
ASSUME TextsAssumption == Preferences \subseteq Texts /\ Redacted \notin Texts
ASSUME LimitsAssumption == Limits # {} /\ Limits \subseteq Nat \ {0}

VARIABLES
    memory,    \* the rows
    limit,     \* user_memory_settings.maximum_active_memories
    request,   \* the requests in flight, with what they loaded
    highest,   \* history: the highest limit so far
    expiries,  \* history: expiry dates that have passed
    started,   \* requests made
    erased,    \* history: memories redacted while no other request had them loaded
    exceeded,  \* history: more memories were active than a setting in use allowed
    lost       \* history: an active memory was superseded by one that was not stored

historyVars == <<highest, expiries, started, erased, exceeded, lost>>
vars == <<memory, limit, request, historyVars>>

Status == {"absent", "proposed", "active", "archived", "rejected", "deleted"}
Row == [status : Status, text : Texts \cup {Redacted}, expired : BOOLEAN]
NoRow == [status |-> "absent", text |-> Redacted, expired |-> FALSE]

Edits == {"confirm", "reject", "archive", "restore", "update", "delete"}

\* "explicit": active at once, or an error at the limit; "remembered": by a chat turn, which
\* catches the error; "extracted": active if the limit allows it, else proposed; each of them
\* becomes "proposed" if it has to be confirmed.
Kinds == {"explicit", "remembered", "extracted"}
Creations == Kinds \cup {"proposed"}

\* The program points of a request: a creation searches (for what it supersedes), any that is
\* going to activate a memory counts, all write and commit.
Request == [op : {"none"} \cup Creations \cup Edits, pc : {"search", "count", "write", "giveup"},
            target : SUBSET Memories, saw : Texts \cup {Redacted}, text : Texts \cup {Redacted},
            renews : BOOLEAN, superseded : SUBSET Memories, max : {0} \cup Limits]
NoRequest == [op |-> "none", pc |-> "search", target |-> {}, saw |-> Redacted, text |-> Redacted,
              renews |-> FALSE, superseded |-> {}, max |-> 0]

Init ==
    /\ memory = [m \in Memories |-> NoRow]
    /\ limit \in Limits
    /\ request = [r \in Requests |-> NoRequest]
    /\ highest = limit
    /\ expiries = 0
    /\ started = 0
    /\ erased = {}
    /\ exceeded = FALSE
    /\ lost = FALSE

\* What the count, and every query for active memories, sees.
Active(rows) == {m \in DOMAIN rows : rows[m].status = "active" /\ ~rows[m].expired}
Live(rows) == Active(rows) \cup {m \in DOMAIN rows : rows[m].status = "proposed" /\ ~rows[m].expired}

\* The rows a transaction has written and not committed are locked.
Locked(m) == \E r \in Requests : request[r].op \in Creations /\ m \in request[r].superseded

-----------------------------------------------------------------------------
(* create_memory, remember_explicit, propose_candidate, automatic extraction *)

StartRequest(r, q) ==
    /\ request[r].op = "none"
    /\ started < MaxStarted
    /\ started' = started + 1
    /\ request' = [request EXCEPT ![r] = q]
    /\ UNCHANGED <<memory, limit, highest, expiries, erased, exceeded, lost>>

\* The settings, and the search for an identical memory.
StartCreation(r, kind, t) ==
    /\ ~ \E m \in Live(memory) : memory[m].text = t
    /\ StartRequest(r, [NoRequest EXCEPT !.op = kind, !.text = t, !.max = limit])

\* Rows with a close embedding; there may be none of the new text, or of the row.
NearDuplicates(t) ==
    {m \in Live(memory) : memory[m].text = t \/ {memory[m].text, t} \in Related}

\* Active preferences that _looks_like_conflict finds on the same topic.
Conflicting(t) ==
    {m \in Active(memory) : t \in Preferences /\ {memory[m].text, t} \in Related}

Proposed(q) == [q EXCEPT !.op = "proposed", !.pc = "write", !.max = 0]

\* A near-duplicate preference is superseded; any other one refuses the creation.
Supersede(r) ==
    /\ request[r].op \in Creations
    /\ request[r].pc = "search"
    /\ \E near \in SUBSET NearDuplicates(request[r].text) :
         LET t == request[r].text
             gone == near \cup Conflicting(t)
         IN  IF near # {} /\ t \notin Preferences
             THEN request' = [request EXCEPT ![r] = NoRequest]
             ELSE /\ \A m \in gone : ~Locked(m)
                  /\ \/ request' = [request EXCEPT ![r].superseded = gone, ![r].pc = "count"]
                     \/ request' = [request EXCEPT ![r] = Proposed(@), ![r].superseded = gone]
    /\ UNCHANGED <<memory, limit, historyVars>>

\* Mutant: the count is taken as if nothing had been superseded yet.
CountedBeside(r) == Active(memory)

\* A transaction sees what it has superseded itself.
CountedBy(r) == Active(memory) \ request[r].superseded

\* Mutant: one too many.
AtLimitExceeded(n, max) == n > max

AtLimit(n, max) == n >= max

\* At the limit, an explicit creation, a confirmation and a restoration fail.
CountActive(r) ==
    /\ request[r].op # "none"
    /\ request[r].pc = "count"
    /\ request' = [request EXCEPT ![r] =
          IF ~AtLimit(Cardinality(CountedBy(r)), @.max) THEN [@ EXCEPT !.pc = "write", !.max = 0]
          ELSE CASE @.op = "extracted" -> Proposed(@)
                 [] @.op = "remembered" -> [@ EXCEPT !.pc = "giveup", !.max = 0]
                 [] OTHER -> NoRequest]
    /\ UNCHANGED <<memory, limit, historyVars>>

Archive(rows, gone) ==
    [m \in DOMAIN rows |-> IF m \in gone THEN [rows[m] EXCEPT !.status = "archived"] ELSE rows[m]]

\* History: more memories are active than the setting, or one a request goes by, allows.
Over(rows, n) ==
    \E max \in {n} \cup {request[q].max : q \in {q \in Requests : request[q].max # 0}} :
        Cardinality(Active(rows)) > max

Commit(rows) ==
    /\ memory' = rows
    /\ exceeded' = (exceeded \/ Over(rows, limit))

StoreCreation(r, m) ==
    /\ request[r].op \in Creations
    /\ request[r].pc = "write"
    /\ memory[m].status = "absent"
    /\ Commit([Archive(memory, request[r].superseded) EXCEPT ![m] =
           [status |-> IF request[r].op = "proposed" THEN "proposed" ELSE "active",
            text |-> request[r].text, expired |-> FALSE]])
    /\ request' = [request EXCEPT ![r] = NoRequest]
    /\ UNCHANGED <<limit, highest, expiries, started, erased, lost>>

\* The chat turn catches the error and commits what the transaction has written.
GiveUpRemembering(r) ==
    /\ request[r].pc = "giveup"
    /\ Commit(Archive(memory, request[r].superseded))
    /\ lost' = (lost \/ request[r].superseded \cap Active(memory) # {})
    /\ request' = [request EXCEPT ![r] = NoRequest]
    /\ UNCHANGED <<limit, highest, expiries, started, erased>>

-----------------------------------------------------------------------------
(* Edits of one memory *)

\* Mutant: get_owned also finds deleted memories.
EditableEver(op, row) ==
    CASE op = "confirm" -> row.status = "proposed"
      [] op = "reject" -> row.status \in {"proposed", "active"}
      [] op = "archive" -> row.status = "active"
      [] op = "restore" -> row.status = "archived"
      [] op = "update" -> row.status \notin {"absent", "rejected"}
      [] op = "delete" -> row.status \notin {"absent", "deleted"}

\* get_owned finds the memory, and its status allows the edit.
Editable(op, row) ==
    CASE op = "confirm" -> row.status = "proposed"
      [] op = "reject" -> row.status \in {"proposed", "active"}
      [] op = "archive" -> row.status = "active"
      [] op = "restore" -> row.status = "archived"
      [] op = "update" -> row.status \notin {"absent", "rejected", "deleted"}
      [] op = "delete" -> row.status \notin {"absent", "deleted"}

Activations == {"confirm", "restore"}

\* An edit of the expiry date leaves the text; other edits that do so change nothing here.
NewTexts(op, row, renews) ==
    IF op # "update" THEN {Redacted} ELSE IF renews THEN {row.text} ELSE Texts \ {row.text}

LoadedText(op, row) == IF op \in {"update", "delete"} THEN row.text ELSE Redacted

\* What an edit keeps of what it loaded, with the setting a confirmation or a restoration reads.
EditRequest(op, m, row, t, renews) ==
    [op |-> op, pc |-> IF op \in Activations THEN "count" ELSE "write", target |-> {m},
     saw |-> LoadedText(op, row), text |-> t, renews |-> renews, superseded |-> {},
     max |-> IF op \in Activations THEN limit ELSE 0]

LoadMemory(r, op, m) ==
    /\ Editable(op, memory[m])
    /\ \E renews \in (IF op = "update" THEN BOOLEAN ELSE {FALSE}) :
       \E t \in NewTexts(op, memory[m], renews) :
         StartRequest(r, EditRequest(op, m, memory[m], t, renews))

Column(current, loaded, new) == IF new = loaded THEN current ELSE new

\* The columns the edit has changed; the rest keep what others have written.
Edited(row, q) ==
    CASE q.op \in Activations -> [row EXCEPT !.status = "active"]
      [] q.op = "reject" -> [row EXCEPT !.status = "rejected"]
      [] q.op = "archive" -> [row EXCEPT !.status = "archived"]
      [] q.op = "delete" -> [row EXCEPT !.status = "deleted", !.text = Column(@, q.saw, Redacted)]
      [] q.op = "update" -> [row EXCEPT !.text = Column(@, q.saw, q.text),
                                        !.expired = IF q.renews THEN FALSE ELSE @]

\* Requests that have loaded m, or are about to supersede it, and may write it later.
MayStillWrite(m, r) ==
    \E q \in Requests \ {r} : m \in request[q].target \cup request[q].superseded

\* History: the deletion redacts what it has loaded, and nobody else is about to write.
Erases(r, m) == request[r].op = "delete" /\ request[r].saw # Redacted /\ ~MayStillWrite(m, r)

CommitEdit(r, m) ==
    /\ request[r].op \in Edits
    /\ request[r].pc = "write"
    /\ request[r].target = {m}
    /\ ~Locked(m)
    /\ Commit([memory EXCEPT ![m] = Edited(@, request[r])])
    /\ erased' = IF Erases(r, m) THEN erased \cup {m} ELSE erased
    /\ request' = [request EXCEPT ![r] = NoRequest]
    /\ UNCHANGED <<limit, highest, expiries, started, lost>>

\* An error, a disconnect or a crash rolls the transaction back.
Rollback(r) ==
    /\ request[r].op # "none"
    /\ request' = [request EXCEPT ![r] = NoRequest]
    /\ UNCHANGED <<memory, limit, historyVars>>

-----------------------------------------------------------------------------
UpdateSettings(n) ==
    /\ limit # n
    /\ limit' = n
    /\ highest' = IF n > highest THEN n ELSE highest
    /\ exceeded' = (exceeded \/ Over(memory, n))
    /\ UNCHANGED <<memory, request, expiries, started, erased, lost>>

\* expires_at passes; nothing changes the status of the row.
Expire(m) ==
    /\ memory[m].status \in {"proposed", "active", "archived"}
    /\ ~memory[m].expired
    /\ expiries < MaxExpiries
    /\ expiries' = expiries + 1
    /\ memory' = [memory EXCEPT ![m].expired = TRUE]
    /\ UNCHANGED <<limit, highest, request, started, erased, exceeded, lost>>

RequestStep(r) ==
    \/ \E kind \in Kinds, t \in Texts : StartCreation(r, kind, t)
    \/ Supersede(r) \/ CountActive(r) \/ GiveUpRemembering(r) \/ Rollback(r)
    \/ \E m \in Memories : StoreCreation(r, m) \/ CommitEdit(r, m)
    \/ \E op \in Edits, m \in Memories : LoadMemory(r, op, m)

Next ==
    \/ \E r \in Requests : RequestStep(r)
    \/ \E n \in Limits : UpdateSettings(n)
    \/ \E m \in Memories : Expire(m)

Spec == Init /\ [][Next]_vars

-----------------------------------------------------------------------------
(* Properties *)

\* Every variable has its type, and a request is at a program point of its operation.
TypeOK ==
    /\ memory \in [Memories -> Row]
    /\ limit \in Limits
    /\ highest \in Limits
    /\ request \in [Requests -> Request]
    /\ \A r \in Requests : request[r].pc = "giveup" => request[r].op = "remembered"
    /\ \A r \in Requests : request[r].op \in Edits => Cardinality(request[r].target) = 1
    /\ expiries \in Nat
    /\ started \in Nat
    /\ erased \subseteq Memories
    /\ exceeded \in BOOLEAN
    /\ lost \in BOOLEAN

\* The limit was exceeded by no more than the requests that may overlap the one that
\* activates a memory, and the expired memories that an edit may have brought back: the limit
\* is looked up and counted without a lock, and an edit of the expiry date ignores it.
ActiveWithinLimit ==
    Cardinality(Active(memory)) <= highest + (Cardinality(Requests) - 1) + expiries

\* A memory that was deleted stays deleted and redacted, whatever requests come later, unless
\* one that had loaded it before the deletion writes it afterwards.
DeletedStaysRedacted ==
    \A m \in erased : memory[m].status = "deleted" /\ memory[m].text = Redacted

\* A chat turn that cannot store the memory it was told gives up none of those that are in
\* use, as long as the limit was respected: what it supersedes makes room for it.
NothingLostWithinLimit == lost => exceeded

-----------------------------------------------------------------------------
(* The inductive invariant behind ActiveWithinLimit *)

InUse(rows) == {m \in DOMAIN rows : rows[m].status = "active"}
Expired(rows) == {m \in DOMAIN rows : rows[m].expired}

\* Requests that have passed the count and are about to activate a memory.
Activating(reqs) ==
    {r \in DOMAIN reqs : /\ reqs[r].pc = "write"
                         /\ reqs[r].op \in Kinds \cup Activations}

\* What is in use once the requests in some have committed, and no other has.
InUseAfter(rows, reqs, some) ==
    Cardinality(InUse(rows) \ UNION {reqs[r].superseded : r \in some}) + Cardinality(some)

\* Whichever of the requests that passed the count commit, the bound holds.
LimitInv ==
    /\ limit <= highest
    /\ \A r \in Requests : request[r].max <= highest
    /\ \A r \in Requests : request[r].op \in Edits => request[r].superseded = {}
    /\ Cardinality(Expired(memory)) <= expiries
    /\ \A some \in SUBSET Activating(request) :
          InUseAfter(memory, request, some) <= highest + (Cardinality(Requests) - 1) + expiries

\* The inductive invariant behind DeletedStaysRedacted: nobody is left who could write it.
DeletedInv ==
    \A m \in erased :
        /\ memory[m].status = "deleted"
        /\ memory[m].text = Redacted
        /\ \A r \in Requests : m \notin request[r].target \cup request[r].superseded

\* While the limit is respected there is room under every setting in use, and what a turn that
\* was refused room supersedes is out of use: without it there would still be no room.
RoomKept ==
    /\ Cardinality(Active(memory)) <= limit
    /\ \A r \in Requests : request[r].max # 0 => Cardinality(Active(memory)) <= request[r].max
    /\ \A r \in Requests : request[r].pc = "giveup" =>
          request[r].superseded \cap Active(memory) = {}

\* The inductive invariant behind NothingLostWithinLimit; a row once written is never absent
\* again, so no creation can bring a superseded one back into use.
LossInv ==
    /\ NothingLostWithinLimit
    /\ \A r \in Requests : \A m \in request[r].superseded : memory[m].status # "absent"
    /\ \A r \in Requests :
          request[r].op # "none" /\ request[r].pc \in {"search", "count"} => request[r].max # 0
    /\ ~exceeded => RoomKept
=============================================================================

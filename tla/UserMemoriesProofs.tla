-------------------------- MODULE UserMemoriesProofs --------------------------
(* Theorems about UserMemories: its type invariant, and the bound on the      *)
(* memories in use for every limit, every number of requests and any          *)
(* interleaving of them.                                                      *)
EXTENDS UserMemories, TLAPS, FiniteSetTheorems

-----------------------------------------------------------------------------
(* Types *)

LEMMA NoRequestType == NoRequest \in Request
BY DEF NoRequest, Request

LEMMA StartType ==
    ASSUME TypeOK, NEW r \in Requests, NEW q \in Request, StartRequest(r, q),
           q.pc # "giveup", q.op \in Edits => Cardinality(q.target) = 1
    PROVE  TypeOK'
BY DEF StartRequest, TypeOK

LEMMA EndType ==
    ASSUME TypeOK, NEW r \in Requests, request' = [request EXCEPT ![r] = NoRequest]
    PROVE  /\ request' \in [Requests -> Request]
           /\ \A q \in Requests : request'[q].pc = "giveup" => request'[q].op = "remembered"
           /\ \A q \in Requests : request'[q].op \in Edits => Cardinality(request'[q].target) = 1
BY NoRequestType DEF TypeOK, NoRequest, Edits

LEMMA ProposedType ==
    ASSUME NEW q \in Request
    PROVE  Proposed(q) \in Request
BY DEF Proposed, Request, Creations

LEMMA StartCreationType ==
    ASSUME TypeOK, NEW r \in Requests, NEW kind \in Kinds, NEW t \in Texts,
           StartCreation(r, kind, t)
    PROVE  TypeOK'
<1> DEFINE q == [NoRequest EXCEPT !.op = kind, !.text = t, !.max = limit]
<1>1. q \in Request /\ q.pc # "giveup" /\ q.op \notin Edits
  BY DEF NoRequest, Request, TypeOK, Kinds, Creations, Edits
<1> QED
  BY <1>1, StartType DEF StartCreation

LEMMA LoadMemoryType ==
    ASSUME TypeOK, NEW r \in Requests, NEW op \in Edits, NEW m \in Memories, LoadMemory(r, op, m)
    PROVE  TypeOK'
<1>1. PICK renews \in BOOLEAN : \E t \in NewTexts(op, memory[m], renews) :
        StartRequest(r, EditRequest(op, m, memory[m], t, renews))
  BY DEF LoadMemory
<1>7. PICK t \in NewTexts(op, memory[m], renews) :
        StartRequest(r, EditRequest(op, m, memory[m], t, renews))
  BY <1>1
<1> DEFINE q == EditRequest(op, m, memory[m], t, renews)
<1>2. memory[m].text \in Texts \cup {Redacted} /\ limit \in Limits
  BY DEF TypeOK, Row
<1>3. t \in Texts \cup {Redacted} /\ LoadedText(op, memory[m]) \in Texts \cup {Redacted}
  BY <1>7, <1>2 DEF NewTexts, LoadedText
<1>4. q \in Request /\ q.pc # "giveup" /\ q.target = {m}
  BY <1>2, <1>3 DEF EditRequest, Request
<1>5. Cardinality({m}) = 1
  BY FS_Singleton
<1> HIDE DEF q
<1>6. StartRequest(r, q)
  BY <1>7 DEF q
<1> QED
  BY <1>4, <1>5, <1>6, StartType

LEMMA SupersedeType ==
    ASSUME TypeOK, NEW r \in Requests, Supersede(r)
    PROVE  TypeOK'
<1>1. PICK near \in SUBSET NearDuplicates(request[r].text) :
        \/ request' = [request EXCEPT ![r] = NoRequest]
        \/ \E gone : /\ gone = near \cup Conflicting(request[r].text)
                     /\ \/ request' = [request EXCEPT ![r].superseded = gone, ![r].pc = "count"]
                        \/ request' = [request EXCEPT ![r] = Proposed(@), ![r].superseded = gone]
  BY DEF Supersede
<1>2. near \cup Conflicting(request[r].text) \in SUBSET Memories
  BY DEF NearDuplicates, Conflicting, Live, Active, TypeOK
<1>3. UNCHANGED <<memory, limit, historyVars>>
  BY DEF Supersede
<1>4. request[r] \in Request /\ request[r].op \notin Edits
  BY DEF Supersede, TypeOK, Creations, Kinds, Edits
<1>5. CASE request' = [request EXCEPT ![r] = NoRequest]
  BY <1>3, <1>5, EndType DEF TypeOK, historyVars
<1>6. ASSUME NEW gone \in SUBSET Memories,
             request' = [request EXCEPT ![r].superseded = gone, ![r].pc = "count"]
      PROVE  TypeOK'
  <2>1. request'[r] \in Request /\ request'[r].op \notin Edits /\ request'[r].pc # "giveup"
    BY <1>4, <1>6 DEF TypeOK, Request
  <2> QED
    BY <1>3, <1>6, <2>1 DEF TypeOK, historyVars
<1>7. ASSUME NEW gone \in SUBSET Memories,
             request' = [request EXCEPT ![r] = Proposed(@), ![r].superseded = gone]
      PROVE  TypeOK'
  <2>1. request'[r] \in Request /\ request'[r].op \notin Edits /\ request'[r].pc # "giveup"
    BY <1>4, <1>7 DEF TypeOK, Request, Proposed, Creations, Edits
  <2> QED
    BY <1>3, <1>7, <2>1 DEF TypeOK, historyVars
<1> QED
  BY <1>1, <1>2, <1>5, <1>6, <1>7

LEMMA CountActiveType ==
    ASSUME TypeOK, NEW r \in Requests, CountActive(r)
    PROVE  TypeOK'
<1>1. request[r] \in Request
  BY DEF TypeOK
<1>2. UNCHANGED <<memory, limit, historyVars>>
  BY DEF CountActive
<1>3. \/ request' = [request EXCEPT ![r] = [request[r] EXCEPT !.pc = "write", !.max = 0]]
      \/ request[r].op = "extracted" /\ request' = [request EXCEPT ![r] = Proposed(request[r])]
      \/ request[r].op = "remembered"
         /\ request' = [request EXCEPT ![r] = [request[r] EXCEPT !.pc = "giveup", !.max = 0]]
      \/ request' = [request EXCEPT ![r] = NoRequest]
  BY <1>1 DEF CountActive, TypeOK
<1>4. [request[r] EXCEPT !.pc = "write", !.max = 0] \in Request
  BY <1>1 DEF Request
<1>5. [request[r] EXCEPT !.pc = "giveup", !.max = 0] \in Request
  BY <1>1 DEF Request
<1>6. Proposed(request[r]) \in Request /\ Proposed(request[r]).op = "proposed" /\ Proposed(request[r]).pc = "write"
  BY <1>1, ProposedType DEF Proposed, Request
<1>7. \A q \in Request : /\ [q EXCEPT !.pc = "write", !.max = 0].op = q.op
                         /\ [q EXCEPT !.pc = "write", !.max = 0].pc = "write"
                         /\ [q EXCEPT !.pc = "write", !.max = 0].target = q.target
                         /\ [q EXCEPT !.pc = "giveup", !.max = 0].op = q.op
                         /\ [q EXCEPT !.pc = "giveup", !.max = 0].target = q.target
  BY DEF Request
<1>8. CASE request' = [request EXCEPT ![r] = [request[r] EXCEPT !.pc = "write", !.max = 0]]
  BY <1>1, <1>2, <1>4, <1>7, <1>8 DEF TypeOK, historyVars
<1>9. CASE request[r].op = "extracted" /\ request' = [request EXCEPT ![r] = Proposed(request[r])]
  BY <1>1, <1>2, <1>6, <1>9 DEF TypeOK, historyVars, Edits
<1>10. CASE request[r].op = "remembered"
            /\ request' = [request EXCEPT ![r] = [request[r] EXCEPT !.pc = "giveup", !.max = 0]]
  BY <1>1, <1>2, <1>5, <1>7, <1>10 DEF TypeOK, historyVars, Edits
<1>11. CASE request' = [request EXCEPT ![r] = NoRequest]
  BY <1>2, <1>11, EndType DEF TypeOK, historyVars
<1> QED
  BY <1>3, <1>8, <1>9, <1>10, <1>11

LEMMA ArchiveType ==
    ASSUME NEW rows \in [Memories -> Row], NEW gone
    PROVE  Archive(rows, gone) \in [Memories -> Row]
BY DEF Archive, Row, Status

LEMMA StoreCreationType ==
    ASSUME TypeOK, NEW r \in Requests, NEW m \in Memories, StoreCreation(r, m)
    PROVE  TypeOK'
<1> DEFINE row == [status |-> IF request[r].op = "proposed" THEN "proposed" ELSE "active",
                   text |-> request[r].text, expired |-> FALSE]
           rows == Archive(memory, request[r].superseded)
<1>1. row \in Row
  BY DEF TypeOK, Request, Row, Status
<1>2. rows \in [Memories -> Row]
  BY ArchiveType DEF TypeOK
<1>3. memory' = [rows EXCEPT ![m] = row]
  BY DEF StoreCreation, Commit
<1> HIDE DEF row, rows
<1>4. memory' \in [Memories -> Row]
  BY <1>1, <1>2, <1>3
<1>5. /\ UNCHANGED <<limit, highest, expiries, started, erased, lost>>
      /\ exceeded' \in BOOLEAN
      /\ request' = [request EXCEPT ![r] = NoRequest]
  BY DEF StoreCreation, Commit, TypeOK
<1> QED
  BY <1>4, <1>5, EndType DEF TypeOK

LEMMA GiveUpRememberingType ==
    ASSUME TypeOK, NEW r \in Requests, GiveUpRemembering(r)
    PROVE  TypeOK'
<1>1. memory' \in [Memories -> Row]
  BY ArchiveType DEF GiveUpRemembering, Commit, TypeOK
<1>2. /\ UNCHANGED <<limit, highest, expiries, started, erased>>
      /\ exceeded' \in BOOLEAN /\ lost' \in BOOLEAN
      /\ request' = [request EXCEPT ![r] = NoRequest]
  BY DEF GiveUpRemembering, Commit, TypeOK
<1> QED
  BY <1>1, <1>2, EndType DEF TypeOK

LEMMA EditedType ==
    ASSUME NEW row \in Row, NEW q \in Request, q.op \in Edits
    PROVE  Edited(row, q) \in Row
BY DEF Edited, Row, Request, Status, Column, Edits, Activations

LEMMA CommitEditType ==
    ASSUME TypeOK, NEW r \in Requests, NEW m \in Memories, CommitEdit(r, m)
    PROVE  TypeOK'
<1>1. Edited(memory[m], request[r]) \in Row
  BY EditedType DEF CommitEdit, TypeOK
<1>2. memory' = [memory EXCEPT ![m] = Edited(memory[m], request[r])]
  BY DEF CommitEdit, Commit
<1>3. memory' \in [Memories -> Row]
  BY <1>1, <1>2 DEF TypeOK
<1>4. /\ UNCHANGED <<limit, highest, expiries, started, lost>>
      /\ exceeded' \in BOOLEAN /\ erased' \subseteq Memories
      /\ request' = [request EXCEPT ![r] = NoRequest]
  BY DEF CommitEdit, Commit, TypeOK
<1> QED
  BY <1>3, <1>4, EndType DEF TypeOK

LEMMA TypeStep ==
    ASSUME TypeOK, [Next]_vars
    PROVE  TypeOK'
<1>1. CASE UNCHANGED vars
  BY <1>1 DEF vars, historyVars, TypeOK
<1>2. ASSUME NEW r \in Requests, Rollback(r)
      PROVE  TypeOK'
  BY <1>2, EndType DEF Rollback, historyVars, TypeOK
<1>3. ASSUME NEW r \in Requests, RequestStep(r)
      PROVE  TypeOK'
  BY <1>2, <1>3, StartCreationType, SupersedeType, CountActiveType, GiveUpRememberingType,
     StoreCreationType, CommitEditType, LoadMemoryType DEF RequestStep
<1>4. ASSUME NEW n \in Limits, UpdateSettings(n)
      PROVE  TypeOK'
  BY <1>4 DEF UpdateSettings, TypeOK
<1>5. ASSUME NEW m \in Memories, Expire(m)
      PROVE  TypeOK'
  <2>1. memory[m] \in Row /\ memory \in [Memories -> Row]
    BY DEF TypeOK
  <2>2. [memory[m] EXCEPT !.expired = TRUE] \in Row
    BY <2>1 DEF Row
  <2>3. memory' = [memory EXCEPT ![m] = [memory[m] EXCEPT !.expired = TRUE]]
    BY <1>5 DEF Expire
  <2>4. memory' \in [Memories -> Row]
    BY <2>1, <2>2, <2>3
  <2> QED
    BY <1>5, <2>4 DEF Expire, TypeOK
<1>6. CASE Next
  BY <1>3, <1>4, <1>5, <1>6 DEF Next
<1> QED
  BY <1>1, <1>6

LEMMA TypeInit == Init => TypeOK
<1> SUFFICES ASSUME Init PROVE TypeOK
  OBVIOUS
<1>1. NoRow \in Row
  BY DEF NoRow, Row, Status
<1>2. NoRequest.pc = "search" /\ NoRequest.op \notin Edits
  BY DEF NoRequest, Edits
<1> QED
  BY <1>1, <1>2, NoRequestType DEF Init, TypeOK

\* Every reachable state is well typed, for any memories, requests, texts and limits: whatever
\* a request loaded or counted before others committed (memory/service.py).
THEOREM MemoriesTypeCorrect == Spec => []TypeOK
BY TypeInit, TypeStep, PTL DEF Spec

-----------------------------------------------------------------------------
(* The bound on the memories in use *)

Bound == highest + (Cardinality(Requests) - 1) + expiries

\* The memories the requests in some are going to archive.
Given(reqs, some) == UNION {reqs[r].superseded : r \in some}

Bounded == \A some \in SUBSET Activating(request) : InUseAfter(memory, request, some) <= Bound

LEMMA FiniteMemories ==
    ASSUME NEW S \in SUBSET Memories
    PROVE  IsFiniteSet(S) /\ Cardinality(S) \in Nat
BY FiniteAssumption, FS_Subset, FS_CardinalityType

LEMMA FiniteRequests ==
    ASSUME NEW S \in SUBSET Requests
    PROVE  /\ IsFiniteSet(S) /\ Cardinality(S) \in Nat
           /\ Cardinality(S) <= Cardinality(Requests)
           /\ Cardinality(Requests) \in Nat
BY FiniteAssumption, FS_Subset, FS_CardinalityType

LEMMA FewerMemories ==
    ASSUME NEW S \in SUBSET Memories, NEW T \in SUBSET S
    PROVE  Cardinality(T) <= Cardinality(S)
BY FiniteMemories, FS_Subset

LEMMA OneMoreMemory ==
    ASSUME NEW S \in SUBSET Memories, NEW m \in Memories, NEW T \in SUBSET (S \cup {m})
    PROVE  Cardinality(T) <= Cardinality(S) + 1
<1>1. Cardinality(T) <= Cardinality(S \cup {m})
  BY FewerMemories
<1>2. Cardinality(S \cup {m}) <= Cardinality(S) + 1
  BY FiniteMemories, FS_AddElement
<1>3. Cardinality(T) \in Nat /\ Cardinality(S) \in Nat /\ Cardinality(S \cup {m}) \in Nat
  BY FiniteMemories
<1> QED
  BY <1>1, <1>2, <1>3

LEMMA InUseType ==
    ASSUME TypeOK
    PROVE  /\ InUse(memory) \subseteq Memories
           /\ Expired(memory) \subseteq Memories
           /\ Active(memory) \subseteq Memories
           /\ Activating(request) \subseteq Requests
BY DEF TypeOK, InUse, Expired, Active, Activating

LEMMA MaxType ==
    ASSUME TypeOK, NEW r \in Requests
    PROVE  request[r].max \in Nat
<1>1. request[r] \in Request
  BY DEF TypeOK
<1>2. request[r].max = 0 \/ request[r].max \in Limits
  BY <1>1 DEF Request
<1>3. \A n \in Limits : n \in Nat
  BY LimitsAssumption
<1> QED
  BY <1>2, <1>3

LEMMA BoundType ==
    ASSUME TypeOK
    PROVE  Bound \in Int /\ highest \in Nat \ {0} /\ expiries \in Nat
BY FiniteRequests, LimitsAssumption DEF Bound, TypeOK

\* A step that lets no request pass the count and adds no memory to those in use.
LEMMA QuietStep ==
    ASSUME TypeOK, TypeOK', Bounded,
           Activating(request)' \subseteq Activating(request),
           \A r \in Activating(request)' : request'[r].superseded = request[r].superseded,
           InUse(memory)' \subseteq InUse(memory),
           Bound <= Bound'
    PROVE  Bounded'
<1> SUFFICES ASSUME NEW some \in SUBSET Activating(request)'
             PROVE  InUseAfter(memory', request', some) <= Bound'
  BY DEF Bounded
<1>1. some \in SUBSET Activating(request)
  OBVIOUS
<1>2. InUseAfter(memory, request, some) <= Bound
  BY <1>1 DEF Bounded
<1>3. Given(request', some) = Given(request, some)
  BY DEF Given
<1>4. InUse(memory') \ Given(request', some) \in SUBSET (InUse(memory) \ Given(request, some))
  BY <1>3
<1>5. InUse(memory) \ Given(request, some) \in SUBSET Memories
  BY InUseType
<1>6. Cardinality(InUse(memory') \ Given(request', some))
        <= Cardinality(InUse(memory) \ Given(request, some))
  BY <1>4, <1>5, FewerMemories
<1>7. InUse(memory') \ Given(request', some) \in SUBSET Memories
  BY <1>4, <1>5
<1>8. /\ Cardinality(InUse(memory') \ Given(request', some)) \in Nat
      /\ Cardinality(InUse(memory) \ Given(request, some)) \in Nat
      /\ Cardinality(some) \in Nat
  BY <1>1, <1>5, <1>7, FiniteMemories, FiniteRequests, InUseType
<1>9. Bound \in Int /\ Bound' \in Int
  <2>1. Bound \in Int
    BY BoundType
  <2>2. Bound' \in Int
    BY FiniteRequests, LimitsAssumption DEF Bound, TypeOK
  <2> QED
    BY <2>1, <2>2
<1> QED
  BY <1>2, <1>6, <1>8, <1>9 DEF InUseAfter, Given

\* A request that passed the count activates its memory.
LEMMA ActivationStep ==
    ASSUME TypeOK, TypeOK', Bounded, NEW r \in Activating(request), NEW m \in Memories,
           Activating(request)' \subseteq Activating(request) \ {r},
           \A q \in Activating(request)' : request'[q].superseded = request[q].superseded,
           InUse(memory)' \subseteq (InUse(memory) \ request[r].superseded) \cup {m},
           Bound' = Bound
    PROVE  Bounded'
<1> SUFFICES ASSUME NEW some \in SUBSET Activating(request)'
             PROVE  InUseAfter(memory', request', some) <= Bound
  BY DEF Bounded
<1> DEFINE all == some \cup {r}
<1>1. all \in SUBSET Activating(request) /\ r \notin some /\ some \in SUBSET Requests
  BY InUseType
<1>2. InUseAfter(memory, request, all) <= Bound
  BY <1>1 DEF Bounded
<1>3. /\ Given(request', some) = Given(request, some)
      /\ Given(request, all) = Given(request, some) \cup request[r].superseded
  BY DEF Given
<1>4. InUse(memory') \ Given(request', some)
        \in SUBSET ((InUse(memory) \ Given(request, all)) \cup {m})
  BY <1>3
<1>5. InUse(memory) \ Given(request, all) \in SUBSET Memories
  BY InUseType
<1>6. Cardinality(InUse(memory') \ Given(request', some))
        <= Cardinality(InUse(memory) \ Given(request, all)) + 1
  BY <1>4, <1>5, OneMoreMemory
<1>7. Cardinality(all) = Cardinality(some) + 1
  BY <1>1, FiniteRequests, FS_AddElement
<1>8. InUse(memory') \ Given(request', some) \in SUBSET Memories
  BY <1>4, <1>5
<1>9. /\ Cardinality(InUse(memory') \ Given(request', some)) \in Nat
      /\ Cardinality(InUse(memory) \ Given(request, all)) \in Nat
      /\ Cardinality(some) \in Nat
  BY <1>1, <1>5, <1>8, FiniteMemories, FiniteRequests
<1>10. Bound \in Int
  BY BoundType
<1> HIDE DEF all
<1> QED
  BY <1>2, <1>6, <1>7, <1>9, <1>10 DEF InUseAfter, Given

\* The other parts of the invariant: what requests hold, and how many memories are expired.
Held ==
    /\ limit <= highest
    /\ \A r \in Requests : request[r].max <= highest
    /\ \A r \in Requests : request[r].op \in Edits => request[r].superseded = {}
    /\ Cardinality(Expired(memory)) <= expiries

LEMMA LimitInvParts ==
    /\ LimitInv <=> Held /\ Bounded
    /\ LimitInv' <=> Held' /\ Bounded'
BY DEF LimitInv, Held, Bounded, Bound

LEMMA FewerExpired ==
    ASSUME TypeOK, Held, Expired(memory)' \subseteq Expired(memory), UNCHANGED expiries
    PROVE  Cardinality(Expired(memory)') <= expiries'
<1>1. Cardinality(Expired(memory)') <= Cardinality(Expired(memory))
  BY InUseType, FewerMemories
<1>2. Cardinality(Expired(memory)') \in Nat /\ Cardinality(Expired(memory)) \in Nat
  BY InUseType, FiniteMemories
<1> QED
  BY <1>1, <1>2 DEF Held, TypeOK

\* A step of a request that changes the request alone, and does not pass the count.
LEMMA WaitingStep ==
    ASSUME TypeOK, TypeOK', LimitInv, NEW r \in Requests, NEW q \in Request,
           request' = [request EXCEPT ![r] = q],
           UNCHANGED <<memory, limit, highest, expiries>>,
           ~(q.pc = "write" /\ q.op \in Kinds \cup Activations),
           q.max <= highest,
           q.op \in Edits => q.superseded = {}
    PROVE  LimitInv'
<1>1. Held'
  <2>1. Held /\ request \in [Requests -> Request]
    BY LimitInvParts DEF TypeOK
  <2>2. \A p \in Requests : request'[p] = IF p = r THEN q ELSE request[p]
    BY <2>1
  <2>3. \A p \in Requests : request'[p].max <= highest
    BY <2>1, <2>2 DEF Held
  <2>4. \A p \in Requests : request'[p].op \in Edits => request'[p].superseded = {}
    BY <2>1, <2>2 DEF Held
  <2>5. limit' <= highest' /\ Cardinality(Expired(memory')) <= expiries'
    BY <2>1 DEF Held
  <2> QED
    BY <2>3, <2>4, <2>5 DEF Held
<1>2. Activating(request)' \subseteq Activating(request)
  BY DEF Activating, TypeOK
<1>3. \A p \in Activating(request)' : request'[p].superseded = request[p].superseded
  BY DEF Activating, TypeOK
<1>4. InUse(memory)' = InUse(memory) /\ Bound' = Bound
  BY DEF InUse, Bound
<1>5. Bound <= Bound'
  BY <1>4, BoundType
<1> QED
  BY <1>1, <1>2, <1>3, <1>4, <1>5, LimitInvParts, QuietStep

LEMMA NoRequestHeld ==
    ASSUME TypeOK
    PROVE  /\ NoRequest \in Request
           /\ ~(NoRequest.pc = "write" /\ NoRequest.op \in Kinds \cup Activations)
           /\ NoRequest.max <= highest
           /\ NoRequest.op \notin Edits
<1>1. NoRequest.pc = "search" /\ NoRequest.max = 0 /\ NoRequest.op = "none"
  BY DEF NoRequest
<1> QED
  BY <1>1, NoRequestType, BoundType DEF Edits

LEMMA ProposedHeld ==
    ASSUME TypeOK, NEW q \in Request
    PROVE  /\ Proposed(q) \in Request
           /\ Proposed(q).op = "proposed"
           /\ Proposed(q).max = 0 /\ Proposed(q).max <= highest
<1>1. Proposed(q).op = "proposed" /\ Proposed(q).max = 0
  BY DEF Proposed, Request
<1> QED
  BY <1>1, ProposedType, BoundType

LEMMA ProposedWaits == "proposed" \notin Kinds \cup Activations \cup Edits
BY DEF Kinds, Activations, Edits

LEMMA StartCreationLimit ==
    ASSUME TypeOK, TypeOK', LimitInv, NEW r \in Requests, NEW kind \in Kinds, NEW t \in Texts,
           StartCreation(r, kind, t)
    PROVE  LimitInv'
<1> DEFINE q == [NoRequest EXCEPT !.op = kind, !.text = t, !.max = limit]
<1>1. q \in Request /\ q.pc = "search" /\ q.op \notin Edits /\ q.max = limit
  BY DEF NoRequest, Request, TypeOK, Kinds, Creations, Edits
<1>2. q.max <= highest
  BY <1>1, LimitInvParts DEF Held
<1> HIDE DEF q
<1>3. request' = [request EXCEPT ![r] = q] /\ UNCHANGED <<memory, limit, highest, expiries>>
  BY DEF StartCreation, StartRequest, q
<1> QED
  BY <1>1, <1>2, <1>3, WaitingStep

LEMMA LoadMemoryLimit ==
    ASSUME TypeOK, TypeOK', LimitInv, NEW r \in Requests, NEW op \in Edits, NEW m \in Memories,
           LoadMemory(r, op, m)
    PROVE  LimitInv'
<1>1. PICK renews \in BOOLEAN : \E t \in NewTexts(op, memory[m], renews) :
        StartRequest(r, EditRequest(op, m, memory[m], t, renews))
  BY DEF LoadMemory
<1>2. PICK t \in NewTexts(op, memory[m], renews) :
        StartRequest(r, EditRequest(op, m, memory[m], t, renews))
  BY <1>1
<1> DEFINE q == EditRequest(op, m, memory[m], t, renews)
<1>3. request' = [request EXCEPT ![r] = q] /\ UNCHANGED <<memory, limit, highest, expiries>>
  BY <1>2 DEF StartRequest
<1>4. q.superseded = {} /\ q.op = op /\ q.max \in {0, limit}
  BY DEF EditRequest
<1>5. q.pc = "write" => op \notin Kinds \cup Activations
  BY DEF EditRequest, Edits, Kinds
<1>6. q.max <= highest
  BY <1>4, LimitInvParts, BoundType DEF Held
<1>7. q \in Request
  BY <1>3 DEF TypeOK
<1> HIDE DEF q
<1> QED
  BY <1>3, <1>4, <1>5, <1>6, <1>7, WaitingStep

LEMMA RollbackLimit ==
    ASSUME TypeOK, TypeOK', LimitInv, NEW r \in Requests,
           request' = [request EXCEPT ![r] = NoRequest],
           UNCHANGED <<memory, limit, highest, expiries>>
    PROVE  LimitInv'
BY NoRequestHeld, WaitingStep

LEMMA SupersedeLimit ==
    ASSUME TypeOK, TypeOK', LimitInv, NEW r \in Requests, Supersede(r)
    PROVE  LimitInv'
<1>1. /\ request[r] \in Request /\ request[r].op \notin Edits
      /\ request[r].max <= highest
      /\ UNCHANGED <<memory, limit, highest, expiries>>
  BY LimitInvParts DEF Supersede, TypeOK, Held, Creations, Kinds, Edits, historyVars
<1>2. \/ request' = [request EXCEPT ![r] = NoRequest]
      \/ \E gone : \/ request' = [request EXCEPT ![r].superseded = gone, ![r].pc = "count"]
                   \/ request' = [request EXCEPT ![r] = Proposed(@), ![r].superseded = gone]
  BY DEF Supersede
<1>3. CASE request' = [request EXCEPT ![r] = NoRequest]
  BY <1>1, <1>3, RollbackLimit
<1>4. ASSUME NEW gone, request' = [request EXCEPT ![r].superseded = gone, ![r].pc = "count"]
      PROVE  LimitInv'
  <2> DEFINE q == [[request[r] EXCEPT !.superseded = gone] EXCEPT !.pc = "count"]
  <2>1. q.pc = "count" /\ q.max = request[r].max /\ q.op = request[r].op
    BY <1>1 DEF Request
  <2>2. request' = [request EXCEPT ![r] = q]
    BY <1>4 DEF TypeOK
  <2>3. q \in Request
    <3>1. request'[r] = q
      BY <2>2 DEF TypeOK
    <3> QED
      BY <3>1 DEF TypeOK
  <2> HIDE DEF q
  <2> QED
    BY <1>1, <2>1, <2>2, <2>3, WaitingStep
<1>5. ASSUME NEW gone, request' = [request EXCEPT ![r] = Proposed(@), ![r].superseded = gone]
      PROVE  LimitInv'
  <2> DEFINE p == Proposed(request[r])
             q == [p EXCEPT !.superseded = gone]
  <2>1. p \in Request /\ p.op = "proposed" /\ p.max <= highest
    BY <1>1, ProposedHeld
  <2>2. request' = [request EXCEPT ![r] = q]
    BY <1>5 DEF TypeOK
  <2> HIDE DEF p
  <2>3. q.max = p.max /\ q.op = p.op
    BY <2>1 DEF Request
  <2>4. q \in Request
    <3>1. request'[r] = q
      BY <2>2 DEF TypeOK
    <3> QED
      BY <3>1 DEF TypeOK
  <2> HIDE DEF q
  <2> QED
    BY <1>1, <2>1, <2>2, <2>3, <2>4, ProposedWaits, WaitingStep
<1> QED
  BY <1>2, <1>3, <1>4, <1>5

LEMMA CountTransition ==
    ASSUME TypeOK, NEW r \in Requests, CountActive(r)
    PROVE  \/ /\ Cardinality(CountedBy(r)) < request[r].max
              /\ request' = [request EXCEPT ![r] = [request[r] EXCEPT !.pc = "write", !.max = 0]]
           \/ request' = [request EXCEPT ![r] = Proposed(request[r])]
           \/ /\ request[r].op = "remembered"
              /\ request' = [request EXCEPT ![r] = [request[r] EXCEPT !.pc = "giveup", !.max = 0]]
           \/ request' = [request EXCEPT ![r] = NoRequest]
<1>1. CountedBy(r) \in SUBSET Memories
  BY InUseType DEF CountedBy
<1>2. Cardinality(CountedBy(r)) \in Nat /\ request[r].max \in Nat
  BY <1>1, FiniteMemories, MaxType
<1>3. ~AtLimit(Cardinality(CountedBy(r)), request[r].max)
        => Cardinality(CountedBy(r)) < request[r].max
  BY <1>2 DEF AtLimit
<1> DEFINE q == request[r]
           free == ~AtLimit(Cardinality(CountedBy(r)), q.max)
           next == IF free THEN [q EXCEPT !.pc = "write", !.max = 0]
                   ELSE CASE q.op = "extracted" -> Proposed(q)
                          [] q.op = "remembered" -> [q EXCEPT !.pc = "giveup", !.max = 0]
                          [] OTHER -> NoRequest
<1>4. request' = [request EXCEPT ![r] = next]
  BY DEF CountActive, TypeOK
<1>5. CASE free
  BY <1>3, <1>4, <1>5
<1>6. CASE ~free
  <2>1. CASE q.op = "extracted"
    BY <1>4, <1>6, <2>1
  <2>2. CASE q.op = "remembered"
    BY <1>4, <1>6, <2>2
  <2>3. CASE q.op \notin {"extracted", "remembered"}
    BY <1>4, <1>6, <2>3
  <2> QED
    BY <2>1, <2>2, <2>3
<1> QED
  BY <1>5, <1>6

\* The count is what keeps the bound: it sees the rows in use that have not expired.
LEMMA CountActiveLimit ==
    ASSUME TypeOK, TypeOK', LimitInv, NEW r \in Requests, CountActive(r)
    PROVE  LimitInv'
<1>1. /\ request[r] \in Request /\ request \in [Requests -> Request]
      /\ request[r].max <= highest
      /\ UNCHANGED <<memory, limit, highest, expiries>>
  BY LimitInvParts DEF CountActive, TypeOK, Held, historyVars
<1>2. CASE request' = [request EXCEPT ![r] = NoRequest]
  BY <1>1, <1>2, RollbackLimit
<1>3. CASE request' = [request EXCEPT ![r] = Proposed(request[r])]
  <2>1. /\ Proposed(request[r]) \in Request
        /\ Proposed(request[r]).op = "proposed" /\ Proposed(request[r]).max <= highest
    BY <1>1, ProposedHeld
  <2> QED
    BY <1>1, <1>3, <2>1, ProposedWaits, WaitingStep
<1>4. CASE /\ request[r].op = "remembered"
           /\ request' = [request EXCEPT ![r] = [request[r] EXCEPT !.pc = "giveup", !.max = 0]]
  <2> DEFINE q == [request[r] EXCEPT !.pc = "giveup", !.max = 0]
  <2>1. q \in Request /\ q.pc = "giveup" /\ q.max = 0 /\ q.op = "remembered"
    BY <1>1, <1>4 DEF Request
  <2>2. q.max <= highest /\ q.op \notin Edits
    BY <2>1, BoundType DEF Edits
  <2> HIDE DEF q
  <2>3. request' = [request EXCEPT ![r] = q]
    BY <1>4 DEF q
  <2> QED
    BY <1>1, <2>1, <2>2, <2>3, WaitingStep
<1>5. CASE /\ Cardinality(CountedBy(r)) < request[r].max
           /\ request' = [request EXCEPT ![r] = [request[r] EXCEPT !.pc = "write", !.max = 0]]
  <2> DEFINE q == [request[r] EXCEPT !.pc = "write", !.max = 0]
  <2>1. /\ q \in Request /\ q.max = 0 /\ q.op = request[r].op
        /\ q.superseded = request[r].superseded
    BY <1>1 DEF Request
  <2> HIDE DEF q
  <2>2. \A p \in Requests : request'[p] = IF p = r THEN q ELSE request[p]
    BY <1>1, <1>5 DEF q
  <2>3. Held'
    <3>1. q.max <= highest
      BY <2>1, BoundType
    <3>2. \A p \in Requests : request'[p].max <= highest
      BY <2>2, <3>1, LimitInvParts DEF Held
    <3>3. \A p \in Requests : request'[p].op \in Edits => request'[p].superseded = {}
      BY <2>1, <2>2, LimitInvParts DEF Held
    <3>4. limit' <= highest' /\ Cardinality(Expired(memory')) <= expiries'
      BY <1>1, LimitInvParts DEF Held
    <3> QED
      BY <1>1, <3>2, <3>3, <3>4 DEF Held
  <2>4. Bounded'
    <3> SUFFICES ASSUME NEW some \in SUBSET Activating(request')
                 PROVE  InUseAfter(memory, request', some) <= Bound
      BY <1>1 DEF Bounded, Bound
    <3>1. some \in SUBSET Requests
      BY InUseType DEF Activating, TypeOK
    <3>2. Given(request', some) = Given(request, some)
      BY <2>1, <2>2, <3>1 DEF Given
    <3>3. CASE r \notin some
      <4>1. some \in SUBSET Activating(request)
        BY <1>1, <2>2, <3>1, <3>3 DEF Activating, TypeOK
      <4>2. InUseAfter(memory, request, some) <= Bound
        BY <4>1, LimitInvParts DEF Bounded
      <4> QED
        BY <3>2, <4>2 DEF InUseAfter, Given
    <3>4. CASE r \in some
      <4> DEFINE left == InUse(memory) \ Given(request, some)
      <4>1. left \in SUBSET (CountedBy(r) \cup Expired(memory))
        BY <3>4 DEF Given, CountedBy, Active, InUse, Expired
      <4>2. /\ CountedBy(r) \in SUBSET Memories
            /\ CountedBy(r) \cup Expired(memory) \in SUBSET Memories
            /\ Expired(memory) \in SUBSET Memories
        BY InUseType DEF CountedBy
      <4> HIDE DEF left
      <4>3. Cardinality(left) <= Cardinality(CountedBy(r) \cup Expired(memory))
        BY <4>1, <4>2, FewerMemories
      <4>4. Cardinality(CountedBy(r) \cup Expired(memory))
              <= Cardinality(CountedBy(r)) + Cardinality(Expired(memory))
        <5>1. IsFiniteSet(CountedBy(r)) /\ IsFiniteSet(Expired(memory))
          BY <4>2, FiniteMemories
        <5>2. Cardinality(CountedBy(r) \cup Expired(memory))
                = Cardinality(CountedBy(r)) + Cardinality(Expired(memory))
                  - Cardinality(CountedBy(r) \cap Expired(memory))
          BY <5>1, FS_Union
        <5>3. CountedBy(r) \cap Expired(memory) \in SUBSET Memories
          BY <4>2
        <5>4. Cardinality(CountedBy(r) \cap Expired(memory)) \in Nat
          BY <5>3, FiniteMemories
        <5>5. Cardinality(CountedBy(r)) \in Nat /\ Cardinality(Expired(memory)) \in Nat
          BY <4>2, FiniteMemories
        <5> QED
          BY <5>2, <5>4, <5>5
      <4>5. Cardinality(Expired(memory)) <= expiries
        BY LimitInvParts DEF Held
      <4>6. Cardinality(some) <= Cardinality(Requests)
        BY <3>1, FiniteRequests
      <4>7. /\ Cardinality(left) \in Nat /\ Cardinality(CountedBy(r)) \in Nat
            /\ Cardinality(Expired(memory)) \in Nat
            /\ Cardinality(CountedBy(r) \cup Expired(memory)) \in Nat
        BY <4>1, <4>2, FiniteMemories
      <4>8. Cardinality(some) \in Nat /\ Cardinality(Requests) \in Nat
        BY <3>1, FiniteRequests
      <4>9. request[r].max \in Nat
        BY MaxType
      <4>10. highest \in Nat /\ expiries \in Nat
        BY BoundType
      <4>11. Cardinality(left) + Cardinality(some) <= Bound
        BY <1>1, <1>5, <4>3, <4>4, <4>5, <4>6, <4>7, <4>8, <4>9, <4>10 DEF Bound
      <4>12. left = InUse(memory) \ UNION {request'[p].superseded : p \in some}
        BY <3>2 DEF left, Given
      <4> QED
        BY <4>11, <4>12 DEF InUseAfter
    <3> QED
      BY <3>3, <3>4
  <2> QED
    BY <2>3, <2>4, LimitInvParts
<1> QED
  BY <1>2, <1>3, <1>4, <1>5, CountTransition

LEMMA ArchivedRows ==
    ASSUME NEW rows \in [Memories -> Row], NEW gone
    PROVE  /\ Archive(rows, gone) \in [Memories -> Row]
           /\ InUse(Archive(rows, gone)) = InUse(rows) \ gone
           /\ Expired(Archive(rows, gone)) = Expired(rows)
<1>1. Archive(rows, gone) \in [Memories -> Row]
  BY ArchiveType
<1>2. \A m \in Memories : /\ [rows[m] EXCEPT !.status = "archived"].status = "archived"
                          /\ [rows[m] EXCEPT !.status = "archived"].expired = rows[m].expired
  BY DEF Row
<1>3. \A m \in Memories : /\ Archive(rows, gone)[m].expired = rows[m].expired
                          /\ Archive(rows, gone)[m].status
                               = IF m \in gone THEN "archived" ELSE rows[m].status
  BY <1>2 DEF Archive
<1> QED
  BY <1>1, <1>3 DEF InUse, Expired

LEMMA WrittenRow ==
    ASSUME NEW rows \in [Memories -> Row], NEW m \in Memories, NEW row \in Row,
           row.expired => rows[m].expired
    PROVE  /\ InUse([rows EXCEPT ![m] = row]) \subseteq InUse(rows) \cup {m}
           /\ (row.status = "active" => rows[m].status = "active")
                => InUse([rows EXCEPT ![m] = row]) \subseteq InUse(rows)
           /\ Expired([rows EXCEPT ![m] = row]) \subseteq Expired(rows)
BY DEF InUse, Expired

\* What the last step of a request does to the other parts of the invariant.
LEMMA LastStep ==
    ASSUME TypeOK, TypeOK', LimitInv, NEW r \in Requests,
           request' = [request EXCEPT ![r] = NoRequest],
           UNCHANGED <<limit, highest, expiries>>,
           Expired(memory)' \subseteq Expired(memory)
    PROVE  /\ Held'
           /\ Activating(request)' \subseteq Activating(request) \ {r}
           /\ \A q \in Activating(request)' : request'[q].superseded = request[q].superseded
           /\ Bound' = Bound /\ Bound <= Bound'
<1>1. \A p \in Requests : request'[p] = IF p = r THEN NoRequest ELSE request[p]
  BY DEF TypeOK
<1>2. /\ NoRequest.max <= highest /\ NoRequest.op \notin Edits
      /\ ~(NoRequest.pc = "write" /\ NoRequest.op \in Kinds \cup Activations)
  BY NoRequestHeld
<1>3. Held'
  <2>1. \A p \in Requests : request'[p].max <= highest
    BY <1>1, <1>2, LimitInvParts DEF Held
  <2>2. \A p \in Requests : request'[p].op \in Edits => request'[p].superseded = {}
    BY <1>1, <1>2, LimitInvParts DEF Held
  <2>3. Cardinality(Expired(memory)') <= expiries'
    BY FewerExpired, LimitInvParts
  <2> QED
    BY <2>1, <2>2, <2>3, LimitInvParts DEF Held
<1>4. DOMAIN request' = Requests /\ DOMAIN request = Requests
  BY DEF TypeOK
<1>5. Activating(request)' \subseteq Activating(request) \ {r}
  BY <1>1, <1>2, <1>4 DEF Activating
<1>6. \A q \in Activating(request)' : request'[q].superseded = request[q].superseded
  BY <1>1, <1>4, <1>5 DEF Activating
<1>7. Bound' = Bound /\ Bound <= Bound'
  BY BoundType DEF Bound
<1> QED
  BY <1>3, <1>5, <1>6, <1>7

LEMMA StoreCreationLimit ==
    ASSUME TypeOK, TypeOK', LimitInv, NEW r \in Requests, NEW m \in Memories,
           StoreCreation(r, m)
    PROVE  LimitInv'
<1> DEFINE row == [status |-> IF request[r].op = "proposed" THEN "proposed" ELSE "active",
                   text |-> request[r].text, expired |-> FALSE]
           rows == Archive(memory, request[r].superseded)
<1>1. row \in Row /\ ~row.expired /\ (row.status = "active" <=> request[r].op # "proposed")
  BY DEF TypeOK, Request, Row, Status
<1>2. /\ rows \in [Memories -> Row]
      /\ InUse(rows) = InUse(memory) \ request[r].superseded
      /\ Expired(rows) = Expired(memory)
  BY ArchivedRows DEF TypeOK
<1>3. memory' = [rows EXCEPT ![m] = row]
  BY DEF StoreCreation, Commit
<1>4. /\ request' = [request EXCEPT ![r] = NoRequest]
      /\ UNCHANGED <<limit, highest, expiries>>
      /\ request[r].pc = "write" /\ request[r].op \in Creations
  BY DEF StoreCreation
<1> HIDE DEF row, rows
<1>5. /\ InUse(memory') \subseteq InUse(rows) \cup {m}
      /\ row.status # "active" => InUse(memory') \subseteq InUse(rows)
      /\ Expired(memory') \subseteq Expired(rows)
  BY <1>1, <1>2, <1>3, WrittenRow
<1>6. Expired(memory)' \subseteq Expired(memory)
  BY <1>2, <1>5
<1>7. /\ Held'
      /\ Activating(request)' \subseteq Activating(request) \ {r}
      /\ \A q \in Activating(request)' : request'[q].superseded = request[q].superseded
      /\ Bound' = Bound /\ Bound <= Bound'
  BY <1>4, <1>6, LastStep
<1>8. CASE request[r].op = "proposed"
  <2>1. InUse(memory)' \subseteq InUse(memory)
    BY <1>1, <1>2, <1>5, <1>8
  <2> QED
    BY <1>7, <2>1, QuietStep, LimitInvParts
<1>9. CASE request[r].op # "proposed"
  <2>1. r \in Activating(request)
    BY <1>4, <1>9 DEF Activating, Creations, TypeOK
  <2>2. InUse(memory)' \subseteq (InUse(memory) \ request[r].superseded) \cup {m}
    BY <1>2, <1>5
  <2> QED
    BY <1>7, <2>1, <2>2, ActivationStep, LimitInvParts
<1> QED
  BY <1>8, <1>9

LEMMA GiveUpRememberingLimit ==
    ASSUME TypeOK, TypeOK', LimitInv, NEW r \in Requests, GiveUpRemembering(r)
    PROVE  LimitInv'
<1>1. /\ request' = [request EXCEPT ![r] = NoRequest]
      /\ UNCHANGED <<limit, highest, expiries>>
      /\ memory' = Archive(memory, request[r].superseded)
  BY DEF GiveUpRemembering, Commit
<1>2. InUse(memory)' \subseteq InUse(memory) /\ Expired(memory)' = Expired(memory)
  BY <1>1, ArchivedRows DEF TypeOK
<1> QED
  BY <1>1, <1>2, LastStep, QuietStep, LimitInvParts

LEMMA CommitEditLimit ==
    ASSUME TypeOK, TypeOK', LimitInv, NEW r \in Requests, NEW m \in Memories, CommitEdit(r, m)
    PROVE  LimitInv'
<1> DEFINE q == request[r]
           row == Edited(memory[m], q)
<1>1. /\ q \in Request /\ q.op \in Edits /\ q.pc = "write" /\ q.superseded = {}
      /\ memory[m] \in Row /\ memory \in [Memories -> Row]
  BY LimitInvParts DEF CommitEdit, TypeOK, Held
<1>2. row \in Row
  BY <1>1, EditedType
<1>3. /\ row.expired => memory[m].expired
      /\ q.op \notin Activations => (row.status = "active" => memory[m].status = "active")
  BY <1>1 DEF Edited, Edits, Activations, Row
<1>4. /\ memory' = [memory EXCEPT ![m] = row]
      /\ request' = [request EXCEPT ![r] = NoRequest]
      /\ UNCHANGED <<limit, highest, expiries>>
  BY DEF CommitEdit, Commit
<1>5. r \in DOMAIN request
  BY DEF TypeOK
<1> HIDE DEF row
<1>6. /\ InUse(memory') \subseteq InUse(memory) \cup {m}
      /\ q.op \notin Activations => InUse(memory') \subseteq InUse(memory)
      /\ Expired(memory') \subseteq Expired(memory)
  BY <1>1, <1>2, <1>3, <1>4, WrittenRow
<1>7. /\ Held'
      /\ Activating(request)' \subseteq Activating(request) \ {r}
      /\ \A p \in Activating(request)' : request'[p].superseded = request[p].superseded
      /\ Bound' = Bound /\ Bound <= Bound'
  BY <1>4, <1>6, LastStep
<1>8. CASE q.op \notin Activations
  BY <1>6, <1>7, <1>8, QuietStep, LimitInvParts
<1>9. CASE q.op \in Activations
  <2>1. r \in Activating(request)
    BY <1>1, <1>5, <1>9 DEF Activating
  <2>2. InUse(memory)' \subseteq (InUse(memory) \ q.superseded) \cup {m}
    BY <1>1, <1>6
  <2> QED
    BY <1>7, <2>1, <2>2, ActivationStep, LimitInvParts
<1> QED
  BY <1>8, <1>9

LEMMA UpdateSettingsLimit ==
    ASSUME TypeOK, TypeOK', LimitInv, NEW n \in Limits, UpdateSettings(n)
    PROVE  LimitInv'
<1>1. UNCHANGED <<memory, request, expiries>> /\ limit' = n
  BY DEF UpdateSettings
<1>2. n \in Nat /\ highest \in Nat /\ expiries \in Nat /\ Cardinality(Requests) \in Nat
  BY LimitsAssumption, BoundType, FiniteRequests
<1>3. limit' <= highest' /\ highest <= highest' /\ highest' \in Nat
  BY <1>2 DEF UpdateSettings
<1>4. Bound <= Bound'
  BY <1>1, <1>2, <1>3 DEF Bound
<1>5. \A r \in Requests : request'[r].max <= highest'
  BY <1>1, <1>2, <1>3, MaxType, LimitInvParts DEF Held
<1>6. Held'
  BY <1>1, <1>3, <1>5, LimitInvParts DEF Held
<1>7. /\ Activating(request)' = Activating(request) /\ InUse(memory)' = InUse(memory)
      /\ \A r \in Activating(request)' : request'[r].superseded = request[r].superseded
  BY <1>1
<1> QED
  BY <1>4, <1>6, <1>7, QuietStep, LimitInvParts

LEMMA ExpireLimit ==
    ASSUME TypeOK, TypeOK', LimitInv, NEW m \in Memories, Expire(m)
    PROVE  LimitInv'
<1>1. UNCHANGED <<limit, highest, request>> /\ expiries' = expiries + 1
  BY DEF Expire
<1>2. memory' = [memory EXCEPT ![m] = [memory[m] EXCEPT !.expired = TRUE]]
  BY DEF Expire
<1>3. memory \in [Memories -> Row] /\ memory[m] \in Row
  BY DEF TypeOK
<1>4. [memory[m] EXCEPT !.expired = TRUE].status = memory[m].status
  BY <1>3 DEF Row
<1>5. InUse(memory)' = InUse(memory)
  BY <1>2, <1>3, <1>4 DEF InUse
<1>6. Expired(memory)' \in SUBSET (Expired(memory) \cup {m})
  BY <1>2, <1>3 DEF Expired
<1>7. /\ Cardinality(Expired(memory)') <= Cardinality(Expired(memory)) + 1
      /\ Cardinality(Expired(memory)') \in Nat /\ Cardinality(Expired(memory)) \in Nat
  BY <1>6, InUseType, OneMoreMemory, FiniteMemories
<1>8. Held'
  <2>1. Cardinality(Expired(memory)) <= expiries
    BY LimitInvParts DEF Held
  <2>2. Cardinality(Expired(memory)') <= expiries'
    BY <1>1, <1>7, <2>1, BoundType
  <2> QED
    BY <1>1, <2>2, LimitInvParts DEF Held
<1>9. Bound <= Bound'
  BY <1>1, BoundType, FiniteRequests DEF Bound
<1>10. /\ Activating(request)' = Activating(request)
       /\ \A r \in Activating(request)' : request'[r].superseded = request[r].superseded
  BY <1>1
<1> QED
  BY <1>5, <1>8, <1>9, <1>10, QuietStep, LimitInvParts

LEMMA LimitInit == Init => LimitInv
<1> SUFFICES ASSUME Init PROVE LimitInv
  OBVIOUS
<1>1. TypeOK
  BY TypeInit
<1>2. NoRow.status = "absent" /\ ~NoRow.expired
  BY DEF NoRow
<1>3. NoRequest.pc = "search" /\ NoRequest.max = 0 /\ NoRequest.superseded = {}
  BY DEF NoRequest
<1>4. InUse(memory) = {} /\ Expired(memory) = {} /\ Activating(request) = {}
  BY <1>2, <1>3 DEF Init, InUse, Expired, Activating
<1>5. highest \in Nat \ {0} /\ expiries = 0 /\ limit = highest
  BY <1>1, BoundType DEF Init
<1>6. Cardinality({}) = 0
  BY FS_EmptySet
<1>7. Held
  BY <1>3, <1>4, <1>5, <1>6 DEF Init, Held
<1>8. Bounded
  <2> SUFFICES ASSUME NEW some \in SUBSET Activating(request)
               PROVE  InUseAfter(memory, request, some) <= Bound
    BY DEF Bounded
  <2>1. InUse(memory) \ Given(request, some) = {} /\ some = {}
    BY <1>4
  <2>2. InUseAfter(memory, request, some) = 0
    BY <1>6, <2>1 DEF InUseAfter, Given
  <2> QED
    BY <1>5, <2>2, FiniteRequests DEF Bound
<1> QED
  BY <1>7, <1>8, LimitInvParts

LEMMA LimitStep ==
    ASSUME TypeOK, LimitInv, [Next]_vars
    PROVE  LimitInv'
<1>1. TypeOK'
  BY TypeStep
<1>2. CASE UNCHANGED vars
  BY <1>2 DEF vars, historyVars, LimitInv
<1>3. ASSUME NEW r \in Requests, Rollback(r)
      PROVE  LimitInv'
  BY <1>1, <1>3, RollbackLimit DEF Rollback, historyVars
<1>4. ASSUME NEW r \in Requests, RequestStep(r)
      PROVE  LimitInv'
  BY <1>1, <1>3, <1>4, StartCreationLimit, SupersedeLimit, CountActiveLimit,
     GiveUpRememberingLimit, StoreCreationLimit, CommitEditLimit, LoadMemoryLimit DEF RequestStep
<1>5. CASE Next
  BY <1>1, <1>4, <1>5, UpdateSettingsLimit, ExpireLimit DEF Next
<1> QED
  BY <1>2, <1>5

\* The limit of active memories (memory/service.py:206-213, 319-321, 393-395) is exceeded by
\* no more than the requests that may be in flight beside the one that activates a memory and
\* the expiry dates that have passed, for any number of memories, requests and settings.
THEOREM LimitHolds == Spec => []ActiveWithinLimit
<1>1. Spec => [](TypeOK /\ LimitInv)
  <2>1. Init => TypeOK /\ LimitInv
    BY TypeInit, LimitInit
  <2>2. TypeOK /\ LimitInv /\ [Next]_vars => TypeOK' /\ LimitInv'
    BY TypeStep, LimitStep
  <2> QED
    BY <2>1, <2>2, PTL DEF Spec
<1>2. TypeOK /\ LimitInv => ActiveWithinLimit
  <2> SUFFICES ASSUME TypeOK, LimitInv PROVE ActiveWithinLimit
    OBVIOUS
  <2>1. InUseAfter(memory, request, {}) <= Bound
    BY LimitInvParts DEF Bounded
  <2>2. InUse(memory) \ Given(request, {}) = InUse(memory)
    BY DEF Given
  <2>3. Cardinality(InUse(memory)) + 0 <= Bound
    BY <2>1, <2>2, FS_EmptySet DEF InUseAfter, Given
  <2>4. Cardinality(Active(memory)) <= Cardinality(InUse(memory))
    BY InUseType, FewerMemories DEF Active, InUse
  <2>5. /\ Cardinality(Active(memory)) \in Nat /\ Cardinality(InUse(memory)) \in Nat
        /\ Bound \in Int
    BY InUseType, FiniteMemories, BoundType
  <2> QED
    BY <2>3, <2>4, <2>5 DEF ActiveWithinLimit, Bound
<1> QED
  BY <1>1, <1>2, PTL

-----------------------------------------------------------------------------
(* Deleted memories *)

\* A step that leaves the erased rows alone and takes up none of them.
LEMMA RowsKept ==
    ASSUME DeletedInv, UNCHANGED erased,
           \A m \in erased : memory'[m].status = "deleted" /\ memory'[m].text = Redacted,
           \A m \in erased, r \in Requests :
              m \notin request'[r].target \cup request'[r].superseded
    PROVE  DeletedInv'
BY DEF DeletedInv

LEMMA NothingTaken ==
    ASSUME TypeOK, DeletedInv, NEW r \in Requests, NEW q,
           request' = [request EXCEPT ![r] = q],
           \A m \in erased : m \notin q.target \cup q.superseded
    PROVE  \A m \in erased, p \in Requests :
              m \notin request'[p].target \cup request'[p].superseded
<1>1. \A p \in Requests : request'[p] = IF p = r THEN q ELSE request[p]
  BY DEF TypeOK
<1> QED
  BY <1>1 DEF DeletedInv

LEMMA NoRequestTakesNothing == NoRequest.target = {} /\ NoRequest.superseded = {}
BY DEF NoRequest

LEMMA TakenBy ==
    ASSUME DeletedInv, NEW r \in Requests, NEW m \in erased
    PROVE  m \notin request[r].target /\ m \notin request[r].superseded
BY DEF DeletedInv

LEMMA ProposedTakes ==
    ASSUME NEW q \in Request
    PROVE  Proposed(q).target = q.target /\ Proposed(q).superseded = q.superseded
BY DEF Proposed, Request

LEMMA LastStepKeeps ==
    ASSUME TypeOK, DeletedInv, NEW r \in Requests, UNCHANGED <<memory, erased>>,
           request' = [request EXCEPT ![r] = NoRequest]
    PROVE  DeletedInv'
<1>1. \A m \in erased, p \in Requests :
        m \notin request'[p].target \cup request'[p].superseded
  BY NoRequestTakesNothing, NothingTaken
<1> QED
  BY <1>1, RowsKept DEF DeletedInv

LEMMA StartCreationKeeps ==
    ASSUME TypeOK, DeletedInv, NEW r \in Requests, NEW kind \in Kinds, NEW t \in Texts,
           StartCreation(r, kind, t)
    PROVE  DeletedInv'
<1> DEFINE q == [NoRequest EXCEPT !.op = kind, !.text = t, !.max = limit]
<1>1. q.target = {} /\ q.superseded = {}
  BY DEF NoRequest
<1> HIDE DEF q
<1>2. request' = [request EXCEPT ![r] = q] /\ UNCHANGED <<memory, erased>>
  BY DEF StartCreation, StartRequest, q
<1>3. \A m \in erased, p \in Requests :
        m \notin request'[p].target \cup request'[p].superseded
  BY <1>1, <1>2, NothingTaken
<1> QED
  BY <1>2, <1>3, RowsKept DEF DeletedInv

LEMMA LoadMemoryKeeps ==
    ASSUME TypeOK, DeletedInv, NEW r \in Requests, NEW op \in Edits, NEW m \in Memories,
           LoadMemory(r, op, m)
    PROVE  DeletedInv'
<1>1. memory[m].status # "deleted"
  BY DEF LoadMemory, Editable, Edits
<1>2. PICK renews \in BOOLEAN : \E t \in NewTexts(op, memory[m], renews) :
        StartRequest(r, EditRequest(op, m, memory[m], t, renews))
  BY DEF LoadMemory
<1>3. PICK t \in NewTexts(op, memory[m], renews) :
        StartRequest(r, EditRequest(op, m, memory[m], t, renews))
  BY <1>2
<1> DEFINE q == EditRequest(op, m, memory[m], t, renews)
<1>4. request' = [request EXCEPT ![r] = q] /\ UNCHANGED <<memory, erased>>
  BY <1>3 DEF StartRequest
<1>5. q.target = {m} /\ q.superseded = {}
  BY DEF EditRequest
<1>6. m \notin erased
  BY <1>1 DEF DeletedInv
<1> HIDE DEF q
<1>7. \A k \in erased, p \in Requests :
        k \notin request'[p].target \cup request'[p].superseded
  BY <1>4, <1>5, <1>6, NothingTaken
<1> QED
  BY <1>4, <1>7, RowsKept DEF DeletedInv

LEMMA SupersedeKeeps ==
    ASSUME TypeOK, DeletedInv, NEW r \in Requests, Supersede(r)
    PROVE  DeletedInv'
<1>1. UNCHANGED <<memory, erased>> /\ request[r] \in Request
  BY DEF Supersede, historyVars, TypeOK
<1>2. PICK near \in SUBSET NearDuplicates(request[r].text) :
        \/ request' = [request EXCEPT ![r] = NoRequest]
        \/ \E gone : /\ gone = near \cup Conflicting(request[r].text)
                     /\ \/ request' = [request EXCEPT ![r].superseded = gone, ![r].pc = "count"]
                        \/ request' = [request EXCEPT ![r] = Proposed(@), ![r].superseded = gone]
  BY DEF Supersede
<1> DEFINE gone == near \cup Conflicting(request[r].text)
<1>3. \A m \in erased : m \notin gone
  BY <1>2 DEF NearDuplicates, Conflicting, Live, Active, DeletedInv
<1> HIDE DEF gone
<1>4. CASE request' = [request EXCEPT ![r] = NoRequest]
  BY <1>1, <1>4, LastStepKeeps
<1>5. CASE \/ request' = [request EXCEPT ![r].superseded = gone, ![r].pc = "count"]
           \/ request' = [request EXCEPT ![r] = Proposed(@), ![r].superseded = gone]
  <2>1. request'[r].superseded = gone /\ request'[r].target = request[r].target
    <3>1. CASE request' = [request EXCEPT ![r].superseded = gone, ![r].pc = "count"]
      BY <1>1, <3>1 DEF TypeOK, Request
    <3>2. CASE request' = [request EXCEPT ![r] = Proposed(@), ![r].superseded = gone]
      <4>1. Proposed(request[r]).target = request[r].target /\ Proposed(request[r]) \in Request
        BY <1>1, ProposedTakes, ProposedType
      <4>2. request'[r] = [Proposed(request[r]) EXCEPT !.superseded = gone]
        BY <3>2 DEF TypeOK
      <4> QED
        BY <4>1, <4>2 DEF Request
    <3> QED
      BY <1>5, <3>1, <3>2
  <2>2. request' = [request EXCEPT ![r] = request'[r]]
    BY <1>5 DEF TypeOK
  <2>3. \A m \in erased : m \notin request'[r].target \cup request'[r].superseded
    BY <1>3, <2>1, TakenBy
  <2>4. \A m \in erased, p \in Requests :
          m \notin request'[p].target \cup request'[p].superseded
    BY <2>2, <2>3, NothingTaken
  <2> QED
    BY <1>1, <2>4, RowsKept DEF DeletedInv
<1> QED
  BY <1>2, <1>4, <1>5 DEF gone

LEMMA CountActiveKeeps ==
    ASSUME TypeOK, DeletedInv, NEW r \in Requests, CountActive(r)
    PROVE  DeletedInv'
<1>1. UNCHANGED <<memory, erased>> /\ request[r] \in Request
  BY DEF CountActive, historyVars, TypeOK
<1>2. CASE request' = [request EXCEPT ![r] = NoRequest]
  BY <1>1, <1>2, LastStepKeeps
<1>3. CASE \/ request' = [request EXCEPT ![r] = [request[r] EXCEPT !.pc = "write", !.max = 0]]
           \/ request' = [request EXCEPT ![r] = Proposed(request[r])]
           \/ request' = [request EXCEPT ![r] = [request[r] EXCEPT !.pc = "giveup", !.max = 0]]
  <2>1. /\ request'[r].superseded = request[r].superseded
        /\ request'[r].target = request[r].target
    <3>1. CASE request' = [request EXCEPT ![r] = Proposed(request[r])]
      BY <1>1, <3>1, ProposedTakes DEF TypeOK
    <3>2. CASE request' = [request EXCEPT ![r] = [request[r] EXCEPT !.pc = "write", !.max = 0]]
      BY <1>1, <3>2 DEF TypeOK, Request
    <3>3. CASE request' = [request EXCEPT ![r] = [request[r] EXCEPT !.pc = "giveup", !.max = 0]]
      BY <1>1, <3>3 DEF TypeOK, Request
    <3> QED
      BY <1>3, <3>1, <3>2, <3>3
  <2>2. request' = [request EXCEPT ![r] = request'[r]]
    BY <1>3 DEF TypeOK
  <2>3. \A m \in erased : m \notin request'[r].target \cup request'[r].superseded
    BY <2>1, TakenBy
  <2>4. \A m \in erased, p \in Requests :
          m \notin request'[p].target \cup request'[p].superseded
    BY <2>2, <2>3, NothingTaken
  <2> QED
    BY <1>1, <2>4, RowsKept DEF DeletedInv
<1> QED
  BY <1>2, <1>3, CountTransition

LEMMA StoreCreationKeeps ==
    ASSUME TypeOK, DeletedInv, NEW r \in Requests, NEW m \in Memories, StoreCreation(r, m)
    PROVE  DeletedInv'
<1> DEFINE row == [status |-> IF request[r].op = "proposed" THEN "proposed" ELSE "active",
                   text |-> request[r].text, expired |-> FALSE]
<1>1. /\ memory' = [Archive(memory, request[r].superseded) EXCEPT ![m] = row]
      /\ request' = [request EXCEPT ![r] = NoRequest]
      /\ UNCHANGED erased
      /\ memory[m].status = "absent"
  BY DEF StoreCreation, Commit
<1> HIDE DEF row
<1>2. m \notin erased
  BY <1>1 DEF DeletedInv
<1>3. \A k \in erased : memory'[k] = memory[k]
  BY <1>1, <1>2, TakenBy DEF Archive, TypeOK
<1>4. \A k \in erased, p \in Requests :
        k \notin request'[p].target \cup request'[p].superseded
  BY <1>1, NoRequestTakesNothing, NothingTaken
<1> QED
  BY <1>1, <1>3, <1>4, RowsKept DEF DeletedInv

LEMMA GiveUpRememberingKeeps ==
    ASSUME TypeOK, DeletedInv, NEW r \in Requests, GiveUpRemembering(r)
    PROVE  DeletedInv'
<1>1. /\ memory' = Archive(memory, request[r].superseded)
      /\ request' = [request EXCEPT ![r] = NoRequest]
      /\ UNCHANGED erased
  BY DEF GiveUpRemembering, Commit
<1>2. \A k \in erased : memory'[k] = memory[k]
  BY <1>1, TakenBy DEF Archive, TypeOK
<1>3. \A k \in erased, p \in Requests :
        k \notin request'[p].target \cup request'[p].superseded
  BY <1>1, NoRequestTakesNothing, NothingTaken
<1> QED
  BY <1>1, <1>2, <1>3, RowsKept DEF DeletedInv

\* A deletion joins the erased rows only when nobody else could write its row again.
LEMMA CommitEditKeeps ==
    ASSUME TypeOK, DeletedInv, NEW r \in Requests, NEW m \in Memories, CommitEdit(r, m)
    PROVE  DeletedInv'
<1> DEFINE row == Edited(memory[m], request[r])
<1>1. /\ memory' = [memory EXCEPT ![m] = row]
      /\ request' = [request EXCEPT ![r] = NoRequest]
      /\ erased' = IF Erases(r, m) THEN erased \cup {m} ELSE erased
      /\ request[r].target = {m}
  BY DEF CommitEdit, Commit
<1>2. m \notin erased
  BY <1>1, TakenBy
<1>3. Erases(r, m) => row.status = "deleted" /\ row.text = Redacted
  <2> SUFFICES ASSUME Erases(r, m) PROVE row.status = "deleted" /\ row.text = Redacted
    OBVIOUS
  <2>1. request[r].op = "delete" /\ request[r].saw # Redacted /\ memory[m] \in Row
    BY DEF Erases, TypeOK
  <2>2. row = [memory[m] EXCEPT !.status = "deleted",
                                !.text = Column(@, request[r].saw, Redacted)]
    BY <2>1 DEF Edited, Activations
  <2> QED
    BY <2>1, <2>2 DEF Column, Row
<1> HIDE DEF row
<1>4. erased' \subseteq Memories /\ erased \subseteq Memories
  BY <1>1 DEF TypeOK
<1>5. \A k \in erased' : memory'[k].status = "deleted" /\ memory'[k].text = Redacted
  BY <1>1, <1>2, <1>3, <1>4 DEF DeletedInv, TypeOK
<1>6. \A p \in Requests : request'[p] = IF p = r THEN NoRequest ELSE request[p]
  BY <1>1 DEF TypeOK
<1>7. Erases(r, m) => \A p \in Requests \ {r} : m \notin request[p].target \cup request[p].superseded
  BY DEF Erases, MayStillWrite
<1>8. \A k \in erased', p \in Requests :
        k \notin request'[p].target \cup request'[p].superseded
  BY <1>1, <1>6, <1>7, NoRequestTakesNothing DEF DeletedInv
<1> QED
  BY <1>5, <1>8 DEF DeletedInv

LEMMA DeletedStep ==
    ASSUME TypeOK, DeletedInv, [Next]_vars
    PROVE  DeletedInv'
<1>1. CASE UNCHANGED vars
  BY <1>1 DEF vars, historyVars, DeletedInv
<1>2. ASSUME NEW r \in Requests, Rollback(r)
      PROVE  DeletedInv'
  BY <1>2, LastStepKeeps DEF Rollback, historyVars
<1>3. ASSUME NEW r \in Requests, RequestStep(r)
      PROVE  DeletedInv'
  BY <1>2, <1>3, StartCreationKeeps, SupersedeKeeps, CountActiveKeeps, GiveUpRememberingKeeps,
     StoreCreationKeeps, CommitEditKeeps, LoadMemoryKeeps DEF RequestStep
<1>4. ASSUME NEW n \in Limits, UpdateSettings(n)
      PROVE  DeletedInv'
  BY <1>4 DEF UpdateSettings, DeletedInv
<1>5. ASSUME NEW m \in Memories, Expire(m)
      PROVE  DeletedInv'
  <2>1. m \notin erased
    BY <1>5 DEF Expire, DeletedInv
  <2>2. \A k \in erased : memory'[k] = memory[k]
    BY <1>5, <2>1 DEF Expire, TypeOK
  <2> QED
    BY <1>5, <2>2 DEF Expire, DeletedInv
<1>6. CASE Next
  BY <1>3, <1>4, <1>5, <1>6 DEF Next
<1> QED
  BY <1>1, <1>6

\* A deleted memory stays deleted and its text redacted (memory/service.py:446-461), unless a
\* request that had loaded it before writes it afterwards, for any number of requests.
THEOREM DeletionsLast == Spec => []DeletedStaysRedacted
<1>1. Init => TypeOK /\ DeletedInv
  BY TypeInit DEF Init, DeletedInv
<1>2. TypeOK /\ DeletedInv /\ [Next]_vars => TypeOK' /\ DeletedInv'
  BY TypeStep, DeletedStep
<1>3. DeletedInv => DeletedStaysRedacted
  BY DEF DeletedInv, DeletedStaysRedacted
<1> QED
  BY <1>1, <1>2, <1>3, PTL DEF Spec

-----------------------------------------------------------------------------
(* Nothing in use is given up within the limit *)

Used == Cardinality(Active(memory))

\* A step that leaves the rows alone and gives a request what the invariant allows it.
LEMMA RequestKeepsLoss ==
    ASSUME TypeOK, LossInv, NEW r \in Requests, NEW q \in Request,
           request' = [request EXCEPT ![r] = q],
           UNCHANGED <<memory, limit, exceeded, lost>>,
           \A m \in q.superseded : memory[m].status # "absent",
           q.op # "none" /\ q.pc \in {"search", "count"} => q.max # 0,
           ~exceeded /\ q.max # 0 => Used <= q.max,
           ~exceeded /\ q.pc = "giveup" => q.superseded \cap Active(memory) = {}
    PROVE  LossInv'
<1>1. \A p \in Requests : request'[p] = IF p = r THEN q ELSE request[p]
  BY DEF TypeOK
<1>2. Active(memory') = Active(memory)
  OBVIOUS
<1>3. ~exceeded' => RoomKept'
  BY <1>1, <1>2 DEF LossInv, RoomKept, Used
<1>4. \A p \in Requests : \A m \in request'[p].superseded : memory'[m].status # "absent"
  BY <1>1 DEF LossInv
<1>5. \A p \in Requests :
        request'[p].op # "none" /\ request'[p].pc \in {"search", "count"} => request'[p].max # 0
  BY <1>1 DEF LossInv
<1> QED
  BY <1>3, <1>4, <1>5 DEF LossInv, NothingLostWithinLimit

LEMMA NoRequestLosesNothing ==
    /\ NoRequest.op = "none" /\ NoRequest.pc = "search"
    /\ NoRequest.superseded = {} /\ NoRequest.max = 0
BY DEF NoRequest

LEMMA EndKeepsLoss ==
    ASSUME TypeOK, LossInv, NEW r \in Requests, request' = [request EXCEPT ![r] = NoRequest],
           UNCHANGED <<memory, limit, exceeded, lost>>
    PROVE  LossInv'
BY NoRequestType, NoRequestLosesNothing, RequestKeepsLoss

LEMMA LimitType ==
    ASSUME TypeOK
    PROVE  limit \in Nat /\ limit # 0
BY LimitsAssumption DEF TypeOK

LEMMA StartCreationLoss ==
    ASSUME TypeOK, LossInv, NEW r \in Requests, NEW kind \in Kinds, NEW t \in Texts,
           StartCreation(r, kind, t)
    PROVE  LossInv'
<1> DEFINE q == [NoRequest EXCEPT !.op = kind, !.text = t, !.max = limit]
<1>1. q \in Request /\ q.pc = "search" /\ q.max = limit /\ q.superseded = {}
  BY DEF NoRequest, Request, TypeOK, Kinds, Creations
<1> HIDE DEF q
<1>2. request' = [request EXCEPT ![r] = q] /\ UNCHANGED <<memory, limit, exceeded, lost>>
  BY DEF StartCreation, StartRequest, q
<1>3. ~exceeded => Used <= limit
  BY DEF LossInv, RoomKept, Used
<1> QED
  BY <1>1, <1>2, <1>3, LimitType, RequestKeepsLoss

LEMMA LoadMemoryLoss ==
    ASSUME TypeOK, LossInv, NEW r \in Requests, NEW op \in Edits, NEW m \in Memories,
           LoadMemory(r, op, m), TypeOK'
    PROVE  LossInv'
<1>1. PICK renews \in BOOLEAN : \E t \in NewTexts(op, memory[m], renews) :
        StartRequest(r, EditRequest(op, m, memory[m], t, renews))
  BY DEF LoadMemory
<1>2. PICK t \in NewTexts(op, memory[m], renews) :
        StartRequest(r, EditRequest(op, m, memory[m], t, renews))
  BY <1>1
<1> DEFINE q == EditRequest(op, m, memory[m], t, renews)
<1>3. request' = [request EXCEPT ![r] = q] /\ UNCHANGED <<memory, limit, exceeded, lost>>
  BY <1>2 DEF StartRequest
<1>4. q.superseded = {} /\ q.max \in {0, limit} /\ q.pc \in {"count", "write"}
  BY DEF EditRequest
<1>5. q.pc = "count" => q.max = limit
  BY DEF EditRequest
<1>6. q \in Request
  BY <1>3 DEF TypeOK
<1> HIDE DEF q
<1>7. ~exceeded => Used <= limit
  BY DEF LossInv, RoomKept, Used
<1> QED
  BY <1>3, <1>4, <1>5, <1>6, <1>7, LimitType, RequestKeepsLoss

LEMMA SupersedeLoss ==
    ASSUME TypeOK, LossInv, NEW r \in Requests, Supersede(r), TypeOK'
    PROVE  LossInv'
<1>1. /\ UNCHANGED <<memory, limit, exceeded, lost>>
      /\ request[r] \in Request /\ request[r].op \in Creations /\ request[r].pc = "search"
  BY DEF Supersede, historyVars, TypeOK
<1>2. PICK near \in SUBSET NearDuplicates(request[r].text) :
        \/ request' = [request EXCEPT ![r] = NoRequest]
        \/ \E gone : /\ gone = near \cup Conflicting(request[r].text)
                     /\ \/ request' = [request EXCEPT ![r].superseded = gone, ![r].pc = "count"]
                        \/ request' = [request EXCEPT ![r] = Proposed(@), ![r].superseded = gone]
  BY DEF Supersede
<1> DEFINE gone == near \cup Conflicting(request[r].text)
<1>3. \A m \in gone : memory[m].status # "absent"
  BY <1>2 DEF NearDuplicates, Conflicting, Live, Active
<1>4. request[r].max # 0 /\ (~exceeded => Used <= request[r].max)
  BY <1>1 DEF LossInv, RoomKept, Used, Creations, Kinds
<1> HIDE DEF gone
<1>5. CASE request' = [request EXCEPT ![r] = NoRequest]
  BY <1>1, <1>5, EndKeepsLoss
<1>6. CASE request' = [request EXCEPT ![r].superseded = gone, ![r].pc = "count"]
  <2>1. /\ request'[r].superseded = gone /\ request'[r].pc = "count"
        /\ request'[r].max = request[r].max /\ request'[r] \in Request
    BY <1>1, <1>6 DEF TypeOK, Request
  <2>2. request' = [request EXCEPT ![r] = request'[r]]
    BY <1>6 DEF TypeOK
  <2> QED
    BY <1>1, <1>3, <1>4, <2>1, <2>2, RequestKeepsLoss
<1>7. CASE request' = [request EXCEPT ![r] = Proposed(@), ![r].superseded = gone]
  <2>1. /\ Proposed(request[r]) \in Request
        /\ Proposed(request[r]).max = 0 /\ Proposed(request[r]).pc = "write"
    BY <1>1, ProposedType DEF Proposed, Request
  <2>2. request'[r] = [Proposed(request[r]) EXCEPT !.superseded = gone] /\ request'[r] \in Request
    BY <1>7 DEF TypeOK
  <2>3. request'[r].superseded = gone /\ request'[r].max = 0 /\ request'[r].pc = "write"
    BY <2>1, <2>2 DEF Request
  <2>4. request' = [request EXCEPT ![r] = request'[r]]
    BY <1>7 DEF TypeOK
  <2> QED
    BY <1>1, <1>3, <2>2, <2>3, <2>4, RequestKeepsLoss
<1> QED
  BY <1>2, <1>5, <1>6, <1>7 DEF gone

\* A remembered creation gives up only when the count is not below its setting.
LEMMA GivesUpAtLimit ==
    ASSUME TypeOK, NEW r \in Requests, CountActive(r), request[r].op = "remembered",
           request'[r].pc = "giveup"
    PROVE  Cardinality(CountedBy(r)) >= request[r].max
<1> SUFFICES ASSUME ~AtLimit(Cardinality(CountedBy(r)), request[r].max) PROVE FALSE
  BY DEF AtLimit
<1>1. request'[r] = [request[r] EXCEPT !.pc = "write", !.max = 0]
  BY DEF CountActive, TypeOK
<1>2. request[r] \in Request
  BY DEF TypeOK
<1> QED
  BY <1>1, <1>2 DEF Request

\* As many without what it supersedes as are in use: what it supersedes is out of use.
LEMMA NothingGivenUp ==
    ASSUME NEW S \in SUBSET Memories, NEW T \in SUBSET Memories,
           Cardinality(S \ T) >= Cardinality(S)
    PROVE  T \cap S = {}
<1>1. IsFiniteSet(S) /\ Cardinality(S) \in Nat /\ Cardinality(S \ T) \in Nat
  BY FiniteMemories
<1>2. S \ T \subseteq S
  OBVIOUS
<1>3. Cardinality(S \ T) = Cardinality(S) => S \ T = S
  BY <1>1, <1>2, FS_Subset
<1>4. Cardinality(S \ T) <= Cardinality(S)
  BY <1>2, FewerMemories
<1> QED
  BY <1>1, <1>3, <1>4

LEMMA CountActiveLoss ==
    ASSUME TypeOK, LossInv, NEW r \in Requests, CountActive(r)
    PROVE  LossInv'
<1>1. /\ UNCHANGED <<memory, limit, exceeded, lost>>
      /\ request[r] \in Request /\ request[r].op # "none" /\ request[r].pc = "count"
  BY DEF CountActive, historyVars, TypeOK
<1>2. \A m \in request[r].superseded : memory[m].status # "absent"
  BY DEF LossInv
<1>3. CASE request' = [request EXCEPT ![r] = NoRequest]
  BY <1>1, <1>3, EndKeepsLoss
<1>4. CASE request' = [request EXCEPT ![r] = [request[r] EXCEPT !.pc = "write", !.max = 0]]
  <2> DEFINE q == [request[r] EXCEPT !.pc = "write", !.max = 0]
  <2>1. q \in Request /\ q.pc = "write" /\ q.max = 0 /\ q.superseded = request[r].superseded
    BY <1>1 DEF Request
  <2> HIDE DEF q
  <2>2. request' = [request EXCEPT ![r] = q]
    BY <1>4 DEF q
  <2> QED
    BY <1>1, <1>2, <2>1, <2>2, RequestKeepsLoss
<1>5. CASE request' = [request EXCEPT ![r] = Proposed(request[r])]
  <2>1. /\ Proposed(request[r]) \in Request
        /\ Proposed(request[r]).max = 0 /\ Proposed(request[r]).pc = "write"
    BY <1>1, ProposedType DEF Proposed, Request
  <2>2. Proposed(request[r]).superseded = request[r].superseded
    BY <1>1, ProposedTakes
  <2> QED
    BY <1>1, <1>2, <1>5, <2>1, <2>2, RequestKeepsLoss
<1>6. CASE /\ request[r].op = "remembered"
           /\ request' = [request EXCEPT ![r] = [request[r] EXCEPT !.pc = "giveup", !.max = 0]]
  <2> DEFINE q == [request[r] EXCEPT !.pc = "giveup", !.max = 0]
  <2>1. q \in Request /\ q.pc = "giveup" /\ q.max = 0 /\ q.superseded = request[r].superseded
    BY <1>1 DEF Request
  <2> HIDE DEF q
  <2>2. request' = [request EXCEPT ![r] = q] /\ request'[r] = q
    BY <1>6 DEF q, TypeOK
  <2>3. Cardinality(CountedBy(r)) >= request[r].max
    BY <1>6, <2>1, <2>2, GivesUpAtLimit
  <2>4. request[r].max # 0 /\ (~exceeded => Used <= request[r].max)
    BY <1>1 DEF LossInv, RoomKept, Used
  <2>5. Active(memory) \in SUBSET Memories /\ request[r].superseded \in SUBSET Memories
    BY <1>1, InUseType DEF Request
  <2>6. CountedBy(r) = Active(memory) \ request[r].superseded
    BY DEF CountedBy
  <2>7. /\ Used \in Nat /\ Cardinality(CountedBy(r)) \in Nat /\ request[r].max \in Nat
    BY <2>5, <2>6, FiniteMemories, MaxType DEF Used
  <2>8. ~exceeded => Cardinality(CountedBy(r)) >= Used
    BY <2>3, <2>4, <2>7
  <2>9. ~exceeded => request[r].superseded \cap Active(memory) = {}
    BY <2>5, <2>6, <2>8, NothingGivenUp DEF Used
  <2> QED
    BY <1>1, <1>2, <2>1, <2>2, <2>9, RequestKeepsLoss
<1> QED
  BY <1>3, <1>4, <1>5, <1>6, CountTransition

\* What is not over the settings in use is within each of them.
LEMMA WithinSettings ==
    ASSUME TypeOK, NEW rows, Active(rows) \in SUBSET Memories, NEW n \in Limits, ~Over(rows, n)
    PROVE  /\ Cardinality(Active(rows)) <= n
           /\ \A p \in Requests : request[p].max # 0 => Cardinality(Active(rows)) <= request[p].max
<1>1. Cardinality(Active(rows)) \in Nat /\ n \in Nat
  BY FiniteMemories, LimitsAssumption
<1>2. \A max \in {n} \cup {request[q].max : q \in {q \in Requests : request[q].max # 0}} :
        ~(Cardinality(Active(rows)) > max)
  BY DEF Over
<1>3. \A p \in Requests : request[p].max \in Nat
  BY MaxType
<1> QED
  BY <1>1, <1>2, <1>3

LEMMA SupersedesMemories ==
    ASSUME TypeOK
    PROVE  \A p \in Requests : request[p].superseded \subseteq Memories
BY DEF TypeOK, Request

\* A commit that forgets no row and brings back into use nothing another request supersedes.
LEMMA CommitKeepsLoss ==
    ASSUME TypeOK, TypeOK', LossInv, NEW r \in Requests, NEW rows, Commit(rows),
           request' = [request EXCEPT ![r] = NoRequest], limit' = limit,
           lost' => \/ lost
                    \/ /\ request[r].pc = "giveup"
                       /\ request[r].superseded \cap Active(memory) # {},
           \A m \in Memories : memory[m].status # "absent" => memory'[m].status # "absent",
           \A p \in Requests \ {r} : request[p].pc = "giveup" =>
              request[p].superseded \cap Active(memory') \subseteq Active(memory)
    PROVE  LossInv'
<1>1. \A p \in Requests : request'[p] = IF p = r THEN NoRequest ELSE request[p]
  BY DEF TypeOK
<1>2. memory' = rows /\ (~exceeded' => ~exceeded /\ ~Over(rows, limit))
  BY DEF Commit
<1>3. Active(memory') \in SUBSET Memories /\ limit \in Limits
  BY DEF TypeOK, Active
<1>4. ~exceeded' => RoomKept'
  <2> SUFFICES ASSUME ~exceeded' PROVE RoomKept'
    OBVIOUS
  <2>1. RoomKept
    BY <1>2 DEF LossInv
  <2>2. /\ Cardinality(Active(memory')) <= limit
        /\ \A p \in Requests : request[p].max # 0 => Cardinality(Active(memory')) <= request[p].max
    BY <1>2, <1>3, WithinSettings
  <2>3. \A p \in Requests : request'[p].pc = "giveup" =>
          request'[p].superseded \cap Active(memory') = {}
    BY <1>1, <2>1, NoRequestLosesNothing DEF RoomKept
  <2> QED
    BY <1>1, <2>2, <2>3, NoRequestLosesNothing DEF RoomKept
<1>5. lost' => exceeded'
  <2>1. lost => exceeded
    BY DEF LossInv, NothingLostWithinLimit
  <2>2. request[r].pc = "giveup" /\ request[r].superseded \cap Active(memory) # {} => exceeded
    BY DEF LossInv, RoomKept
  <2> QED
    BY <1>2, <2>1, <2>2
<1>6. \A p \in Requests : \A m \in request'[p].superseded : memory'[m].status # "absent"
  <2>1. \A p \in Requests : request[p].superseded \subseteq Memories
    BY SupersedesMemories
  <2> QED
    BY <1>1, <2>1, NoRequestLosesNothing DEF LossInv
<1>7. \A p \in Requests :
        request'[p].op # "none" /\ request'[p].pc \in {"search", "count"} => request'[p].max # 0
  BY <1>1, NoRequestLosesNothing DEF LossInv
<1> QED
  BY <1>4, <1>5, <1>6, <1>7 DEF LossInv, NothingLostWithinLimit

LEMMA ArchivedStatus ==
    ASSUME NEW rows \in [Memories -> Row], NEW gone, NEW m \in Memories
    PROVE  /\ Archive(rows, gone)[m].status = IF m \in gone THEN "archived" ELSE rows[m].status
           /\ Archive(rows, gone)[m].expired = rows[m].expired
<1>1. /\ [rows[m] EXCEPT !.status = "archived"].status = "archived"
      /\ [rows[m] EXCEPT !.status = "archived"].expired = rows[m].expired
  BY DEF Row
<1> QED
  BY <1>1 DEF Archive

LEMMA StoreCreationLoss ==
    ASSUME TypeOK, TypeOK', LossInv, NEW r \in Requests, NEW m \in Memories, StoreCreation(r, m)
    PROVE  LossInv'
<1> DEFINE row == [status |-> IF request[r].op = "proposed" THEN "proposed" ELSE "active",
                   text |-> request[r].text, expired |-> FALSE]
           rows == Archive(memory, request[r].superseded)
<1>1. /\ Commit([rows EXCEPT ![m] = row])
      /\ request' = [request EXCEPT ![r] = NoRequest]
      /\ limit' = limit /\ lost' = lost /\ memory[m].status = "absent"
  BY DEF StoreCreation
<1>2. row.status # "absent"
  OBVIOUS
<1>3. /\ rows \in [Memories -> Row]
      /\ \A k \in Memories : /\ rows[k].status \in {"archived", memory[k].status}
                             /\ rows[k].expired = memory[k].expired
  BY ArchiveType, ArchivedStatus DEF TypeOK
<1> HIDE DEF row, rows
<1>4. memory' = [rows EXCEPT ![m] = row]
  BY <1>1 DEF Commit
<1>5. \A k \in Memories : memory[k].status # "absent" => memory'[k].status # "absent"
  BY <1>2, <1>3, <1>4
<1>6. \A k \in Memories \ {m} : k \in Active(memory') => k \in Active(memory)
  BY <1>3, <1>4 DEF Active, TypeOK
<1>7. \A p \in Requests : m \notin request[p].superseded /\ request[p].superseded \subseteq Memories
  BY <1>1, SupersedesMemories DEF LossInv
<1>8. \A p \in Requests \ {r} : request[p].pc = "giveup" =>
        request[p].superseded \cap Active(memory') \subseteq Active(memory)
  BY <1>6, <1>7
<1> QED
  BY <1>1, <1>5, <1>8, CommitKeepsLoss

LEMMA GiveUpRememberingLoss ==
    ASSUME TypeOK, TypeOK', LossInv, NEW r \in Requests, GiveUpRemembering(r)
    PROVE  LossInv'
<1> DEFINE rows == Archive(memory, request[r].superseded)
<1>1. /\ Commit(rows) /\ memory' = rows
      /\ request' = [request EXCEPT ![r] = NoRequest]
      /\ limit' = limit /\ request[r].pc = "giveup"
      /\ lost' = (lost \/ request[r].superseded \cap Active(memory) # {})
  BY DEF GiveUpRemembering, Commit
<1>2. /\ rows \in [Memories -> Row]
      /\ \A k \in Memories : /\ rows[k].status \in {"archived", memory[k].status}
                             /\ rows[k].expired = memory[k].expired
  BY ArchiveType, ArchivedStatus DEF TypeOK
<1> HIDE DEF rows
<1>3. \A k \in Memories : memory[k].status # "absent" => memory'[k].status # "absent"
  BY <1>1, <1>2
<1>4. Active(memory') \subseteq Active(memory)
  BY <1>1, <1>2 DEF Active, TypeOK
<1>5. \A p \in Requests \ {r} : request[p].pc = "giveup" =>
        request[p].superseded \cap Active(memory') \subseteq Active(memory)
  BY <1>4
<1> QED
  BY <1>1, <1>3, <1>5, CommitKeepsLoss

LEMMA EditedStatus ==
    ASSUME NEW row \in Row, NEW q \in Request, q.op \in Edits, row.status # "absent"
    PROVE  Edited(row, q).status # "absent"
BY DEF Edited, Row, Edits, Activations

\* The rows another creation supersedes are locked.
LEMMA CommitEditLoss ==
    ASSUME TypeOK, TypeOK', LossInv, NEW r \in Requests, NEW m \in Memories, CommitEdit(r, m)
    PROVE  LossInv'
<1> DEFINE row == Edited(memory[m], request[r])
<1>1. /\ Commit([memory EXCEPT ![m] = row])
      /\ request' = [request EXCEPT ![r] = NoRequest]
      /\ limit' = limit /\ lost' = lost
  BY DEF CommitEdit
<1>2. memory[m].status # "absent" => row.status # "absent"
  BY EditedStatus DEF CommitEdit, TypeOK
<1> HIDE DEF row
<1>3. memory' = [memory EXCEPT ![m] = row]
  BY <1>1 DEF Commit
<1>4. \A k \in Memories : memory[k].status # "absent" => memory'[k].status # "absent"
  BY <1>2, <1>3 DEF TypeOK
<1>5. \A k \in Memories \ {m} : k \in Active(memory') => k \in Active(memory)
  BY <1>3 DEF Active, TypeOK
<1>6. \A p \in Requests : request[p].pc = "giveup" => m \notin request[p].superseded
  BY DEF CommitEdit, Locked, TypeOK, Creations, Kinds
<1>7. \A p \in Requests \ {r} : request[p].pc = "giveup" =>
        request[p].superseded \cap Active(memory') \subseteq Active(memory)
  BY <1>5, <1>6, SupersedesMemories
<1> QED
  BY <1>1, <1>4, <1>7, CommitKeepsLoss

LEMMA UpdateSettingsLoss ==
    ASSUME TypeOK, LossInv, NEW n \in Limits, UpdateSettings(n)
    PROVE  LossInv'
<1>1. /\ UNCHANGED <<memory, request, lost>> /\ limit' = n
      /\ exceeded' = (exceeded \/ Over(memory, n))
  BY DEF UpdateSettings
<1>2. Active(memory) \in SUBSET Memories
  BY InUseType
<1>3. ~exceeded' => RoomKept'
  <2> SUFFICES ASSUME ~exceeded' PROVE RoomKept'
    OBVIOUS
  <2>1. Cardinality(Active(memory)) <= n /\ RoomKept
    BY <1>1, <1>2, WithinSettings DEF LossInv
  <2> QED
    BY <1>1, <2>1 DEF RoomKept
<1> QED
  BY <1>1, <1>3 DEF LossInv, NothingLostWithinLimit

LEMMA ExpireLoss ==
    ASSUME TypeOK, TypeOK', LossInv, NEW m \in Memories, Expire(m)
    PROVE  LossInv'
<1>1. /\ UNCHANGED <<limit, request, exceeded, lost>>
      /\ memory' = [memory EXCEPT ![m].expired = TRUE]
  BY DEF Expire
<1>2. \A k \in Memories : memory'[k].status = memory[k].status
                          /\ (~memory'[k].expired => ~memory[k].expired)
  <2>1. memory[m] \in Row /\ memory \in [Memories -> Row]
    BY DEF TypeOK
  <2>2. [memory[m] EXCEPT !.expired = TRUE].status = memory[m].status
        /\ [memory[m] EXCEPT !.expired = TRUE].expired
    BY <2>1 DEF Row
  <2> QED
    BY <1>1, <2>1, <2>2
<1>3. Active(memory') \subseteq Active(memory) /\ Active(memory) \in SUBSET Memories
  BY <1>2 DEF Active, TypeOK
<1>4. /\ Cardinality(Active(memory')) <= Cardinality(Active(memory))
      /\ Cardinality(Active(memory')) \in Nat /\ Cardinality(Active(memory)) \in Nat
  BY <1>3, FewerMemories, FiniteMemories
<1>5. limit \in Nat /\ \A p \in Requests : request[p].max \in Nat
  BY LimitType, MaxType
<1>6. RoomKept => RoomKept'
  <2> SUFFICES ASSUME RoomKept PROVE RoomKept'
    OBVIOUS
  <2>1. Cardinality(Active(memory')) <= limit
    BY <1>4, <1>5 DEF RoomKept
  <2>2. \A p \in Requests : request[p].max # 0 => Cardinality(Active(memory')) <= request[p].max
    BY <1>4, <1>5 DEF RoomKept
  <2>3. \A p \in Requests : request[p].pc = "giveup" =>
          request[p].superseded \cap Active(memory') = {}
    BY <1>3 DEF RoomKept
  <2> QED
    BY <1>1, <2>1, <2>2, <2>3 DEF RoomKept
<1>7. \A p \in Requests : \A k \in request[p].superseded : memory'[k].status # "absent"
  BY <1>2, SupersedesMemories DEF LossInv
<1> QED
  BY <1>1, <1>6, <1>7 DEF LossInv, NothingLostWithinLimit

LEMMA LossStep ==
    ASSUME TypeOK, LossInv, [Next]_vars
    PROVE  LossInv'
<1>1. TypeOK'
  BY TypeStep
<1>2. CASE UNCHANGED vars
  BY <1>2 DEF vars, historyVars, LossInv, RoomKept, NothingLostWithinLimit
<1>3. ASSUME NEW r \in Requests, Rollback(r)
      PROVE  LossInv'
  BY <1>3, EndKeepsLoss DEF Rollback, historyVars
<1>4. ASSUME NEW r \in Requests, RequestStep(r)
      PROVE  LossInv'
  BY <1>1, <1>3, <1>4, StartCreationLoss, SupersedeLoss, CountActiveLoss, GiveUpRememberingLoss,
     StoreCreationLoss, CommitEditLoss, LoadMemoryLoss DEF RequestStep
<1>5. CASE Next
  BY <1>1, <1>4, <1>5, UpdateSettingsLoss, ExpireLoss DEF Next
<1> QED
  BY <1>2, <1>5

LEMMA LossInit == Init => LossInv
<1> SUFFICES ASSUME Init PROVE LossInv
  OBVIOUS
<1>1. limit \in Nat /\ TypeOK
  BY TypeInit, LimitType
<1>2. Active(memory) = {}
  BY DEF Init, Active, NoRow
<1>3. Cardinality(Active(memory)) <= limit
  BY <1>1, <1>2, FS_EmptySet
<1>4. \A r \in Requests : request[r] = NoRequest
  BY DEF Init
<1>5. RoomKept
  BY <1>3, <1>4, NoRequestLosesNothing DEF RoomKept
<1>6. \A r \in Requests : \A m \in request[r].superseded : memory[m].status # "absent"
  BY <1>4, NoRequestLosesNothing
<1>7. \A r \in Requests :
        request[r].op # "none" /\ request[r].pc \in {"search", "count"} => request[r].max # 0
  BY <1>4, NoRequestLosesNothing
<1> QED
  BY <1>5, <1>6, <1>7 DEF Init, LossInv, NothingLostWithinLimit

\* A chat turn that catches the limit error commits what it has superseded all the same
\* (memory/chat_integration.py:85-146), and as long as the limit was respected that archives no
\* memory in use, for any number of memories, requests and settings.
THEOREM NothingIsLost == Spec => []NothingLostWithinLimit
<1>1. Init => TypeOK /\ LossInv
  BY TypeInit, LossInit
<1>2. TypeOK /\ LossInv /\ [Next]_vars => TypeOK' /\ LossInv'
  BY TypeStep, LossStep
<1>3. LossInv => NothingLostWithinLimit
  BY DEF LossInv
<1> QED
  BY <1>1, <1>2, <1>3, PTL DEF Spec

=============================================================================

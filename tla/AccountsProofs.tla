--------------------------- MODULE AccountsProofs ---------------------------
(* Proofs about Accounts, for any accounts, requests and bounds: a reset link *)
(* ends the sessions and tokens before it (ResetEndsTheOld), a token is spent *)
(* once (TokensSpentOnce), administrators who delete each other leave an      *)
(* active one (DeletionsKeepAnAdmin), and a login, a refresh or a logout is   *)
(* never the victim of a deadlock (SessionRequestsNeverDeadlock).             *)
EXTENDS Accounts, TLAPS, FiniteSetTheorems

Modes == {"X", "N", "K"}

----------------------------------------------------------------------------
(* Requests and their fields.                                                 *)

LEMMA RequestFields ==
  ASSUME NEW r \in Request
  PROVE  /\ r.op \in Operations \cup {"none"}
         /\ r.user \in Users \cup {None} /\ r.actor \in Users \cup {None} /\ r.row \in Nat
         /\ r.held \subseteq Rows \X Modes /\ r.snap \subseteq Nat
         /\ r.dead \subseteq SessionIds /\ r.spent \subseteq TokenIds
         /\ r.status \in {"none", "active", "disabled", "deleted"} /\ r.role \in {"user", "admin"}
         /\ r.dirty \subseteq {"role", "status"}
         /\ r.toRole \in {"user", "admin", None} /\ r.toStatus \in {"active", "disabled", None}
  BY DEF Request, Modes

LEMMA IdleType ==
  ASSUME NEW pc \in {"idle", "answered", "changed"}
  PROVE  /\ [IdleRequest EXCEPT !.pc = pc] \in Request
         /\ [IdleRequest EXCEPT !.pc = pc].op = "none"
         /\ [IdleRequest EXCEPT !.pc = pc].pc = pc
         /\ [IdleRequest EXCEPT !.pc = pc].held = {}
         /\ [IdleRequest EXCEPT !.pc = pc].dirty = {}
  BY DEF IdleRequest, Request

(* An answered request has no claim on anything.                              *)
LEMMA Unclaimed ==
  ASSUME NEW r, r.op = "none", r.pc \in {"answered", "changed"}, r.dirty = {}
  PROVE  RequestInv(r)
BY DEF RequestInv, Placed, Bound, Locking, Current, Passing, ResetHasToken, ResetHasUser,
       DeleteHasUser, HasSpent

(* The locks that each place asks for.                                        *)
LEMMA NeedsAt ==
  ASSUME NEW q \in Requests
  PROVE  /\ req[q].pc \in {"issue", "writeRole", "writeStatus"} => Needs(q) = UserLock(req[q].user, "N")
         /\ req[q].pc = "end" => Needs(q) = SessionLocks({req[q].row})
         /\ req[q].pc \in {"rotate", "rotated"} => Needs(q) = RotationNeeds(q)
         /\ req[q].pc = "insert" => Needs(q) = UserLock(req[q].user, "K")
         /\ req[q].pc \in {"excess", "spending"} => Needs(q) = TokenLocks(req[q].snap, "N")
         /\ req[q].pc = "token" => Needs(q) = TokenLocks({req[q].row}, "X")
         /\ req[q].pc \in {"user", "target"} => Needs(q) = UserLock(req[q].user, "X")
         /\ req[q].pc = "revoking" => Needs(q) = SessionLocks(req[q].snap)
         /\ req[q].pc \in {"auditRole", "auditStatus"} => Needs(q) = UserLock(req[q].actor, "K")
         /\ req[q].pc = "audit" => Needs(q) = AuditNeeds(q)
         /\ req[q].pc = "commit" => Needs(q) = CommitNeeds(q)
         /\ req[q].pc \in {"send", "others", "revoke", "role", "checkStatus", "guard", "idle",
                           "answered", "changed"} => Needs(q) = {}
  BY DEF Needs

LEMMA LockTypes ==
  /\ \A u \in Users, m \in Modes : UserLock(u, m) \subseteq Rows \X Modes
  /\ \A S \in SUBSET SessionIds : SessionLocks(S) \subseteq Rows \X Modes
  /\ \A S \in SUBSET TokenIds, m \in Modes : TokenLocks(S, m) \subseteq Rows \X Modes
  BY DEF UserLock, SessionLocks, TokenLocks, Rows, Modes

LEMMA NeedsType ==
  ASSUME TypeOK, NEW q \in Requests, Placed(req[q]), Bound(req[q])
  PROVE  Needs(q) \subseteq Rows \X Modes
<1> DEFINE r == req[q]
<1>1. /\ "X" \in Modes /\ "N" \in Modes /\ "K" \in Modes
      /\ r \in Request
  BY DEF Modes, TypeOK
<1>2. r.op # "none" => /\ r.user \in Users
                       /\ \A m \in Modes : UserLock(r.user, m) \subseteq Rows \X Modes
  BY LockTypes DEF Bound
<1>3. r.op \in {"update", "revoke", "delete"} => UserLock(r.actor, "K") \subseteq Rows \X Modes
  BY <1>1, LockTypes DEF Bound
<1>4. r.op \in {"refresh", "logout"} => SessionLocks({r.row}) \subseteq Rows \X Modes
  BY LockTypes DEF Bound
<1>5. CASE r.pc \in {"issue", "writeRole", "writeStatus", "insert", "user", "target"}
  <2>1. r.op # "none"
    BY <1>5 DEF Placed, Passing
  <2> QED
    BY <1>1, <1>2, <1>5, <2>1, NeedsAt
<1>6. CASE r.pc = "end"
  BY <1>4, <1>6, NeedsAt DEF Placed, Passing
<1>7. CASE r.pc \in {"rotate", "rotated"}
  <2>1. r.op = "refresh"
    BY <1>7 DEF Placed, Passing
  <2> QED
    BY <1>1, <1>2, <1>4, <1>7, <2>1, NeedsAt DEF RotationNeeds
<1>8. CASE r.pc \in {"excess", "spending"}
  <2>1. r.snap \in SUBSET TokenIds
    BY <1>8 DEF Bound
  <2>2. TokenLocks(r.snap, "N") \subseteq Rows \X Modes
    BY <1>1, <2>1, LockTypes
  <2> QED
    BY <1>8, <2>2, NeedsAt
<1>9. CASE r.pc = "token"
  <2>1. {r.row} \in SUBSET TokenIds
    BY <1>9 DEF Placed, Bound, Passing
  <2>2. TokenLocks({r.row}, "X") \subseteq Rows \X Modes
    BY <1>1, <2>1, LockTypes
  <2> QED
    BY <1>9, <2>2, NeedsAt
<1>10. CASE r.pc = "revoking"
  <2>1. r.snap \in SUBSET SessionIds
    BY <1>10 DEF Bound
  <2>2. SessionLocks(r.snap) \subseteq Rows \X Modes
    BY <2>1, LockTypes
  <2> QED
    BY <1>10, <2>2, NeedsAt
<1>11. CASE r.pc \in {"auditRole", "auditStatus", "audit"}
  <2>1. r.op \in {"update", "revoke", "delete"}
    BY <1>11 DEF Placed, Passing
  <2> QED
    BY <1>1, <1>2, <1>3, <1>11, <2>1, NeedsAt DEF AuditNeeds
<1>12. CASE r.pc = "commit"
  <2>1. CommitNeeds(q) = IF r.op \in {"setpw", "update"} THEN UserLock(r.user, "N")
                         ELSE IF r.op = "delete" THEN SessionLocks(SessionsOf(r.user))
                                                      \cup TokenLocks(TokensOf(r.user), "N")
                         ELSE {}
    BY DEF CommitNeeds
  <2>2. SessionsOf(r.user) \in SUBSET SessionIds /\ TokensOf(r.user) \in SUBSET TokenIds
    BY DEF SessionsOf, TokensOf
  <2>3. /\ SessionLocks(SessionsOf(r.user)) \subseteq Rows \X Modes
        /\ TokenLocks(TokensOf(r.user), "N") \subseteq Rows \X Modes
    BY <1>1, <2>2, LockTypes
  <2> QED
    BY <1>1, <1>2, <1>12, <2>1, <2>3, NeedsAt
<1>13. CASE r.pc \in {"send", "others", "revoke", "role", "checkStatus", "guard", "idle",
                      "answered", "changed"}
  BY <1>13, NeedsAt
<1> QED
  BY <1>5, <1>6, <1>7, <1>8, <1>9, <1>10, <1>11, <1>12, <1>13 DEF Placed, Passing

----------------------------------------------------------------------------
(* Locks.                                                                     *)

Holds(p, row, m) == <<row, m>> \in req[p].held

LEMMA Exclusive ==
  ASSUME LocksExclude, NEW p \in Requests, NEW q \in Requests, p # q, NEW row, NEW m, NEW n,
         Holds(p, row, m), Holds(q, row, n)
  PROVE  ~Conflict(m, n)
<1>1. <<row, m>>[1] = row /\ <<row, n>>[1] = row /\ <<row, m>>[2] = m /\ <<row, n>>[2] = n
  OBVIOUS
<1> QED
  BY <1>1 DEF LocksExclude, Holds

(* What a request is granted, no other one holds in a conflicting mode.       *)
LEMMA Waited ==
  ASSUME NEW q \in Requests, WaitsFor(q) = {}, NEW p \in Requests, p # q, NEW row, NEW m, NEW n,
         <<row, m>> \in Needs(q), Holds(p, row, n)
  PROVE  ~Conflict(m, n)
<1>1. <<row, m>>[1] = row /\ <<row, n>>[1] = row /\ <<row, m>>[2] = m /\ <<row, n>>[2] = n
  OBVIOUS
<1> QED
  BY <1>1 DEF WaitsFor, Holds

LEMMA Granted ==
  ASSUME TypeOK, LocksExclude, NEW q \in Requests, NEW next,
         req' = [req EXCEPT ![q] = next],
         \/ next.held \subseteq req[q].held
         \/ WaitsFor(q) = {} /\ next.held \subseteq Holding(q)
  PROVE  LocksExclude'
<1>1. \A p \in Requests : req'[p] = IF p = q THEN next ELSE req[p]
  BY DEF TypeOK
<1>2. \A m, n : Conflict(m, n) <=> Conflict(n, m)
  BY DEF Conflict
<1>3. ASSUME NEW p \in Requests, p # q, NEW h \in next.held, NEW g \in req[p].held, h[1] = g[1]
      PROVE  ~Conflict(h[2], g[2])
  BY <1>3 DEF LocksExclude, Holding, WaitsFor
<1> QED
  BY <1>1, <1>2, <1>3 DEF LocksExclude

----------------------------------------------------------------------------
(* Steps that write no row: they move one request and may take locks.         *)

Places == {"idle", "issue", "end", "rotate", "rotated", "excess", "insert", "send",
           "token", "user", "others", "spending", "revoke", "revoking", "role",
           "writeRole", "auditRole", "checkStatus", "writeStatus", "auditStatus",
           "target", "guard", "audit", "commit", "answered", "changed"}

LEMMA LocalStep ==
  ASSUME TypeOK, AccountsInv, NEW q \in Requests, NEW next,
         req' = [req EXCEPT ![q] = next], UNCHANGED <<user, sess, tok>>,
         next \in Request, RequestInv(next),
         \/ next.held \subseteq req[q].held
         \/ WaitsFor(q) = {} /\ next.held \subseteq Holding(q),
         req[q].pc # "changed",
         next.op = "delete" => \/ next.actor \in ActiveAdmins
                               \/ req[q].op = "delete" /\ next.actor = req[q].actor
  PROVE  AccountsInv'
<1>1. \A p \in Requests : req'[p] = IF p = q THEN next ELSE req[p]
  BY DEF TypeOK
<1>2. TypeOK'
  BY DEF TypeOK
<1>3. ResetEndsTheOld'
  BY <1>2 DEF AccountsInv, ResetEndsTheOld, Live, Outstanding
<1>4. LocksExclude'
  BY Granted DEF AccountsInv
<1>5. ASSUME NEW p \in Requests PROVE RequestInv(req[p])'
  <2>1. RequestInv(req'[p])
    BY <1>1 DEF AccountsInv
  <2>2. Current(req'[p]) <=> Current(req[p])'
    BY DEF Current, Exists, Active, ResetHasToken, ResetHasUser, Outstanding, TokensOf,
           SessionsOf, Live
  <2>3. /\ Placed(req'[p]) <=> Placed(req[p])'
        /\ Bound(req'[p]) <=> Bound(req[p])'
        /\ Locking(req'[p]) <=> Locking(req[p])'
    BY DEF Placed, Bound, Locking, ResetHasToken, ResetHasUser, DeleteHasUser, HasSpent,
           UserLock, TokenLocks
  <2> QED
    BY <2>1, <2>2, <2>3 DEF RequestInv
<1>6. FamilyInv'
  BY DEF AccountsInv, FamilyInv
<1>7. CountInv'
  BY DEF AccountsInv, CountInv, UsedTokens, TokensOf
<1>8. AdminInv'
  <2> SUFFICES ASSUME \A p \in Requests : req'[p].pc # "changed"
               PROVE  /\ ActiveAdmins' # {}
                      /\ \A p \in Requests : req'[p].op = "delete" =>
                           \/ req'[p].actor \in ActiveAdmins'
                           \/ user'[req'[p].actor].status = "deleted"
    BY DEF AdminInv
  <2>1. \A p \in Requests : req[p].pc # "changed"
    BY <1>1
  <2>2. ActiveAdmins' = ActiveAdmins
    BY DEF ActiveAdmins, Active
  <2> QED
    BY <1>1, <2>1, <2>2 DEF AccountsInv, AdminInv
<1> QED
  BY <1>3, <1>4, <1>5, <1>6, <1>7, <1>8 DEF AccountsInv

(* A request that is refused, or is the victim of a deadlock.                 *)
LEMMA RefuseStep ==
  ASSUME TypeOK, AccountsInv, NEW q \in Requests, req[q].pc # "changed", Refuse(q)
  PROVE  AccountsInv'
<1> DEFINE next == [IdleRequest EXCEPT !.pc = "answered"]
<1>1. /\ req' = [req EXCEPT ![q] = next]
      /\ UNCHANGED <<user, sess, tok>>
  BY DEF Refuse, End
<1>2. next \in Request /\ next.op = "none" /\ next.pc = "answered" /\ next.held = {} /\ next.dirty = {}
  BY IdleType
<1> HIDE DEF next
<1>3. RequestInv(next)
  BY <1>2, Unclaimed
<1> QED
  BY <1>1, <1>2, <1>3, LocalStep

(* A request arrives: nothing held, nothing claimed but what it has just read. *)
LEMMA BeginStep ==
  ASSUME TypeOK, AccountsInv, NEW q \in Requests, NEW op, Serves(q, op), NEW next \in Request,
         Begin(q, next), UNCHANGED <<user, sess, tok>>,
         Placed(next), Bound(next), next.held = {},
         next.pc \notin {"rotated", "send"}, ~HasSpent(next),
         ~ResetHasToken(next), ~ResetHasUser(next), ~DeleteHasUser(next),
         next.pc = "rotate" => sess[next.row].user = next.user,
         next.op = "reset" => tok[next.row].user = next.user,
         next.op = "delete" => next.actor \in ActiveAdmins
  PROVE  AccountsInv'
<1>1. ~(next.op = "delete" /\ next.pc = "commit")
  BY DEF DeleteHasUser, Passing
<1>2. RequestInv(next)
  BY <1>1 DEF RequestInv, Locking, Current
<1>3. req[q].pc # "changed"
  BY DEF Serves
<1>4. req' = [req EXCEPT ![q] = next]
  BY DEF Begin
<1> QED
  BY <1>2, <1>3, <1>4, LocalStep

LEMMA ArriveStep ==
  ASSUME TypeOK, AccountsInv, NEW q \in Requests, Arrive(q),
         \A u \in Newcomers : ~Register(q, u)
  PROVE  AccountsInv'
<1> USE DEF IdleRequest, Request, Operations, Places, Placed, Bound, HasSpent, ResetHasToken,
            ResetHasUser, DeleteHasUser, Passing
<1>a. Clients \subseteq Users /\ None \notin Users /\ ActiveAdmins \subseteq Users
  BY AccountConstants DEF ActiveAdmins
<1>b. SessionIds \subseteq Nat /\ TokenIds \subseteq Nat
  BY DEF SessionIds, TokenIds
<1>1. ASSUME NEW u \in Clients, NEW pw \in {0, 1}, LoginRead(q, u, pw) PROVE AccountsInv'
  <2>1. CASE Refuse(q)
    BY <1>1, <2>1, RefuseStep DEF LoginRead, Serves
  <2>2. CASE ~Refuse(q)
    <3> DEFINE next == [IdleRequest EXCEPT !.op = "login", !.pc = "issue", !.user = u]
    <3>1. Serves(q, "login") /\ Begin(q, next) /\ UNCHANGED <<user, sess, tok>>
      BY <1>1, <2>2 DEF LoginRead
    <3>2. next \in Request /\ next.op = "login" /\ next.pc = "issue" /\ next.user = u
          /\ next.held = {} /\ next.dirty = {}
      BY <1>a
    <3> HIDE DEF next
    <3> QED
      BY <1>a, <3>1, <3>2, BeginStep
  <2> QED
    BY <2>1, <2>2
<1>2. ASSUME NEW s \in SessionIds, RefreshRead(q, s) PROVE AccountsInv'
  <2> DEFINE pc == IF sess[s].revoked THEN "revoke"
                   ELSE IF sess[s].expired THEN "end"
                   ELSE IF Active(sess[s].user) THEN "rotate" ELSE "revoke"
             next == [IdleRequest EXCEPT !.op = "refresh", !.user = sess[s].user, !.row = s,
                                         !.pc = pc]
  <2>1. /\ Serves(q, "refresh") /\ Begin(q, next) /\ UNCHANGED <<user, sess, tok>>
        /\ sess[s].user \in Users
    BY <1>2 DEF RefreshRead, TypeOK, Session
  <2>2. pc \in {"revoke", "end", "rotate"}
    OBVIOUS
  <2> HIDE DEF pc
  <2>3. next \in Request /\ next.op = "refresh" /\ next.pc = pc /\ next.user = sess[s].user
        /\ next.row = s /\ next.held = {} /\ next.dirty = {}
    BY <1>b, <2>1, <2>2
  <2> HIDE DEF next
  <2> QED
    BY <2>1, <2>2, <2>3, BeginStep
<1>3. ASSUME NEW s \in SessionIds, LogoutRead(q, s) PROVE AccountsInv'
  <2>1. CASE Refuse(q)
    BY <1>3, <2>1, RefuseStep DEF LogoutRead, Serves
  <2>2. CASE ~Refuse(q)
    <3> DEFINE next == [IdleRequest EXCEPT !.op = "logout", !.pc = "end", !.user = sess[s].user,
                                           !.row = s]
    <3>1. /\ Serves(q, "logout") /\ Begin(q, next) /\ UNCHANGED <<user, sess, tok>>
          /\ sess[s].user \in Users
      BY <1>3, <2>2 DEF LogoutRead, TypeOK, Session
    <3>2. next \in Request /\ next.op = "logout" /\ next.pc = "end" /\ next.user = sess[s].user
          /\ next.row = s /\ next.held = {} /\ next.dirty = {}
      BY <1>b, <3>1
    <3> HIDE DEF next
    <3> QED
      BY <3>1, <3>2, BeginStep
  <2> QED
    BY <2>1, <2>2
<1>4. ASSUME NEW u \in Clients, ForgotRead(q, u) PROVE AccountsInv'
  <2>1. CASE Refuse(q)
    BY <1>4, <2>1, RefuseStep DEF ForgotRead, Serves
  <2>2. CASE ~Refuse(q)
    <3> DEFINE next == [IdleRequest EXCEPT !.op = "forgot", !.pc = "excess", !.user = u,
                                           !.snap = Excess(u), !.spent = Excess(u)]
    <3>1. Serves(q, "forgot") /\ Begin(q, next) /\ UNCHANGED <<user, sess, tok>>
      BY <1>4, <2>2 DEF ForgotRead
    <3>2. Excess(u) \subseteq TokenIds
      BY DEF Excess, TokensOf
    <3>3. next \in Request /\ next.op = "forgot" /\ next.pc = "excess" /\ next.user = u
          /\ next.snap = Excess(u) /\ next.spent = Excess(u) /\ next.held = {} /\ next.dirty = {}
      BY <1>a, <1>b, <3>2
    <3> HIDE DEF next
    <3> QED
      BY <1>a, <3>1, <3>2, <3>3, BeginStep
  <2> QED
    BY <2>1, <2>2
<1>5. ASSUME NEW t \in TokenIds, ResetStart(q, t) PROVE AccountsInv'
  <2> DEFINE next == [IdleRequest EXCEPT !.op = "reset", !.pc = "token", !.row = t,
                                         !.user = tok[t].user]
  <2>1. /\ Serves(q, "reset") /\ Begin(q, next) /\ UNCHANGED <<user, sess, tok>>
        /\ tok[t].user \in Users
    BY <1>5 DEF ResetStart, TypeOK, Token
  <2>2. next \in Request /\ next.op = "reset" /\ next.pc = "token" /\ next.user = tok[t].user
        /\ next.row = t /\ next.held = {} /\ next.dirty = {}
    BY <1>b, <2>1
  <2> HIDE DEF next
  <2> QED
    BY <2>1, <2>2, BeginStep
<1>6. ASSUME NEW u \in Clients, SetPasswordRead(q, u) PROVE AccountsInv'
  <2> DEFINE next == [IdleRequest EXCEPT !.op = "setpw", !.pc = "others", !.user = u]
  <2>1. Serves(q, "setpw") /\ Begin(q, next) /\ UNCHANGED <<user, sess, tok>>
    BY <1>6 DEF SetPasswordRead
  <2>2. next \in Request /\ next.op = "setpw" /\ next.pc = "others" /\ next.user = u
        /\ next.held = {} /\ next.dirty = {}
    BY <1>a
  <2> HIDE DEF next
  <2> QED
    BY <1>a, <2>1, <2>2, BeginStep
<1>7. ASSUME NEW a \in ActiveAdmins, NEW u \in Users, NEW c \in Changes,
             UpdateRead(q, a, u, c[1], c[2])
      PROVE  AccountsInv'
  <2> DEFINE next == [IdleRequest EXCEPT !.op = "update", !.pc = "role", !.actor = a, !.user = u,
                        !.role = user[u].role, !.status = user[u].status,
                        !.toRole = c[1], !.toStatus = c[2]]
  <2>1. Serves(q, "update") /\ Begin(q, next) /\ UNCHANGED <<user, sess, tok>>
    BY <1>7 DEF UpdateRead
  <2>2. /\ user[u].role \in {"user", "admin"}
        /\ user[u].status \in {"none", "active", "disabled", "deleted"}
        /\ c[1] \in {"user", "admin", None} /\ c[2] \in {"active", "disabled", None}
    BY AccountConstants DEF TypeOK, User
  <2>3. next \in Request /\ next.op = "update" /\ next.pc = "role" /\ next.user = u
        /\ next.actor = a /\ next.held = {} /\ next.dirty = {}
    BY <1>a, <2>2
  <2> HIDE DEF next
  <2> QED
    BY <1>a, <2>1, <2>3, BeginStep
<1>8. ASSUME NEW a \in ActiveAdmins, NEW u \in Users, RevokeAllRead(q, a, u) PROVE AccountsInv'
  <2> DEFINE next == [IdleRequest EXCEPT !.op = "revoke", !.pc = "revoke", !.actor = a, !.user = u]
  <2>1. Serves(q, "revoke") /\ Begin(q, next) /\ UNCHANGED <<user, sess, tok>>
    BY <1>8 DEF RevokeAllRead
  <2>2. next \in Request /\ next.op = "revoke" /\ next.pc = "revoke" /\ next.user = u
        /\ next.actor = a /\ next.held = {} /\ next.dirty = {}
    BY <1>a
  <2> HIDE DEF next
  <2> QED
    BY <1>a, <2>1, <2>2, BeginStep
<1>9. ASSUME NEW a \in ActiveAdmins, NEW u \in Users, DeleteStart(q, a, u) PROVE AccountsInv'
  <2> DEFINE next == [IdleRequest EXCEPT !.op = "delete", !.pc = "target", !.actor = a, !.user = u]
  <2>1. Serves(q, "delete") /\ Begin(q, next) /\ UNCHANGED <<user, sess, tok>>
    BY <1>9 DEF DeleteStart
  <2>2. next \in Request /\ next.op = "delete" /\ next.pc = "target" /\ next.user = u
        /\ next.actor = a /\ next.held = {} /\ next.dirty = {}
    BY <1>a
  <2> HIDE DEF next
  <2> QED
    BY <1>a, <2>1, <2>2, BeginStep
<1> QED
  BY <1>1, <1>2, <1>3, <1>4, <1>5, <1>6, <1>7, <1>8, <1>9 DEF Arrive

(* The request after a Goto.                                                  *)
Placing(r, pc, H) == [r EXCEPT !.pc = pc, !.held = H]
Moved(q, pc) == Placing(req[q], pc, Holding(q))

RequestOver(P, L) ==
  [op: Operations \cup {"none"}, pc: P, user: Users \cup {None},
   actor: Users \cup {None}, row: Nat, held: L, snap: SUBSET Nat,
   dead: SUBSET SessionIds, spent: SUBSET TokenIds, role: {"user", "admin"},
   status: {"none", "active", "disabled", "deleted"}, dirty: SUBSET {"role", "status"},
   toRole: {"user", "admin", None}, toStatus: {"active", "disabled", None}]

LockSets == SUBSET (Rows \X {"X", "N", "K"})
SessionSets == SUBSET SessionIds
TokenSets == SUBSET TokenIds

LEMMA RequestSet == Request = RequestOver(Places, LockSets)
  BY DEF Request, RequestOver, Places, LockSets

LEMMA MovedFields ==
  ASSUME NEW r \in Request, NEW pc \in Places, NEW H \in LockSets
  PROVE  LET n == Placing(r, pc, H)
         IN  /\ n \in Request
             /\ n.op = r.op /\ n.pc = pc /\ n.user = r.user /\ n.actor = r.actor /\ n.row = r.row
             /\ n.held = H /\ n.snap = r.snap /\ n.dead = r.dead /\ n.spent = r.spent
             /\ n.dirty = r.dirty /\ n.role = r.role /\ n.status = r.status
<1> DEFINE n == [r EXCEPT !.pc = pc, !.held = H]
<1>1. r \in RequestOver(Places, LockSets)
  BY RequestSet
<1>3. /\ n.op = r.op /\ n.pc = pc /\ n.user = r.user /\ n.actor = r.actor /\ n.row = r.row
      /\ n.held = H /\ n.snap = r.snap /\ n.dead = r.dead /\ n.spent = r.spent
      /\ n.dirty = r.dirty /\ n.role = r.role /\ n.status = r.status
  BY <1>1 DEF RequestOver
<1>4. n \in RequestOver(Places, LockSets)
  BY <1>1 DEF RequestOver, SessionSets, TokenSets
<1>5. n \in Request
  BY <1>4, RequestSet
<1>6. n = Placing(r, pc, H)
  BY DEF Placing
<1> HIDE DEF n
<1> QED
  BY <1>3, <1>5, <1>6

LEMMA GotoNext ==
  ASSUME TypeOK, AccountsInv, NEW q \in Requests, NEW pc \in Places
  PROVE  /\ Goto(q, pc) => req' = [req EXCEPT ![q] = Moved(q, pc)]
         /\ Moved(q, pc) \in Request
         /\ Moved(q, pc).op = req[q].op /\ Moved(q, pc).pc = pc
         /\ Moved(q, pc).user = req[q].user /\ Moved(q, pc).actor = req[q].actor
         /\ Moved(q, pc).row = req[q].row /\ Moved(q, pc).held = Holding(q)
         /\ Moved(q, pc).snap = req[q].snap /\ Moved(q, pc).dead = req[q].dead
         /\ Moved(q, pc).spent = req[q].spent /\ Moved(q, pc).dirty = req[q].dirty
         /\ Moved(q, pc).role = req[q].role /\ Moved(q, pc).status = req[q].status
<1> DEFINE r == req[q]
<1>1. r \in Request /\ req \in [Requests -> Request]
  BY DEF TypeOK
<1>2. Placed(r) /\ Bound(r)
  BY DEF AccountsInv, RequestInv
<1>3. Holding(q) \in LockSets
  BY <1>1, <1>2, NeedsType, RequestFields DEF Holding, Modes, LockSets
<1>4. Goto(q, pc) => req' = [req EXCEPT ![q] = Moved(q, pc)]
  BY <1>1 DEF Goto, Moved, Placing
<1> QED
  BY <1>1, <1>3, <1>4, MovedFields DEF Moved

(* It moves on with what it holds and asks for.                               *)
LEMMA GotoStep ==
  ASSUME TypeOK, AccountsInv, NEW q \in Requests, NEW pc \in Places, Goto(q, pc),
         UNCHANGED <<user, sess, tok>>, WaitsFor(q) = {}, req[q].op # "none",
         RequestInv(Moved(q, pc))
  PROVE  AccountsInv'
<1>1. req[q].pc # "changed"
  BY DEF AccountsInv, RequestInv, Placed, Passing
<1> QED
  BY <1>1, GotoNext, LocalStep

LEMMA Serving ==
  ASSUME AccountsInv, NEW q \in Requests,
         req[q].pc \notin {"idle", "answered", "changed"}
  PROVE  /\ req[q].op # "none" /\ req[q].pc # "changed"
         /\ Placed(req[q]) /\ Bound(req[q]) /\ Locking(req[q]) /\ Current(req[q])
         /\ req[q].user \in Users
  BY DEF AccountsInv, RequestInv, Placed, Bound

LEMMA RotateInsertStep ==
  ASSUME TypeOK, AccountsInv, NEW q \in Requests, RotateInsert(q)
  PROVE  AccountsInv'
<1> DEFINE r == req[q]
<1>1. r.pc = "rotate" /\ WaitsFor(q) = {}
  BY DEF RotateInsert, At
<1>2. /\ r.op # "none" /\ r.pc # "changed"
      /\ Placed(r) /\ Bound(r) /\ Locking(r) /\ Current(r)
  BY <1>1, Serving
<1>3. CASE Refuse(q)
  BY <1>2, <1>3, RefuseStep
<1>4. CASE ~Refuse(q)
  <2> DEFINE next == Moved(q, "rotated")
  <2>1. Exists(r.user) /\ Goto(q, "rotated") /\ UNCHANGED <<user, sess, tok>>
    BY <1>4 DEF RotateInsert
  <2>2. r.op = "refresh"
    BY <1>1, <1>2 DEF Placed, Passing
  <2>3. UserLock(r.user, "K") \subseteq Holding(q)
    BY <1>1, NeedsAt DEF Holding, RotationNeeds
  <2>4. sess[r.row].user = r.user
    BY <1>1, <1>2, <2>1, <2>2 DEF Current, Exists
  <2>5. RequestInv(next)
    <3>1. /\ next.op = "refresh" /\ next.pc = "rotated" /\ next.user = r.user
          /\ next.row = r.row /\ next.held = Holding(q) /\ next.dirty = r.dirty
          /\ next.status = r.status
      BY <2>2, GotoNext DEF Places
    <3> HIDE DEF next
    <3> QED
      BY <1>1, <1>2, <2>1, <2>2, <2>3, <2>4, <3>1
      DEF RequestInv, Placed, Bound, Locking, Current, Passing, ResetHasToken, ResetHasUser,
          DeleteHasUser, HasSpent
  <2> QED
    BY <1>1, <1>2, <2>1, <2>5, GotoStep DEF Places
<1> QED
  BY <1>3, <1>4

LEMMA ForgotRevokeStep ==
  ASSUME TypeOK, AccountsInv, NEW q \in Requests, ForgotRevoke(q)
  PROVE  AccountsInv'
<1> DEFINE r == req[q]
<1>1. r.pc = "excess" /\ WaitsFor(q) = {}
  BY DEF ForgotRevoke, At
<1>2. /\ r.op # "none" /\ r.pc # "changed"
      /\ Placed(r) /\ Bound(r) /\ Locking(r) /\ Current(r)
  BY <1>1, Serving
<1>3. CASE Refuse(q)
  BY <1>2, <1>3, RefuseStep
<1>4. CASE ~Refuse(q)
  <2> DEFINE next == Moved(q, "insert")
  <2>1. Goto(q, "insert") /\ UNCHANGED <<user, sess, tok>>
    BY <1>4 DEF ForgotRevoke
  <2>2. r.op = "forgot"
    BY <1>1, <1>2 DEF Placed, Passing
  <2>3. TokenLocks(r.spent, "N") \subseteq Holding(q)
    BY <1>1, <1>2, NeedsAt DEF Holding, Bound
  <2>4. RequestInv(next)
    <3>1. /\ next.op = "forgot" /\ next.pc = "insert" /\ next.user = r.user
          /\ next.spent = r.spent /\ next.held = Holding(q) /\ next.dirty = r.dirty
          /\ next.status = r.status
      BY <2>2, GotoNext DEF Places
    <3> HIDE DEF next
    <3> QED
      BY <1>1, <1>2, <2>2, <2>3, <3>1
      DEF RequestInv, Placed, Bound, Locking, Current, Passing, ResetHasToken, ResetHasUser,
          DeleteHasUser, HasSpent
  <2> QED
    BY <1>1, <1>2, <2>1, <2>4, GotoStep DEF Places
<1> QED
  BY <1>3, <1>4

LEMMA ForgotInsertStep ==
  ASSUME TypeOK, AccountsInv, NEW q \in Requests, ForgotInsert(q)
  PROVE  AccountsInv'
<1> DEFINE r == req[q]
<1>1. r.pc = "insert" /\ WaitsFor(q) = {}
  BY DEF ForgotInsert, At
<1>2. /\ r.op # "none" /\ r.pc # "changed"
      /\ Placed(r) /\ Bound(r) /\ Locking(r) /\ Current(r)
  BY <1>1, Serving
<1>3. CASE Refuse(q)
  BY <1>2, <1>3, RefuseStep
<1>4. CASE ~Refuse(q)
  <2> DEFINE next == Moved(q, "send")
  <2>1. Exists(r.user) /\ Goto(q, "send") /\ UNCHANGED <<user, sess, tok>>
    BY <1>4 DEF ForgotInsert
  <2>2. r.op = "forgot"
    BY <1>1, <1>2 DEF Placed, Passing
  <2>3. UserLock(r.user, "K") \subseteq Holding(q) /\ r.held \subseteq Holding(q)
    BY <1>1, NeedsAt DEF Holding
  <2>4. TokenLocks(r.spent, "N") \subseteq Holding(q)
    BY <1>1, <1>2, <2>2, <2>3 DEF Locking, HasSpent
  <2>5. RequestInv(next)
    <3>1. /\ next.op = "forgot" /\ next.pc = "send" /\ next.user = r.user
          /\ next.spent = r.spent /\ next.held = Holding(q) /\ next.dirty = r.dirty
          /\ next.status = r.status
      BY <2>2, GotoNext DEF Places
    <3> HIDE DEF next
    <3> QED
      BY <1>1, <1>2, <2>1, <2>2, <2>3, <2>4, <3>1
      DEF RequestInv, Placed, Bound, Locking, Current, Passing, ResetHasToken, ResetHasUser,
          DeleteHasUser, HasSpent
  <2> QED
    BY <1>1, <1>2, <2>1, <2>5, GotoStep DEF Places
<1> QED
  BY <1>3, <1>4

LEMMA LockTokenStep ==
  ASSUME TypeOK, AccountsInv, NEW q \in Requests, LockToken(q)
  PROVE  AccountsInv'
<1> DEFINE r == req[q]
<1>1. r.pc = "token" /\ WaitsFor(q) = {}
  BY DEF LockToken, At
<1>2. /\ r.op # "none" /\ r.pc # "changed"
      /\ Placed(r) /\ Bound(r) /\ Locking(r) /\ Current(r)
  BY <1>1, Serving
<1>3. CASE Refuse(q)
  BY <1>2, <1>3, RefuseStep
<1>4. CASE ~Refuse(q)
  <2> DEFINE next == Moved(q, "user")
  <2>1. Outstanding(r.row) /\ Goto(q, "user") /\ UNCHANGED <<user, sess, tok>>
    BY <1>4 DEF LockToken
  <2>2. r.op = "reset"
    BY <1>1, <1>2 DEF Placed, Passing
  <2>3. TokenLocks({r.row}, "X") \subseteq Holding(q)
    BY <1>1, NeedsAt DEF Holding
  <2>4. tok[r.row].user = r.user
    BY <1>1, <1>2, <2>1, <2>2 DEF Current, Outstanding
  <2>5. RequestInv(next)
    <3>1. /\ next.op = "reset" /\ next.pc = "user" /\ next.user = r.user
          /\ next.row = r.row /\ next.held = Holding(q) /\ next.dirty = r.dirty
          /\ next.status = r.status
      BY <2>2, GotoNext DEF Places
    <3> HIDE DEF next
    <3> QED
      BY <1>1, <1>2, <2>1, <2>2, <2>3, <2>4, <3>1
      DEF RequestInv, Placed, Bound, Locking, Current, Passing, ResetHasToken, ResetHasUser,
          DeleteHasUser, HasSpent
  <2> QED
    BY <1>1, <1>2, <2>1, <2>5, GotoStep DEF Places
<1> QED
  BY <1>3, <1>4

LEMMA LockUserStep ==
  ASSUME TypeOK, AccountsInv, NEW q \in Requests, LockUser(q)
  PROVE  AccountsInv'
<1> DEFINE r == req[q]
<1>1. r.pc = "user" /\ WaitsFor(q) = {}
  BY DEF LockUser, At
<1>2. /\ r.op # "none" /\ r.pc # "changed"
      /\ Placed(r) /\ Bound(r) /\ Locking(r) /\ Current(r)
  BY <1>1, Serving
<1>3. CASE Refuse(q)
  BY <1>2, <1>3, RefuseStep
<1>4. CASE ~Refuse(q)
  <2> DEFINE next == Moved(q, "others")
  <2>1. Active(r.user) /\ Goto(q, "others") /\ UNCHANGED <<user, sess, tok>>
    BY <1>4 DEF LockUser
  <2>2. r.op = "reset"
    BY <1>1, <1>2 DEF Placed, Passing
  <2>3. UserLock(r.user, "X") \subseteq Holding(q) /\ r.held \subseteq Holding(q)
    BY <1>1, NeedsAt DEF Holding
  <2>4. ResetHasToken(r)
    BY <1>1, <2>2 DEF ResetHasToken
  <2>5. RequestInv(next)
    <3>1. /\ next.op = "reset" /\ next.pc = "others" /\ next.user = r.user
          /\ next.row = r.row /\ next.held = Holding(q) /\ next.dirty = r.dirty
          /\ next.status = r.status
      BY <2>2, GotoNext DEF Places
    <3> HIDE DEF next
    <3>2. Locking(next)
      BY <1>2, <2>3, <2>4, <3>1 DEF Locking, Passing, DeleteHasUser, HasSpent
    <3>3. Current(next)
      BY <1>2, <2>1, <2>4, <3>1 DEF Current, Passing
    <3> QED
      BY <1>2, <2>2, <3>1, <3>2, <3>3 DEF RequestInv, Placed, Bound
  <2> QED
    BY <1>1, <1>2, <2>1, <2>5, GotoStep DEF Places
<1> QED
  BY <1>3, <1>4

----------------------------------------------------------------------------
(* Steps that take a snapshot or note what they revoke, and the loaded object *)
(* of an administrator's target.                                              *)

(* The snapshot of an UPDATE ... WHERE.                                       *)
Snapped(r, pc, S) == [r EXCEPT !.snap = S, !.pc = pc]

LEMMA SnappedFields ==
  ASSUME NEW r \in Request, NEW pc \in Places, NEW S \in SUBSET Nat
  PROVE  LET n == Snapped(r, pc, S)
         IN  /\ n \in Request
             /\ n.op = r.op /\ n.pc = pc /\ n.user = r.user
             /\ n.actor = r.actor /\ n.row = r.row /\ n.held = r.held
             /\ n.snap = S /\ n.dead = r.dead /\ n.spent = r.spent
             /\ n.role = r.role /\ n.status = r.status /\ n.dirty = r.dirty
<1> DEFINE n == [r EXCEPT !.snap = S, !.pc = pc]
<1>1. r \in RequestOver(Places, LockSets)
  BY RequestSet
<1>3. /\ n.op = r.op /\ n.pc = pc /\ n.user = r.user
      /\ n.actor = r.actor /\ n.row = r.row /\ n.held = r.held
      /\ n.snap = S /\ n.dead = r.dead /\ n.spent = r.spent
      /\ n.role = r.role /\ n.status = r.status /\ n.dirty = r.dirty
  BY <1>1 DEF RequestOver
<1>4. n \in RequestOver(Places, LockSets)
  BY <1>1 DEF RequestOver, SessionSets, TokenSets
<1>5. n \in Request
  BY <1>4, RequestSet
<1>6. n = Snapped(r, pc, S)
  BY DEF Snapped
<1> HIDE DEF n
<1> QED
  BY <1>3, <1>5, <1>6

(* The sessions it has revoked.                                               *)
Killing(r, pc, D, H) == [r EXCEPT !.dead = D, !.snap = {}, !.held = H, !.pc = pc]

LEMMA KillingFields ==
  ASSUME NEW r \in Request, NEW pc \in Places, NEW D \in SessionSets,
         NEW H \in LockSets
  PROVE  LET n == Killing(r, pc, D, H)
         IN  /\ n \in Request
             /\ n.op = r.op /\ n.pc = pc /\ n.user = r.user
             /\ n.actor = r.actor /\ n.row = r.row /\ n.held = H
             /\ n.snap = {} /\ n.dead = D /\ n.spent = r.spent
             /\ n.role = r.role /\ n.status = r.status /\ n.dirty = r.dirty
<1> DEFINE n == [r EXCEPT !.dead = D, !.snap = {}, !.held = H, !.pc = pc]
<1>1. r \in RequestOver(Places, LockSets)
  BY RequestSet
<1>3. /\ n.op = r.op /\ n.pc = pc /\ n.user = r.user
      /\ n.actor = r.actor /\ n.row = r.row /\ n.held = H
      /\ n.snap = {} /\ n.dead = D /\ n.spent = r.spent
      /\ n.role = r.role /\ n.status = r.status /\ n.dirty = r.dirty
  BY <1>1 DEF RequestOver
<1>4. n \in RequestOver(Places, LockSets)
  BY <1>1 DEF RequestOver, SessionSets, TokenSets
<1>5. n \in Request
  BY <1>4, RequestSet
<1>6. n = Killing(r, pc, D, H)
  BY DEF Killing
<1> HIDE DEF n
<1> QED
  BY <1>3, <1>5, <1>6

(* The tokens it has revoked.                                                 *)
Spending(r, S, H) == [r EXCEPT !.spent = S, !.snap = {}, !.held = H, !.pc = "revoke"]

LEMMA SpendingFields ==
  ASSUME NEW r \in Request, NEW S \in TokenSets,
         NEW H \in LockSets
  PROVE  LET n == Spending(r, S, H)
         IN  /\ n \in Request
             /\ n.op = r.op /\ n.pc = "revoke" /\ n.user = r.user
             /\ n.actor = r.actor /\ n.row = r.row /\ n.held = H
             /\ n.snap = {} /\ n.dead = r.dead /\ n.spent = S
             /\ n.role = r.role /\ n.status = r.status /\ n.dirty = r.dirty
<1> DEFINE n == [r EXCEPT !.spent = S, !.snap = {}, !.held = H, !.pc = "revoke"]
<1>0. "revoke" \in Places
  BY DEF Places
<1>1. r \in RequestOver(Places, LockSets)
  BY RequestSet
<1>3. /\ n.op = r.op /\ n.pc = "revoke" /\ n.user = r.user
      /\ n.actor = r.actor /\ n.row = r.row /\ n.held = H
      /\ n.snap = {} /\ n.dead = r.dead /\ n.spent = S
      /\ n.role = r.role /\ n.status = r.status /\ n.dirty = r.dirty
  BY <1>1 DEF RequestOver
<1>4. n \in RequestOver(Places, LockSets)
  BY <1>0, <1>1 DEF RequestOver, SessionSets, TokenSets
<1>5. n \in Request
  BY <1>4, RequestSet
<1>6. n = Spending(r, S, H)
  BY DEF Spending
<1> HIDE DEF n
<1> QED
  BY <1>3, <1>5, <1>6

(* The changed role.                                                          *)
RoleSet(r, x) == [r EXCEPT !.pc = "writeRole", !.role = x, !.dirty = {"role"}]

LEMMA RoleSetFields ==
  ASSUME NEW r \in Request, NEW x \in {"user", "admin"}
  PROVE  LET n == RoleSet(r, x)
         IN  /\ n \in Request
             /\ n.op = r.op /\ n.pc = "writeRole" /\ n.user = r.user
             /\ n.actor = r.actor /\ n.row = r.row /\ n.held = r.held
             /\ n.snap = r.snap /\ n.dead = r.dead /\ n.spent = r.spent
             /\ n.role = x /\ n.status = r.status /\ n.dirty = {"role"}
<1> DEFINE n == [r EXCEPT !.pc = "writeRole", !.role = x, !.dirty = {"role"}]
<1>0. "writeRole" \in Places /\ {"role"} \in SUBSET {"role", "status"}
  BY DEF Places
<1>1. r \in RequestOver(Places, LockSets)
  BY RequestSet
<1>3. /\ n.op = r.op /\ n.pc = "writeRole" /\ n.user = r.user
      /\ n.actor = r.actor /\ n.row = r.row /\ n.held = r.held
      /\ n.snap = r.snap /\ n.dead = r.dead /\ n.spent = r.spent
      /\ n.role = x /\ n.status = r.status /\ n.dirty = {"role"}
  BY <1>1 DEF RequestOver
<1>4. n \in RequestOver(Places, LockSets)
  BY <1>0, <1>1 DEF RequestOver, SessionSets, TokenSets
<1>5. n \in Request
  BY <1>4, RequestSet
<1>6. n = RoleSet(r, x)
  BY DEF RoleSet
<1> HIDE DEF n
<1> QED
  BY <1>3, <1>5, <1>6

(* The changed status.                                                        *)
StatusSet(r, x) == [r EXCEPT !.pc = "writeStatus", !.status = x, !.dirty = r.dirty \cup {"status"}]

LEMMA StatusSetFields ==
  ASSUME NEW r \in Request, NEW x \in {"active", "disabled"}
  PROVE  LET n == StatusSet(r, x)
         IN  /\ n \in Request
             /\ n.op = r.op /\ n.pc = "writeStatus" /\ n.user = r.user
             /\ n.actor = r.actor /\ n.row = r.row /\ n.held = r.held
             /\ n.snap = r.snap /\ n.dead = r.dead /\ n.spent = r.spent
             /\ n.role = r.role /\ n.status = x /\ n.dirty = r.dirty \cup {"status"}
<1> DEFINE n == [r EXCEPT !.pc = "writeStatus", !.status = x, !.dirty = r.dirty \cup {"status"}]
<1>0. "writeStatus" \in Places
  BY DEF Places
<1>1. r \in RequestOver(Places, LockSets)
  BY RequestSet
<1>3. /\ n.op = r.op /\ n.pc = "writeStatus" /\ n.user = r.user
      /\ n.actor = r.actor /\ n.row = r.row /\ n.held = r.held
      /\ n.snap = r.snap /\ n.dead = r.dead /\ n.spent = r.spent
      /\ n.role = r.role /\ n.status = x /\ n.dirty = r.dirty \cup {"status"}
  BY <1>1 DEF RequestOver
<1>4. n \in RequestOver(Places, LockSets)
  BY <1>0, <1>1 DEF RequestOver, SessionSets, TokenSets
<1>5. n \in Request
  BY <1>4, RequestSet
<1>6. n = StatusSet(r, x)
  BY DEF StatusSet
<1> HIDE DEF n
<1> QED
  BY <1>3, <1>5, <1>6

LEMMA HoldingType ==
  ASSUME TypeOK, AccountsInv, NEW q \in Requests
  PROVE  Holding(q) \in LockSets
<1>1. req[q] \in Request /\ Placed(req[q]) /\ Bound(req[q])
  BY DEF TypeOK, AccountsInv, RequestInv
<1> QED
  BY <1>1, NeedsType, RequestFields DEF Holding, Modes, LockSets

LEMMA RevokeSnapshotStep ==
  ASSUME TypeOK, AccountsInv, NEW q \in Requests, RevokeSnapshot(q)
  PROVE  AccountsInv'
<1> DEFINE r == req[q]
           M == Matching(q)
           next == Snapped(r, "revoking", M)
<1>1. r.pc = "revoke" /\ WaitsFor(q) = {} /\ UNCHANGED <<user, sess, tok>>
  BY DEF RevokeSnapshot, At
<1>2. /\ r.op # "none" /\ r.pc # "changed"
      /\ Placed(r) /\ Bound(r) /\ Locking(r) /\ Current(r)
  BY <1>1, Serving
<1>3. M \subseteq SessionIds /\ M \in SUBSET Nat
  BY DEF Matching, SessionIds
<1>4. r \in Request /\ req \in [Requests -> Request]
  BY DEF TypeOK
<1>5. req' = [req EXCEPT ![q] = next]
  BY <1>4 DEF RevokeSnapshot, Snapped
<1>6. ResetHasUser(r) => \A s \in SessionsOf(r.user) : Live(s) => s \in M
  BY DEF ResetHasUser, Matching, SessionsOf
<1> HIDE DEF M
<1>7. /\ next \in Request /\ next.op = r.op /\ next.pc = "revoking" /\ next.user = r.user
      /\ next.actor = r.actor /\ next.row = r.row /\ next.held = r.held /\ next.snap = M
      /\ next.spent = r.spent /\ next.status = r.status /\ next.dirty = r.dirty
  BY <1>3, <1>4, SnappedFields DEF Places
<1> HIDE DEF next
<1>8. Placed(next) /\ Bound(next)
  BY <1>1, <1>2, <1>3, <1>7 DEF Placed, Bound, Passing
<1>9. Locking(next)
  BY <1>1, <1>2, <1>7 DEF Locking, ResetHasToken, ResetHasUser, DeleteHasUser, HasSpent, Passing
<1>10. Current(next)
  BY <1>1, <1>2, <1>6, <1>7 DEF Current, ResetHasToken, ResetHasUser, Passing
<1> QED
  BY <1>1, <1>2, <1>5, <1>7, <1>8, <1>9, <1>10, LocalStep DEF RequestInv

LEMMA RevokeSessionsStep ==
  ASSUME TypeOK, AccountsInv, NEW q \in Requests, RevokeSessions(q)
  PROVE  AccountsInv'
<1> DEFINE r == req[q]
           D == {s \in r.snap : Live(s)}
           H == Holding(q)
           pc == IF r.op \in {"revoke", "delete"} THEN "audit" ELSE "commit"
           next == Killing(r, pc, D, H)
<1>1. r.pc = "revoking" /\ WaitsFor(q) = {} /\ UNCHANGED <<user, sess, tok>>
  BY DEF RevokeSessions, At
<1>2. /\ r.op # "none" /\ r.pc # "changed"
      /\ Placed(r) /\ Bound(r) /\ Locking(r) /\ Current(r)
  BY <1>1, Serving
<1>3. D \in SessionSets
  BY <1>1, <1>2 DEF Bound, SessionSets
<1>4. r \in Request /\ req \in [Requests -> Request]
  BY DEF TypeOK
<1>5. req' = [req EXCEPT ![q] = next]
  BY <1>4 DEF RevokeSessions, Killing
<1>6. ResetHasUser(r) => \A s \in SessionsOf(r.user) : Live(s) => s \in D
  BY <1>1, <1>2 DEF Current
<1>7. H \in LockSets /\ r.held \subseteq H
  BY HoldingType DEF Holding
<1>8. /\ pc \in Places
      /\ r.op \in {"revoke", "delete"} => pc = "audit"
      /\ r.op \notin {"revoke", "delete"} => pc = "commit"
  BY DEF Places
<1> HIDE DEF D, H, pc, r
<1>9. /\ next \in Request /\ next.op = r.op /\ next.pc = pc /\ next.user = r.user
      /\ next.actor = r.actor /\ next.row = r.row /\ next.held = H /\ next.dead = D
      /\ next.spent = r.spent /\ next.status = r.status /\ next.dirty = r.dirty
  BY <1>3, <1>4, <1>7, <1>8, KillingFields
<1> HIDE DEF next
<1>10. Placed(next) /\ Bound(next)
  BY <1>1, <1>2, <1>8, <1>9 DEF Placed, Bound, Passing
<1>11. Locking(next)
  BY <1>1, <1>2, <1>7, <1>8, <1>9
  DEF Locking, ResetHasToken, ResetHasUser, DeleteHasUser, HasSpent, Passing
<1>12. Current(next)
  BY <1>1, <1>2, <1>6, <1>8, <1>9 DEF Current, ResetHasToken, ResetHasUser, Passing
<1> QED
  BY <1>1, <1>2, <1>5, <1>9, <1>10, <1>11, <1>12, LocalStep DEF RequestInv, H, r

LEMMA OthersSnapshotStep ==
  ASSUME TypeOK, AccountsInv, NEW q \in Requests, OthersSnapshot(q)
  PROVE  AccountsInv'
<1> DEFINE r == req[q]
           S == {t \in TokensOf(r.user) : Outstanding(t) /\ t # r.row}
           next == Snapped(r, "spending", S)
<1>1. r.pc = "others" /\ WaitsFor(q) = {} /\ UNCHANGED <<user, sess, tok>>
  BY DEF OthersSnapshot, At
<1>2. /\ r.op # "none" /\ r.pc # "changed"
      /\ Placed(r) /\ Bound(r) /\ Locking(r) /\ Current(r)
  BY <1>1, Serving
<1>3. S \subseteq TokenIds /\ S \in SUBSET Nat
  BY DEF TokensOf, TokenIds
<1>4. r \in Request /\ req \in [Requests -> Request]
  BY DEF TypeOK
<1>5. req' = [req EXCEPT ![q] = next]
  BY <1>4 DEF OthersSnapshot, Snapped
<1>6. \A t \in TokensOf(r.user) : Outstanding(t) => t \in S \cup {r.row}
  OBVIOUS
<1> HIDE DEF S
<1>7. /\ next \in Request /\ next.op = r.op /\ next.pc = "spending" /\ next.user = r.user
      /\ next.actor = r.actor /\ next.row = r.row /\ next.held = r.held /\ next.snap = S
      /\ next.spent = r.spent /\ next.status = r.status /\ next.dirty = r.dirty
  BY <1>3, <1>4, SnappedFields DEF Places
<1> HIDE DEF next
<1>8. Placed(next) /\ Bound(next)
  BY <1>1, <1>2, <1>3, <1>7 DEF Placed, Bound, Passing
<1>9. Locking(next)
  BY <1>1, <1>2, <1>7 DEF Locking, ResetHasToken, ResetHasUser, DeleteHasUser, HasSpent, Passing
<1>10. Current(next)
  BY <1>1, <1>2, <1>6, <1>7 DEF Current, ResetHasToken, ResetHasUser, Passing
<1> QED
  BY <1>1, <1>2, <1>5, <1>7, <1>8, <1>9, <1>10, LocalStep, Serving DEF RequestInv, Placed, Passing

LEMMA RevokeTokensStep ==
  ASSUME TypeOK, AccountsInv, NEW q \in Requests, RevokeTokens(q)
  PROVE  AccountsInv'
<1> DEFINE r == req[q]
           S == {t \in r.snap : Outstanding(t)}
           H == Holding(q)
           next == Spending(r, S, H)
<1>1. r.pc = "spending" /\ WaitsFor(q) = {} /\ UNCHANGED <<user, sess, tok>>
  BY DEF RevokeTokens, At
<1>2. /\ r.op # "none" /\ r.pc # "changed"
      /\ Placed(r) /\ Bound(r) /\ Locking(r) /\ Current(r)
  BY <1>1, Serving
<1>3. S \in TokenSets
  BY <1>1, <1>2 DEF Bound, TokenSets
<1>4. r \in Request /\ req \in [Requests -> Request]
  BY DEF TypeOK
<1>5. req' = [req EXCEPT ![q] = next]
  BY <1>4 DEF RevokeTokens, Spending
<1>6. ResetHasUser(r) => \A t \in TokensOf(r.user) : Outstanding(t) => t \in S \cup {r.row}
  BY <1>1, <1>2 DEF Current
<1>7. /\ H \in LockSets /\ r.held \subseteq H
      /\ TokenLocks(S, "N") \subseteq H
  <2>1. Needs(q) = TokenLocks(r.snap, "N") /\ S \subseteq r.snap
    BY <1>1, NeedsAt
  <2> HIDE DEF S
  <2>2. TokenLocks(S, "N") \subseteq TokenLocks(r.snap, "N")
    BY <2>1 DEF TokenLocks
  <2> QED
    BY <2>1, <2>2, HoldingType DEF Holding
<1> HIDE DEF S, H, r
<1>8. /\ next \in Request /\ next.op = r.op /\ next.pc = "revoke" /\ next.user = r.user
      /\ next.actor = r.actor /\ next.row = r.row /\ next.held = H
      /\ next.spent = S /\ next.status = r.status /\ next.dirty = r.dirty
  BY <1>3, <1>4, <1>7, SpendingFields
<1> HIDE DEF next
<1>9. Placed(next) /\ Bound(next)
  BY <1>1, <1>2, <1>8 DEF Placed, Bound, Passing
<1>10. Locking(next)
  <2>1. /\ r.op \in {"reset", "setpw"}
        /\ r.op = "reset" => ResetHasUser(r) /\ ResetHasToken(r)
    BY <1>1, <1>2 DEF Placed, ResetHasUser, ResetHasToken, Passing
  <2>2. r.op = "reset" => UserLock(r.user, "X") \subseteq H /\ TokenLocks({r.row}, "X") \subseteq H
    BY <1>2, <1>7, <2>1 DEF Locking
  <2>3. /\ ResetHasUser(next) => r.op = "reset"
        /\ ResetHasToken(next) => r.op = "reset"
        /\ ~DeleteHasUser(next) /\ ~(next.op = "delete" /\ next.pc = "commit")
        /\ next.pc \notin {"rotated", "send"}
    BY <1>8, <2>1 DEF ResetHasUser, ResetHasToken, DeleteHasUser
  <2> QED
    BY <1>7, <1>8, <2>2, <2>3 DEF Locking
<1>11. Current(next)
  BY <1>1, <1>2, <1>6, <1>8 DEF Current, ResetHasToken, ResetHasUser, Passing
<1> QED
  BY <1>1, <1>2, <1>5, <1>8, <1>9, <1>10, <1>11, LocalStep DEF RequestInv, Placed, Passing, H, r

----------------------------------------------------------------------------
(* An administrator's request.                                                *)

LEMMA UpdateRequest ==
  ASSUME NEW r, r.op = "update", Placed(r), Bound(r)
  PROVE  RequestInv(r)
<1>1. /\ r.pc \notin {"rotated", "send", "rotate"}
      /\ ~HasSpent(r) /\ ~ResetHasToken(r) /\ ~ResetHasUser(r) /\ ~DeleteHasUser(r)
  BY DEF Placed, Passing, HasSpent, ResetHasToken, ResetHasUser, DeleteHasUser
<1> QED
  BY <1>1 DEF RequestInv, Locking, Current

LEMMA CheckRoleStep ==
  ASSUME TypeOK, AccountsInv, NEW q \in Requests, CheckRole(q)
  PROVE  AccountsInv'
<1> DEFINE r == req[q]
           new == RoleSet(r, r.toRole)
<1>1. r.pc = "role" /\ WaitsFor(q) = {} /\ r \in Request /\ req \in [Requests -> Request]
  BY DEF CheckRole, At, TypeOK
<1>2. /\ r.op # "none" /\ r.pc # "changed"
      /\ Placed(r) /\ Bound(r) /\ Locking(r) /\ Current(r)
  BY <1>1, Serving
<1>3. r.op = "update"
  BY <1>1, <1>2 DEF Placed, Passing
<1>4. CASE Refuse(q)
  BY <1>2, <1>4, RefuseStep
<1>5. CASE Goto(q, "checkStatus") /\ UNCHANGED <<user, sess, tok>>
  <2> DEFINE next == Moved(q, "checkStatus")
  <2>1. /\ next.op = "update" /\ next.pc = "checkStatus" /\ next.user = r.user
        /\ next.actor = r.actor /\ next.dirty = r.dirty /\ next.status = r.status
    BY <1>3, GotoNext DEF Places
  <2> HIDE DEF next
  <2>2. Placed(next) /\ Bound(next)
    BY <1>2, <1>3, <2>1 DEF Placed, Bound, Passing
  <2>3. RequestInv(next)
    BY <2>1, <2>2, UpdateRequest
  <2> QED
    BY <1>1, <1>2, <1>5, <2>3, GotoStep DEF Places, next
<1>6. CASE /\ r.toRole \notin {None, r.role} /\ UNCHANGED <<user, sess, tok>>
           /\ req' = [req EXCEPT ![q].pc = "writeRole", ![q].role = r.toRole, ![q].dirty = {"role"}]
  <2>1. r.toRole \in {"user", "admin"}
    BY <1>1, <1>6, RequestFields
  <2>2. req' = [req EXCEPT ![q] = new]
    BY <1>1, <1>6 DEF RoleSet
  <2>3. /\ new \in Request /\ new.op = "update" /\ new.pc = "writeRole" /\ new.user = r.user
        /\ new.actor = r.actor /\ new.held = r.held /\ new.dirty = {"role"}
    BY <1>1, <1>3, <2>1, RoleSetFields
  <2> HIDE DEF new
  <2>4. Placed(new) /\ Bound(new)
    BY <1>2, <1>3, <2>3 DEF Placed, Bound, Passing
  <2>5. RequestInv(new)
    BY <2>3, <2>4, UpdateRequest
  <2> QED
    BY <1>1, <1>2, <1>6, <2>2, <2>3, <2>5, LocalStep
<1> QED
  BY <1>4, <1>5, <1>6 DEF CheckRole

LEMMA CheckStatusStep ==
  ASSUME TypeOK, AccountsInv, NEW q \in Requests, CheckStatus(q)
  PROVE  AccountsInv'
<1> DEFINE r == req[q]
           new == StatusSet(r, r.toStatus)
<1>1. r.pc = "checkStatus" /\ WaitsFor(q) = {} /\ r \in Request /\ req \in [Requests -> Request]
  BY DEF CheckStatus, At, TypeOK
<1>2. /\ r.op # "none" /\ r.pc # "changed"
      /\ Placed(r) /\ Bound(r) /\ Locking(r) /\ Current(r)
  BY <1>1, Serving
<1>3. r.op = "update"
  BY <1>1, <1>2 DEF Placed, Passing
<1>4. CASE Refuse(q)
  BY <1>2, <1>4, RefuseStep
<1>5. CASE Goto(q, "commit") /\ UNCHANGED <<user, sess, tok>>
  <2> DEFINE next == Moved(q, "commit")
  <2>1. /\ next.op = "update" /\ next.pc = "commit" /\ next.user = r.user
        /\ next.actor = r.actor /\ next.dirty = r.dirty /\ next.status = r.status
    BY <1>3, GotoNext DEF Places
  <2> HIDE DEF next
  <2>2. Placed(next) /\ Bound(next)
    BY <1>2, <1>3, <2>1 DEF Placed, Bound, Passing
  <2>3. RequestInv(next)
    BY <2>1, <2>2, UpdateRequest
  <2> QED
    BY <1>1, <1>2, <1>5, <2>3, GotoStep DEF Places, next
<1>6. CASE /\ r.toStatus \notin {None, r.status} /\ UNCHANGED <<user, sess, tok>>
           /\ req' = [req EXCEPT ![q].pc = "writeStatus", ![q].status = r.toStatus,
                                 ![q].dirty = @ \cup {"status"}]
  <2>1. r.toStatus \in {"active", "disabled"}
    BY <1>1, <1>6, RequestFields
  <2>2. req' = [req EXCEPT ![q] = new]
    BY <1>1, <1>6 DEF StatusSet
  <2>3. /\ new \in Request /\ new.op = "update" /\ new.pc = "writeStatus" /\ new.user = r.user
        /\ new.actor = r.actor /\ new.held = r.held /\ new.status \in {"active", "disabled"}
    BY <1>1, <1>3, <2>1, StatusSetFields
  <2> HIDE DEF new
  <2>4. Placed(new) /\ Bound(new)
    BY <1>2, <1>3, <2>3 DEF Placed, Bound, Passing
  <2>5. RequestInv(new)
    BY <2>3, <2>4, UpdateRequest
  <2> QED
    BY <1>1, <1>2, <1>6, <2>2, <2>3, <2>5, LocalStep
<1> QED
  BY <1>4, <1>5, <1>6 DEF CheckStatus

LEMMA FlushStep ==
  ASSUME TypeOK, AccountsInv, NEW q \in Requests, FlushUser(q) \/ FlushAudit(q)
  PROVE  AccountsInv'
<1> DEFINE r == req[q]
<1>1. /\ r.pc \in {"writeRole", "writeStatus", "auditRole", "auditStatus"} /\ WaitsFor(q) = {}
  BY DEF FlushUser, FlushAudit
<1>2. /\ r.op # "none" /\ r.pc # "changed"
      /\ Placed(r) /\ Bound(r) /\ Locking(r) /\ Current(r)
  BY <1>1, Serving
<1>3. r.op = "update"
  BY <1>1, <1>2 DEF Placed, Passing
<1>4. CASE Refuse(q)
  BY <1>2, <1>4, RefuseStep
<1>5. ASSUME NEW pc \in {"auditRole", "auditStatus", "checkStatus", "revoke", "commit"},
             Goto(q, pc), UNCHANGED <<user, sess, tok>>
      PROVE  AccountsInv'
  <2> DEFINE next == Moved(q, pc)
  <2>0. pc \in Places
    BY DEF Places
  <2>1. /\ next.op = "update" /\ next.pc = pc /\ next.user = r.user
        /\ next.actor = r.actor /\ next.dirty = r.dirty /\ next.status = r.status
    BY <1>3, <2>0, GotoNext
  <2> HIDE DEF next
  <2>2. Placed(next) /\ Bound(next)
    BY <1>2, <1>3, <2>1 DEF Placed, Bound, Passing
  <2>3. RequestInv(next)
    BY <2>1, <2>2, UpdateRequest
  <2> QED
    BY <1>1, <1>2, <1>5, <2>0, <2>3, GotoStep DEF next
<1>6. CASE FlushUser(q)
  BY <1>4, <1>5, <1>6 DEF FlushUser
<1>7. CASE FlushAudit(q)
  BY <1>4, <1>5, <1>7 DEF FlushAudit
<1> QED
  BY <1>6, <1>7

LEMMA LockTargetStep ==
  ASSUME TypeOK, AccountsInv, NEW q \in Requests, LockTarget(q)
  PROVE  AccountsInv'
<1> DEFINE r == req[q]
<1>1. r.pc = "target" /\ WaitsFor(q) = {}
  BY DEF LockTarget, At
<1>2. /\ r.op # "none" /\ r.pc # "changed"
      /\ Placed(r) /\ Bound(r) /\ Locking(r) /\ Current(r)
  BY <1>1, Serving
<1>3. CASE Refuse(q)
  BY <1>2, <1>3, RefuseStep
<1>4. CASE ~Refuse(q)
  <2> DEFINE next == Moved(q, "guard")
  <2>1. Goto(q, "guard") /\ UNCHANGED <<user, sess, tok>>
    BY <1>4 DEF LockTarget
  <2>2. r.op = "delete"
    BY <1>1, <1>2 DEF Placed, Passing
  <2>3. UserLock(r.user, "X") \subseteq Holding(q)
    BY <1>1, NeedsAt DEF Holding
  <2>5. RequestInv(next)
    <3>1. /\ next.op = "delete" /\ next.pc = "guard" /\ next.user = r.user
          /\ next.actor = r.actor /\ next.held = Holding(q) /\ next.dirty = r.dirty
          /\ next.status = r.status
      BY <2>2, GotoNext DEF Places
    <3> HIDE DEF next
    <3> QED
      BY <1>1, <1>2, <2>1, <2>2, <2>3, <3>1
      DEF RequestInv, Placed, Bound, Locking, Current, Passing, ResetHasToken, ResetHasUser,
          DeleteHasUser, HasSpent
  <2> QED
    BY <1>1, <1>2, <2>1, <2>5, GotoStep DEF Places
<1> QED
  BY <1>3, <1>4

LEMMA DeleteGuardStep ==
  ASSUME TypeOK, AccountsInv, NEW q \in Requests, DeleteGuard(q)
  PROVE  AccountsInv'
<1> DEFINE r == req[q]
<1>1. r.pc = "guard" /\ WaitsFor(q) = {}
  BY DEF DeleteGuard, At
<1>2. /\ r.op # "none" /\ r.pc # "changed"
      /\ Placed(r) /\ Bound(r) /\ Locking(r) /\ Current(r)
  BY <1>1, Serving
<1>3. CASE Refuse(q)
  BY <1>2, <1>3, RefuseStep
<1>4. CASE ~Refuse(q)
  <2> DEFINE next == Moved(q, "revoke")
  <2>1. r.actor # r.user /\ Goto(q, "revoke") /\ UNCHANGED <<user, sess, tok>>
    BY <1>4 DEF DeleteGuard
  <2>2. r.op = "delete" /\ DeleteHasUser(r)
    BY <1>1, <1>2 DEF Placed, Passing, DeleteHasUser
  <2>3. UserLock(r.user, "X") \subseteq Holding(q)
    BY <1>2, <2>2 DEF Holding, Locking
  <2>5. RequestInv(next)
    <3>1. /\ next.op = "delete" /\ next.pc = "revoke" /\ next.user = r.user
          /\ next.actor = r.actor /\ next.held = Holding(q) /\ next.dirty = r.dirty
          /\ next.status = r.status
      BY <2>2, GotoNext DEF Places
    <3> HIDE DEF next
    <3> QED
      BY <1>1, <1>2, <2>1, <2>2, <2>3, <3>1
      DEF RequestInv, Placed, Bound, Locking, Current, Passing, ResetHasToken, ResetHasUser,
          DeleteHasUser, HasSpent
  <2> QED
    BY <1>1, <1>2, <2>1, <2>5, GotoStep DEF Places
<1> QED
  BY <1>3, <1>4

LEMMA AuditTargetStep ==
  ASSUME TypeOK, AccountsInv, NEW q \in Requests, AuditTarget(q)
  PROVE  AccountsInv'
<1> DEFINE r == req[q]
<1>1. r.pc = "audit" /\ WaitsFor(q) = {}
  BY DEF AuditTarget, At
<1>2. /\ r.op # "none" /\ r.pc # "changed"
      /\ Placed(r) /\ Bound(r) /\ Locking(r) /\ Current(r)
  BY <1>1, Serving
<1>3. CASE Refuse(q)
  BY <1>2, <1>3, RefuseStep
<1>4. CASE ~Refuse(q)
  <2> DEFINE next == Moved(q, "commit")
  <2>1. Exists(r.actor) /\ Goto(q, "commit") /\ UNCHANGED <<user, sess, tok>>
    BY <1>4 DEF AuditTarget
  <2>2. r.op \in {"revoke", "delete"} /\ (r.op = "delete" => DeleteHasUser(r))
    BY <1>1, <1>2 DEF Placed, Passing, DeleteHasUser
  <2>3. UserLock(r.actor, "K") \subseteq Holding(q) /\ r.held \subseteq Holding(q)
    BY <1>1, NeedsAt DEF Holding, AuditNeeds
  <2>4. r.op = "delete" => UserLock(r.user, "X") \subseteq Holding(q)
    BY <1>2, <2>2, <2>3 DEF Locking
  <2>5. RequestInv(next)
    <3>1. /\ next.op = r.op /\ next.pc = "commit" /\ next.user = r.user
          /\ next.actor = r.actor /\ next.held = Holding(q) /\ next.dirty = r.dirty
          /\ next.status = r.status
      BY GotoNext DEF Places
    <3> HIDE DEF next
    <3> QED
      BY <1>1, <1>2, <2>1, <2>2, <2>3, <2>4, <3>1
      DEF RequestInv, Placed, Bound, Locking, Current, Passing, ResetHasToken, ResetHasUser,
          DeleteHasUser, HasSpent
  <2> QED
    BY <1>1, <1>2, <2>1, <2>5, GotoStep DEF Places
<1> QED
  BY <1>3, <1>4

(* Only a request that waits is the victim of a deadlock.                     *)
LEMMA DeadlockVictimStep ==
  ASSUME TypeOK, AccountsInv, NEW q \in Requests, DeadlockVictim(q)
  PROVE  AccountsInv'
<1>1. InCycle(q) /\ Refuse(q)
  BY DEF DeadlockVictim
<1>2. WaitsFor(q) # {}
  BY <1>1, Zenon DEF InCycle
<1>3. req[q].pc # "changed"
  BY <1>2, NeedsAt DEF WaitsFor
<1> QED
  BY <1>1, <1>3, RefuseStep

----------------------------------------------------------------------------
(* Commits. What a commit of q may do to the rows without taking anything     *)
(* from the other requests: it takes no account, session or token from        *)
(* anybody who holds it, and gives an account new sessions and tokens only    *)
(* if nobody has locked it.                                                   *)
NobodyElse(q, row, m) == \A p \in Requests \ {q} : ~Holds(p, row, m)

UserFrame(q) ==
  \A u \in Users :
    /\ Active(u) => Active(u)' \/ NobodyElse(q, <<"user", u>>, "X")
    /\ Exists(u) => Exists(u)' \/ (NobodyElse(q, <<"user", u>>, "X")
                                     /\ NobodyElse(q, <<"user", u>>, "K"))
    /\ user[u].status = "deleted" => user'[u].status = "deleted"

SessionFrame(q) ==
  \A s \in SessionIds :
    /\ sess[s].user # None =>
         \/ sess'[s].user = sess[s].user
         \/ sess'[s].user = None /\ user'[sess[s].user].status = "deleted"
    /\ Live(s)' =>
         \/ Live(s) /\ sess'[s].user = sess[s].user
         \/ ~Active(sess'[s].user)
         \/ NobodyElse(q, <<"user", sess'[s].user>>, "X")

TokenFrame(q) ==
  \A t \in TokenIds :
    /\ tok[t].user # None =>
         tok'[t].user = tok[t].user \/ (tok'[t].user = None /\ tok'[t].revoked)
    /\ tok[t].user = None /\ tok[t].revoked => tok'[t].user = None /\ tok'[t].revoked
    /\ Outstanding(t) => \/ Outstanding(t)' /\ tok'[t].user = tok[t].user
                         \/ NobodyElse(q, <<"tok", t>>, "X")
    /\ Outstanding(t)' => \/ Outstanding(t) /\ tok'[t].user = tok[t].user
                          \/ NobodyElse(q, <<"user", tok'[t].user>>, "X")

LEMMA Claims ==
  ASSUME NEW p \in Requests, Locking(req[p])
  PROVE  LET r == req[p] IN
         /\ r.pc \in {"rotated", "send"} => Holds(p, <<"user", r.user>>, "K")
         /\ ResetHasUser(r) \/ DeleteHasUser(r) => Holds(p, <<"user", r.user>>, "X")
         /\ ResetHasToken(r) => Holds(p, <<"tok", r.row>>, "X")
         /\ HasSpent(r) => \A t \in r.spent : Holds(p, <<"tok", t>>, "N")
         /\ r.op = "delete" /\ r.pc = "commit" => Holds(p, <<"user", r.actor>>, "K")
  BY DEF Locking, Holds, UserLock, TokenLocks

LEMMA OtherKept ==
  ASSUME TypeOK, AccountsInv, NEW q \in Requests, UserFrame(q), SessionFrame(q), TokenFrame(q),
         NEW p \in Requests \ {q}, req'[p] = req[p]
  PROVE  RequestInv(req[p])'
<1> DEFINE r == req[p]
<1>1. Placed(r) /\ Bound(r) /\ Locking(r) /\ Current(r)
  BY DEF AccountsInv, RequestInv
<1>2. /\ r.pc \in {"rotated", "send"} => Holds(p, <<"user", r.user>>, "K")
      /\ ResetHasUser(r) => Holds(p, <<"user", r.user>>, "X")
      /\ ResetHasToken(r) => Holds(p, <<"tok", r.row>>, "X")
      /\ r.op = "delete" /\ r.pc = "commit" => Holds(p, <<"user", r.actor>>, "K")
  BY <1>1, Claims
<1>3. /\ r.op # "none" => r.user \in Users /\ r.user # None
      /\ r.op = "delete" => r.actor \in Users
      /\ r.op = "refresh" => r.row \in SessionIds
      /\ r.op = "reset" => r.row \in TokenIds
  BY <1>1, AccountConstants DEF Bound
<1>4. ASSUME NEW row, NEW m, NobodyElse(q, row, m) PROVE ~Holds(p, row, m)
  BY <1>4 DEF NobodyElse
<1>5. r.op = "refresh" /\ r.pc = "rotate" =>
        sess'[r.row].user = r.user \/ user'[r.user].status = "deleted"
  BY <1>1, <1>3 DEF Current, SessionFrame, UserFrame
<1>6. r.pc = "rotated" => Exists(r.user)' /\ sess'[r.row].user = r.user
  <2> SUFFICES ASSUME r.pc = "rotated" PROVE Exists(r.user)' /\ sess'[r.row].user = r.user
    OBVIOUS
  <2>1. r.op = "refresh" /\ Exists(r.user) /\ sess[r.row].user = r.user
    BY <1>1 DEF Placed, Current, Passing
  <2>2. user'[r.user].status \in {"active", "disabled"}
    BY <1>2, <1>3, <1>4, <2>1 DEF UserFrame, Exists
  <2> QED
    BY <1>3, <2>1, <2>2 DEF SessionFrame, Exists
<1>7. r.pc = "send" => Exists(r.user)'
  <2> SUFFICES ASSUME r.pc = "send" PROVE Exists(r.user)'
    OBVIOUS
  <2>1. r.op = "forgot" /\ Exists(r.user)
    BY <1>1 DEF Placed, Current, Passing
  <2> QED
    BY <1>2, <1>3, <1>4, <2>1 DEF UserFrame
<1>8. r.op = "reset" /\ r.pc = "token" =>
        tok'[r.row].user = r.user \/ (tok'[r.row].user = None /\ tok'[r.row].revoked)
  BY <1>1, <1>3 DEF Current, TokenFrame
<1>9. ResetHasToken(r) => Outstanding(r.row)' /\ tok'[r.row].user = r.user
  <2> SUFFICES ASSUME ResetHasToken(r) PROVE Outstanding(r.row)' /\ tok'[r.row].user = r.user
    OBVIOUS
  <2>1. r.op = "reset" /\ Outstanding(r.row) /\ tok[r.row].user = r.user
    BY <1>1 DEF Current, ResetHasToken
  <2> QED
    BY <1>2, <1>3, <1>4, <2>1 DEF TokenFrame
<1>10. ASSUME ResetHasUser(r)
       PROVE  /\ Active(r.user)'
              /\ \A t \in TokenIds : tok'[t].user = r.user /\ Outstanding(t)' =>
                    tok[t].user = r.user /\ Outstanding(t)
              /\ \A s \in SessionIds : sess'[s].user = r.user /\ Live(s)' =>
                    sess[s].user = r.user /\ Live(s)
  <2>1. r.op = "reset" /\ Active(r.user)
    BY <1>1, <1>10 DEF Current, ResetHasUser
  <2>2. ~NobodyElse(q, <<"user", r.user>>, "X")
    BY <1>2, <1>4, <1>10
  <2>3. Active(r.user)'
    BY <1>3, <2>1, <2>2 DEF UserFrame
  <2>4. ASSUME NEW t \in TokenIds, tok'[t].user = r.user, Outstanding(t)'
        PROVE  tok[t].user = r.user /\ Outstanding(t)
    BY <2>2, <2>4 DEF TokenFrame
  <2>5. ASSUME NEW s \in SessionIds, sess'[s].user = r.user, Live(s)'
        PROVE  sess[s].user = r.user /\ Live(s)
    BY <2>1, <2>2, <2>5 DEF SessionFrame
  <2> QED
    BY <2>3, <2>4, <2>5
<1>11. r.op = "delete" /\ r.pc = "commit" => Exists(r.actor)'
  <2> SUFFICES ASSUME r.op = "delete" /\ r.pc = "commit" PROVE Exists(r.actor)'
    OBVIOUS
  <2>1. Exists(r.actor)
    BY <1>1 DEF Current
  <2> QED
    BY <1>2, <1>3, <1>4, <2>1 DEF UserFrame
<1> DEFINE TokensIn(S) == \A t \in TokenIds : tok[t].user = r.user /\ Outstanding(t) => t \in S
           TokensInNow(S) == \A t \in TokenIds : tok'[t].user = r.user /\ Outstanding(t)' => t \in S
           SessionsIn(S) == \A s \in SessionIds : sess[s].user = r.user /\ Live(s) => s \in S
           SessionsInNow(S) == \A s \in SessionIds : sess'[s].user = r.user /\ Live(s)' => s \in S
<1>12. ASSUME ResetHasUser(r)
       PROVE  /\ r.pc = "spending" => TokensInNow(r.snap \cup {r.row})
              /\ r.pc \in Passing => TokensInNow(r.spent \cup {r.row})
              /\ r.pc = "revoking" => SessionsInNow(r.snap)
              /\ r.pc = "commit" => SessionsInNow(r.dead)
  <2>1. /\ r.pc = "spending" => TokensIn(r.snap \cup {r.row})
        /\ r.pc \in Passing => TokensIn(r.spent \cup {r.row})
        /\ r.pc = "revoking" => SessionsIn(r.snap)
        /\ r.pc = "commit" => SessionsIn(r.dead)
    BY <1>1, <1>12 DEF Current, TokensOf, SessionsOf
  <2>2. ASSUME NEW S PROVE (TokensIn(S) => TokensInNow(S)) /\ (SessionsIn(S) => SessionsInNow(S))
    BY <1>10, <1>12
  <2> HIDE DEF TokensIn, TokensInNow, SessionsIn, SessionsInNow
  <2> QED
    BY <2>1, <2>2
<1>13. req'[p] = r
  OBVIOUS
<1>14. Current(req[p])'
  <2>1. ASSUME ResetHasUser(r)
        PROVE  /\ r.pc = "spending" =>
                    \A t \in TokenIds : tok'[t].user = r.user =>
                      (Outstanding(t)' => t \in r.snap \cup {r.row})
               /\ r.pc \in Passing =>
                    \A t \in TokenIds : tok'[t].user = r.user =>
                      (Outstanding(t)' => t \in r.spent \cup {r.row})
               /\ r.pc = "revoking" =>
                    \A s \in SessionIds : sess'[s].user = r.user => (Live(s)' => s \in r.snap)
               /\ r.pc = "commit" =>
                    \A s \in SessionIds : sess'[s].user = r.user => (Live(s)' => s \in r.dead)
    BY <1>12, <2>1
  <2>2. ASSUME ResetHasUser(r)
        PROVE  /\ Active(r.user)'
               /\ (r.pc = "spending" =>
                    \A t \in TokensOf(r.user) : Outstanding(t) => t \in r.snap \cup {r.row})'
               /\ (r.pc \in Passing =>
                    \A t \in TokensOf(r.user) : Outstanding(t) => t \in r.spent \cup {r.row})'
               /\ (r.pc = "revoking" => \A s \in SessionsOf(r.user) : Live(s) => s \in r.snap)'
               /\ (r.pc = "commit" => \A s \in SessionsOf(r.user) : Live(s) => s \in r.dead)'
    BY <1>10, <1>13, <2>1, <2>2 DEF TokensOf, SessionsOf
  <2>3. /\ (ResetHasToken(r) => Outstanding(r.row) /\ tok[r.row].user = r.user)'
        /\ (r.op = "refresh" /\ r.pc = "rotate" =>
               sess[r.row].user = r.user \/ user[r.user].status = "deleted")'
        /\ (r.op = "reset" /\ r.pc = "token" =>
               tok[r.row].user = r.user \/ (tok[r.row].user = None /\ tok[r.row].revoked))'
        /\ (r.pc = "rotated" => Exists(r.user) /\ sess[r.row].user = r.user)'
        /\ (r.pc = "send" => Exists(r.user))'
        /\ (r.op = "delete" /\ r.pc = "commit" => Exists(r.actor))'
    BY <1>5, <1>6, <1>7, <1>8, <1>9, <1>11, <1>13 DEF ResetHasToken
  <2>4. ResetHasUser(r)' <=> ResetHasUser(r)
    BY <1>13 DEF ResetHasUser
  <2> QED
    BY <2>2, <2>3, <2>4 DEF Current
<1>15. Placed(req[p])' /\ Bound(req[p])' /\ Locking(req[p])'
  BY <1>1, <1>13 DEF Placed, Bound, Locking, ResetHasToken, ResetHasUser, DeleteHasUser, HasSpent,
                     UserLock, TokenLocks
<1> QED
  BY <1>14, <1>15 DEF RequestInv

(* The requests after a commit.                                               *)
LEMMA AfterCommit ==
  ASSUME TypeOK, AccountsInv, NEW q \in Requests, NEW outcome \in {"answered", "changed"},
         End(q, outcome), UserFrame(q), SessionFrame(q), TokenFrame(q)
  PROVE  /\ req' \in [Requests -> Request]
         /\ LocksExclude'
         /\ \A p \in Requests : RequestInv(req[p])'
         /\ req'[q].op = "none" /\ req'[q].pc = outcome
         /\ \A p \in Requests \ {q} : req'[p] = req[p]
<1> DEFINE next == [IdleRequest EXCEPT !.pc = outcome]
<1>1. req \in [Requests -> Request] /\ req' = [req EXCEPT ![q] = next]
  BY DEF TypeOK, End
<1>2. /\ next \in Request /\ next.op = "none" /\ next.pc = outcome /\ next.held = {}
      /\ next.dirty = {}
  BY IdleType
<1> HIDE DEF next
<1>3. LocksExclude'
  BY <1>1, <1>2, Granted DEF AccountsInv
<1>4. req'[q] = next /\ \A p \in Requests \ {q} : req'[p] = req[p]
  BY <1>1
<1>5. RequestInv(req[q])'
  BY <1>2, <1>4 DEF RequestInv, Placed, Bound, Locking, Current, Passing, ResetHasToken,
                    ResetHasUser, DeleteHasUser, HasSpent
<1>6. \A p \in Requests \ {q} : RequestInv(req[p])'
  BY <1>4, OtherKept
<1> QED
  BY <1>1, <1>2, <1>3, <1>4, <1>5, <1>6

----------------------------------------------------------------------------
(* Sessions: revoked, opened, exchanged.                                      *)

Ended(x) == [x EXCEPT !.revoked = TRUE]

LEMMA SessionRevoked ==
  ASSUME NEW x \in Session
  PROVE  /\ Ended(x) \in Session /\ Ended(x).revoked = TRUE
         /\ Ended(x).user = x.user /\ Ended(x).family = x.family
         /\ Ended(x).parent = x.parent /\ Ended(x).at = x.at
  BY DEF Session, Ended

LEMMA SessionsRevoked ==
  ASSUME TypeOK, NEW D,
         sess' = [s \in SessionIds |-> IF s \in D THEN [sess[s] EXCEPT !.revoked = TRUE] ELSE sess[s]]
  PROVE  /\ sess' \in [SessionIds -> Session]
         /\ \A s \in SessionIds :
              /\ sess'[s].user = sess[s].user /\ sess'[s].family = sess[s].family
              /\ sess'[s].parent = sess[s].parent /\ sess'[s].at = sess[s].at
              /\ sess[s].revoked => sess'[s].revoked
              /\ Live(s)' <=> Live(s) /\ s \notin D
         /\ FamilyInv => FamilyInv'
<1>1. sess \in [SessionIds -> Session]
  BY DEF TypeOK
<1>2. ASSUME NEW s \in SessionIds
      PROVE  /\ sess'[s] \in Session
             /\ sess'[s].user = sess[s].user /\ sess'[s].family = sess[s].family
             /\ sess'[s].parent = sess[s].parent /\ sess'[s].at = sess[s].at
             /\ sess[s].revoked => sess'[s].revoked
             /\ Live(s)' <=> Live(s) /\ s \notin D
  <2>1. CASE s \in D
    <3>1. sess'[s] = Ended(sess[s]) /\ sess[s] \in Session
      BY <1>1, <2>1 DEF Ended
    <3> QED
      BY <2>1, <3>1, SessionRevoked DEF Live
  <2>2. CASE s \notin D
    <3>1. sess'[s] = sess[s] /\ sess[s] \in Session
      BY <1>1, <2>2
    <3> QED
      BY <2>2, <3>1 DEF Live
  <2> QED
    BY <2>1, <2>2
<1>3. sess' \in [SessionIds -> Session]
  BY <1>2
<1>4. FamilyInv => FamilyInv'
  <2>1. \A s \in SessionIds : sess[s].parent \in SessionIds \cup {0}
    BY <1>1 DEF Session
  <2> QED
    BY <1>2, <2>1 DEF FamilyInv
<1> QED
  BY <1>2, <1>3, <1>4

LEMMA FreeSessionIs ==
  ASSUME RoomForSession
  PROVE  FreeSession \in SessionIds /\ sess[FreeSession] = NoSession
  BY DEF RoomForSession, FreeSession

LEMMA NewSessionFields ==
  ASSUME TypeOK, NEW u \in Users, NEW f \in SessionIds, NEW p, p \in SessionIds \/ p = 0
  PROVE  \E new \in Session :
           /\ new = NewSession(u, f, p)
           /\ new.user = u /\ new.family = f /\ new.parent = p
           /\ new.at = user[u].resets
<1>1. user[u].resets \in Nat
  BY DEF TypeOK, User
<1> DEFINE new == [user |-> u, family |-> f, revoked |-> FALSE, expired |-> FALSE,
                   parent |-> p, at |-> user[u].resets]
<1>2. /\ new \in Session /\ new.user = u /\ new.family = f /\ new.parent = p
      /\ new.at = user[u].resets
  BY <1>1 DEF Session
<1>3. new = NewSession(u, f, p)
  BY DEF NewSession
<1> HIDE DEF new
<1> QED
  BY <1>2, <1>3

(* A login or a registration opens a family.                                  *)
LEMMA SessionOpened ==
  ASSUME TypeOK, FamilyInv, NEW n \in SessionIds, sess[n] = NoSession,
         NEW u \in Users, NEW new \in Session, new.user = u, new.family = n, new.parent = 0,
         sess' = [sess EXCEPT ![n] = new]
  PROVE  /\ sess' \in [SessionIds -> Session] /\ sess'[n] = new
         /\ \A s \in SessionIds \ {n} : sess'[s] = sess[s]
         /\ FamilyInv'
<1>1. sess \in [SessionIds -> Session] /\ sess[n].user = None
  BY DEF TypeOK, NoSession
<1>2. /\ sess' \in [SessionIds -> Session] /\ sess'[n] = new
      /\ \A s \in SessionIds \ {n} : sess'[s] = sess[s]
  BY <1>1
<1>3. FamilyInv'
  <2> SUFFICES ASSUME NEW s \in SessionIds, sess'[s].user # None
               PROVE  LET f == sess'[s].family
                          p == sess'[s].parent
                      IN  /\ f \in SessionIds /\ sess'[f].user = sess'[s].user /\ sess'[f].family = f
                          /\ p = 0 <=> s = f
                          /\ p # 0 => /\ sess'[p].user = sess'[s].user /\ sess'[p].family = f
                                      /\ sess'[p].revoked
    BY DEF FamilyInv
  <2>1. CASE s = n
    BY <1>2, <2>1
  <2>2. CASE s # n
    <3>1. sess[s].user # None /\ sess'[s] = sess[s]
      BY <1>2, <2>2
    <3>2. sess[s].parent \in SessionIds \cup {0}
      BY <1>1 DEF Session
    <3>3. sess[s].family # n /\ (sess[s].parent # 0 => sess[s].parent # n)
      BY <1>1, <3>1 DEF FamilyInv
    <3> QED
      BY <1>2, <3>1, <3>2, <3>3 DEF FamilyInv
  <2> QED
    BY <2>1, <2>2
<1> QED
  BY <1>2, <1>3

(* A refresh revokes a session and opens its successor.                       *)
LEMMA SessionExchanged ==
  ASSUME TypeOK, FamilyInv, NEW n \in SessionIds, sess[n] = NoSession,
         NEW u \in Users, NEW x \in SessionIds, sess[x].user = u, NEW new \in Session,
         new.user = u, new.family = sess[x].family, new.parent = x,
         sess' = [sess EXCEPT ![x] = Ended(sess[x]), ![n] = new]
  PROVE  /\ sess' \in [SessionIds -> Session] /\ sess'[n] = new
         /\ \A s \in SessionIds \ {n} :
              /\ sess'[s].user = sess[s].user /\ sess'[s].at = sess[s].at
              /\ Live(s)' => Live(s)
         /\ FamilyInv'
<1>1. sess \in [SessionIds -> Session] /\ sess[n].user = None /\ None \notin Users
  BY AccountConstants DEF TypeOK, NoSession
<1>2. /\ Ended(sess[x]) \in Session /\ Ended(sess[x]).revoked = TRUE
      /\ Ended(sess[x]).user = u /\ Ended(sess[x]).family = sess[x].family
      /\ Ended(sess[x]).parent = sess[x].parent /\ Ended(sess[x]).at = sess[x].at
  BY <1>1, SessionRevoked
<1>3. /\ sess' \in [SessionIds -> Session] /\ sess'[n] = new
      /\ \A s \in SessionIds \ {n, x} : sess'[s] = sess[s]
      /\ sess'[x] = Ended(sess[x]) /\ n # x
  BY <1>1, <1>2
<1>4. ASSUME NEW s \in SessionIds \ {n}
      PROVE  /\ sess'[s].user = sess[s].user /\ sess'[s].at = sess[s].at
             /\ sess'[s].family = sess[s].family /\ sess'[s].parent = sess[s].parent
             /\ sess[s].revoked => sess'[s].revoked
             /\ Live(s)' => Live(s)
  <2>1. CASE s = x
    BY <1>2, <1>3, <2>1 DEF Live
  <2>2. CASE s # x
    BY <1>3, <2>2 DEF Live
  <2> QED
    BY <2>1, <2>2
<1>5. FamilyInv'
  <2> SUFFICES ASSUME NEW s \in SessionIds, sess'[s].user # None
               PROVE  LET f == sess'[s].family
                          p == sess'[s].parent
                      IN  /\ f \in SessionIds /\ sess'[f].user = sess'[s].user /\ sess'[f].family = f
                          /\ p = 0 <=> s = f
                          /\ p # 0 => /\ sess'[p].user = sess'[s].user /\ sess'[p].family = f
                                      /\ sess'[p].revoked
    BY DEF FamilyInv
  <2>1. CASE s = n
    <3> DEFINE f == sess[x].family
    <3>1. f \in SessionIds /\ sess[f].user = u /\ sess[f].family = f /\ f # n
      BY <1>1 DEF FamilyInv
    <3>2. x # 0
      BY DEF SessionIds
    <3>3. /\ sess'[s].family = f /\ sess'[s].parent = x /\ sess'[s].user = u
          /\ sess'[x].user = u /\ sess'[x].family = f /\ sess'[x].revoked = TRUE
      BY <1>2, <1>3, <2>1
    <3>4. sess'[f].user = u /\ sess'[f].family = f
      BY <1>4, <3>1
    <3> QED
      BY <2>1, <3>1, <3>2, <3>3, <3>4
  <2>2. CASE s # n
    <3>1. /\ sess[s].user # None /\ sess'[s].user = sess[s].user
          /\ sess'[s].family = sess[s].family /\ sess'[s].parent = sess[s].parent
      BY <1>4, <2>2
    <3>2. sess[s].parent \in SessionIds \cup {0}
      BY <1>1 DEF Session
    <3>3. sess[s].family # n /\ (sess[s].parent # 0 => sess[s].parent # n)
      BY <1>1, <3>1 DEF FamilyInv
    <3>4. /\ sess[s].family \in SessionIds /\ sess[sess[s].family].user = sess[s].user
          /\ sess[sess[s].family].family = sess[s].family
          /\ sess[s].parent = 0 <=> s = sess[s].family
          /\ sess[s].parent # 0 => /\ sess[sess[s].parent].user = sess[s].user
                                   /\ sess[sess[s].parent].family = sess[s].family
                                   /\ sess[sess[s].parent].revoked
      BY <3>1 DEF FamilyInv
    <3>5. /\ sess'[sess[s].family].user = sess[sess[s].family].user
          /\ sess'[sess[s].family].family = sess[sess[s].family].family
      BY <1>4, <3>3, <3>4
    <3>6. sess[s].parent # 0 => /\ sess'[sess[s].parent].user = sess[sess[s].parent].user
                                /\ sess'[sess[s].parent].family = sess[sess[s].parent].family
                                /\ sess'[sess[s].parent].revoked
      BY <1>4, <3>2, <3>3, <3>4
    <3> QED
      BY <3>1, <3>4, <3>5, <3>6
  <2> QED
    BY <2>1, <2>2
<1> QED
  BY <1>3, <1>4, <1>5

----------------------------------------------------------------------------
(* Tokens: revoked, used, opened.                                             *)
Withdrawn(x) == [x EXCEPT !.revoked = TRUE]
Presented(x) == [x EXCEPT !.used = TRUE]

LEMMA TokenChanged ==
  ASSUME NEW x \in Token
  PROVE  /\ Withdrawn(x) \in Token /\ Withdrawn(x).revoked
         /\ Withdrawn(x).user = x.user /\ Withdrawn(x).used = x.used /\ Withdrawn(x).at = x.at
         /\ Presented(x) \in Token /\ Presented(x).used
         /\ Presented(x).user = x.user /\ Presented(x).revoked = x.revoked
         /\ Presented(x).at = x.at
  BY DEF Token, Withdrawn, Presented

LEMMA Spent ==
  ASSUME TypeOK, NEW q \in Requests
  PROVE  /\ SpendTokens(q) \in [TokenIds -> Token]
         /\ \A t \in TokenIds :
              /\ SpendTokens(q)[t].user = tok[t].user /\ SpendTokens(q)[t].used = tok[t].used
              /\ SpendTokens(q)[t].at = tok[t].at
              /\ SpendTokens(q)[t].revoked <=> tok[t].revoked \/ t \in req[q].spent
<1> DEFINE new == SpendTokens(q)
<1>1. tok \in [TokenIds -> Token]
  BY DEF TypeOK
<1>2. \A x \in Token : x.revoked \in BOOLEAN
  BY DEF Token
<1>3. ASSUME NEW t \in TokenIds
      PROVE  /\ new[t] \in Token
             /\ new[t].user = tok[t].user /\ new[t].used = tok[t].used /\ new[t].at = tok[t].at
             /\ new[t].revoked <=> tok[t].revoked \/ t \in req[q].spent
  <2>1. CASE t \in req[q].spent
    <3>1. new[t] = Withdrawn(tok[t])
      BY <2>1 DEF SpendTokens, Withdrawn
    <3> QED
      BY <1>1, <2>1, <3>1, TokenChanged
  <2>2. CASE t \notin req[q].spent
    <3>1. new[t] = tok[t]
      BY <2>2 DEF SpendTokens
    <3> QED
      BY <1>1, <2>2, <3>1
  <2> QED
    BY <2>1, <2>2
<1>4. new = [t \in TokenIds |-> new[t]]
  BY DEF SpendTokens
<1> QED
  BY <1>3, <1>4

LEMMA FreeTokenIs ==
  ASSUME RoomForToken
  PROVE  FreeToken \in TokenIds /\ tok[FreeToken] = NoToken
  BY DEF RoomForToken, FreeToken

----------------------------------------------------------------------------
(* What each part of the invariant asks of a commit.                          *)

(* Sessions and tokens that a commit leaves usable are as old as before or    *)
(* new.                                                                       *)
SessionsAsBefore ==
  \A s \in SessionIds : Live(s)' =>
    \/ Live(s) /\ sess'[s].user = sess[s].user /\ sess'[s].at = sess[s].at
    \/ sess'[s].at = user[sess'[s].user].resets
TokensAsBefore ==
  \A t \in TokenIds : Outstanding(t)' =>
    \/ Outstanding(t) /\ tok'[t].user = tok[t].user /\ tok'[t].at = tok[t].at
    \/ tok'[t].at = user[tok'[t].user].resets
ResetsAsBefore == \A u \in Users : user'[u].resets = user[u].resets
UsedAsBefore ==
  \A u \in Users : user'[u].status # "deleted" =>
    user[u].status # "deleted" /\ UsedTokens(u)' = UsedTokens(u)
AdminsAsBefore ==
  /\ ActiveAdmins \subseteq ActiveAdmins'
  /\ \A u \in Users : user[u].status = "deleted" => user'[u].status = "deleted"

LEMMA Settled ==
  ASSUME ResetEndsTheOld, TypeOK', SessionsAsBefore, TokensAsBefore, ResetsAsBefore
  PROVE  ResetEndsTheOld'
<1>1. /\ \A s \in SessionIds : Live(s)' => sess'[s].user \in Users
      /\ \A t \in TokenIds : Outstanding(t)' => tok'[t].user \in Users
  BY DEF TypeOK, Session, Token, Live, Outstanding
<1>2. \A s \in SessionIds : Live(s)' => sess'[s].at = user'[sess'[s].user].resets
  BY <1>1 DEF ResetEndsTheOld, SessionsAsBefore, ResetsAsBefore
<1>3. \A t \in TokenIds : Outstanding(t)' => tok'[t].at = user'[tok'[t].user].resets
  BY <1>1 DEF ResetEndsTheOld, TokensAsBefore, ResetsAsBefore
<1> QED
  BY <1>2, <1>3 DEF ResetEndsTheOld

LEMMA CountKept ==
  ASSUME CountInv, UsedAsBefore, ResetsAsBefore
  PROVE  CountInv'
  BY DEF CountInv, UsedAsBefore, ResetsAsBefore

LEMMA AdminsKept ==
  ASSUME TypeOK, AdminInv, AdminsAsBefore, NEW q \in Requests, req[q].pc # "changed",
         req'[q].op = "none", \A p \in Requests \ {q} : req'[p] = req[p],
         \A p \in Requests : req[p].op = "delete" => req[p].actor \in Users
  PROVE  AdminInv'
<1> SUFFICES ASSUME \A p \in Requests : req'[p].pc # "changed"
             PROVE  /\ ActiveAdmins' # {}
                    /\ \A p \in Requests : req'[p].op = "delete" =>
                         \/ req'[p].actor \in ActiveAdmins'
                         \/ user'[req'[p].actor].status = "deleted"
  BY DEF AdminInv
<1>1. \A p \in Requests : req[p].pc # "changed"
  OBVIOUS
<1>2. /\ ActiveAdmins # {}
      /\ \A p \in Requests : req[p].op = "delete" =>
           req[p].actor \in ActiveAdmins \/ user[req[p].actor].status = "deleted"
  BY <1>1 DEF AdminInv
<1>3. ASSUME NEW p \in Requests, req'[p].op = "delete"
      PROVE  \/ req'[p].actor \in ActiveAdmins'
             \/ user'[req'[p].actor].status = "deleted"
  <2>1. p # q /\ req'[p] = req[p]
    BY <1>3
  <2> QED
    BY <1>2, <1>3, <2>1 DEF AdminsAsBefore
<1>4. ActiveAdmins' # {}
  BY <1>2 DEF AdminsAsBefore
<1> QED
  BY <1>3, <1>4

(* A commit that changes no account but adds one or its password.             *)
LEMMA CommitStep ==
  ASSUME TypeOK, AccountsInv, NEW q \in Requests, req[q].pc # "changed", End(q, "answered"),
         UserFrame(q), SessionFrame(q), TokenFrame(q),
         user' \in [Users -> User], sess' \in [SessionIds -> Session],
         tok' \in [TokenIds -> Token],
         SessionsAsBefore, TokensAsBefore, ResetsAsBefore, UsedAsBefore, AdminsAsBefore, FamilyInv'
  PROVE  AccountsInv'
<1>1. /\ req' \in [Requests -> Request] /\ LocksExclude'
      /\ \A p \in Requests : RequestInv(req[p])'
      /\ req'[q].op = "none"
      /\ \A p \in Requests \ {q} : req'[p] = req[p]
  BY AfterCommit
<1>2. TypeOK'
  BY <1>1 DEF TypeOK
<1>3. ResetEndsTheOld' /\ CountInv'
  BY <1>2, Settled, CountKept DEF AccountsInv
<1>4. \A p \in Requests : req[p].op = "delete" => req[p].actor \in Users
  BY DEF AccountsInv, RequestInv, Bound
<1>5. AdminInv'
  BY <1>1, <1>4, AdminsKept DEF AccountsInv
<1> QED
  BY <1>1, <1>3, <1>5 DEF AccountsInv

----------------------------------------------------------------------------
(* Tables a commit leaves alone, and the common writes.                       *)

LEMMA Alone ==
  ASSUME LocksExclude, NEW q \in Requests, NEW row, NEW m, NEW n, Conflict(m, n),
         Holds(q, row, m) \/ (WaitsFor(q) = {} /\ <<row, m>> \in Needs(q))
  PROVE  NobodyElse(q, row, n)
<1> SUFFICES ASSUME NEW p \in Requests \ {q}, Holds(p, row, n) PROVE FALSE
  BY DEF NobodyElse
<1>1. CASE Holds(q, row, m)
  BY <1>1, Exclusive
<1>2. CASE WaitsFor(q) = {} /\ <<row, m>> \in Needs(q)
  BY <1>2, Waited
<1> QED
  BY <1>1, <1>2

LEMMA SameUsers ==
  ASSUME TypeOK, UNCHANGED user, NEW q \in Requests
  PROVE  UserFrame(q) /\ ResetsAsBefore /\ AdminsAsBefore /\ user' \in [Users -> User]
  BY DEF TypeOK, UserFrame, ResetsAsBefore, AdminsAsBefore, ActiveAdmins, Active, Exists

LEMMA SameTokens ==
  ASSUME TypeOK, UNCHANGED tok, NEW q \in Requests
  PROVE  /\ TokenFrame(q) /\ TokensAsBefore /\ tok' \in [TokenIds -> Token]
         /\ \A u \in Users : UsedTokens(u)' = UsedTokens(u)
<1>1. TokenFrame(q) /\ tok' \in [TokenIds -> Token]
  BY DEF TypeOK, TokenFrame, Outstanding
<1>2. TokensAsBefore
  BY DEF TokensAsBefore, Outstanding
<1>3. \A u \in Users : UsedTokens(u)' = UsedTokens(u)
  BY DEF UsedTokens, TokensOf
<1> QED
  BY <1>1, <1>2, <1>3

LEMMA Killed ==
  ASSUME TypeOK, FamilyInv, NEW q \in Requests, sess' = KillSessions(q)
  PROVE  /\ SessionFrame(q) /\ SessionsAsBefore /\ FamilyInv'
         /\ sess' \in [SessionIds -> Session]
         /\ \A s \in SessionIds : /\ sess'[s].user = sess[s].user /\ sess'[s].at = sess[s].at
                                  /\ Live(s)' <=> Live(s) /\ s \notin req[q].dead
<1>1. /\ sess' \in [SessionIds -> Session]
      /\ \A s \in SessionIds : /\ sess'[s].user = sess[s].user /\ sess'[s].at = sess[s].at
                               /\ Live(s)' <=> Live(s) /\ s \notin req[q].dead
      /\ FamilyInv'
  <2>1. sess' = [s \in SessionIds |-> IF s \in req[q].dead THEN [sess[s] EXCEPT !.revoked = TRUE]
                                                          ELSE sess[s]]
    BY DEF KillSessions
  <2> QED
    BY <2>1, SessionsRevoked
<1>2. SessionFrame(q)
  BY <1>1 DEF SessionFrame
<1>3. SessionsAsBefore
  BY <1>1 DEF SessionsAsBefore
<1> QED
  BY <1>1, <1>2, <1>3

(* Used tokens stay used, and the account of a token stays.                   *)
LEMMA SpentKept ==
  ASSUME TypeOK, AccountsInv, NEW q \in Requests, tok' = SpendTokens(q),
         \A t \in req[q].spent : Holds(q, <<"tok", t>>, "N")
  PROVE  /\ TokenFrame(q) /\ TokensAsBefore /\ tok' \in [TokenIds -> Token]
         /\ \A u \in Users : UsedTokens(u)' = UsedTokens(u)
<1>1. /\ tok' \in [TokenIds -> Token]
      /\ \A t \in TokenIds :
           /\ tok'[t].user = tok[t].user /\ tok'[t].used = tok[t].used
           /\ tok'[t].at = tok[t].at
           /\ tok'[t].revoked <=> tok[t].revoked \/ t \in req[q].spent
  BY Spent
<1>2. \A t \in req[q].spent : NobodyElse(q, <<"tok", t>>, "X")
  BY Alone DEF AccountsInv, Conflict
<1>3. TokenFrame(q)
  BY <1>1, <1>2 DEF TokenFrame, Outstanding
<1>4. TokensAsBefore
  BY <1>1 DEF TokensAsBefore, Outstanding
<1>5. \A u \in Users : UsedTokens(u)' = UsedTokens(u)
  BY <1>1 DEF UsedTokens, TokensOf
<1> QED
  BY <1>1, <1>3, <1>4, <1>5

(* A session appears for an account that nobody else has locked.              *)
LEMMA SessionAppears ==
  ASSUME NEW q \in Requests, NEW n \in SessionIds, NEW u \in Users, sess[n].user = None,
         sess'[n].user = u, sess'[n].at = user[u].resets,
         ~Active(u) \/ NobodyElse(q, <<"user", u>>, "X"),
         \A s \in SessionIds \ {n} :
              /\ sess'[s].user = sess[s].user /\ sess'[s].at = sess[s].at
              /\ Live(s)' => Live(s)
  PROVE  SessionFrame(q) /\ SessionsAsBefore
  BY DEF SessionFrame, SessionsAsBefore

----------------------------------------------------------------------------
(* Commits that write sessions only.                                          *)

LEMMA SessionCommit ==
  ASSUME TypeOK, AccountsInv, NEW q \in Requests, req[q].pc # "changed", End(q, "answered"),
         UNCHANGED <<user, tok>>, SessionFrame(q), SessionsAsBefore, FamilyInv',
         sess' \in [SessionIds -> Session]
  PROVE  AccountsInv'
<1>1. /\ UserFrame(q) /\ ResetsAsBefore /\ AdminsAsBefore /\ user' \in [Users -> User]
      /\ TokenFrame(q) /\ TokensAsBefore /\ tok' \in [TokenIds -> Token]
      /\ \A u \in Users : UsedTokens(u)' = UsedTokens(u)
  BY SameUsers, SameTokens
<1>2. UsedAsBefore
  BY <1>1 DEF UsedAsBefore
<1> QED
  BY <1>1, <1>2, CommitStep

LEMMA RevokeCommitStep ==
  ASSUME TypeOK, AccountsInv, NEW q \in Requests, RevokeCommit(q)
  PROVE  AccountsInv'
<1>1. /\ req[q].pc = "commit" /\ sess' = KillSessions(q) /\ End(q, "answered")
      /\ UNCHANGED <<user, tok>>
  BY DEF RevokeCommit, At
<1>2. SessionFrame(q) /\ SessionsAsBefore /\ FamilyInv' /\ sess' \in [SessionIds -> Session]
  BY <1>1, Killed DEF AccountsInv
<1> QED
  BY <1>1, <1>2, SessionCommit

LEMMA EndSessionStep ==
  ASSUME TypeOK, AccountsInv, NEW q \in Requests, EndSession(q)
  PROVE  AccountsInv'
<1> DEFINE s0 == req[q].row
<1>1. req[q].pc = "end"
  BY DEF EndSession, At
<1>2. req[q].pc # "changed" /\ s0 \in SessionIds
  BY <1>1, Serving DEF Placed, Bound, Passing
<1>3. CASE Refuse(q)
  BY <1>2, <1>3, RefuseStep
<1>4. CASE ~Refuse(q)
  <2>1. /\ sess' = [sess EXCEPT ![s0].revoked = TRUE] /\ End(q, "answered")
        /\ UNCHANGED <<user, tok>>
    BY <1>4 DEF EndSession
  <2>2. sess \in [SessionIds -> Session] /\ FamilyInv
    BY DEF TypeOK, AccountsInv
  <2>3. sess' = [s \in SessionIds |-> IF s \in {s0} THEN [sess[s] EXCEPT !.revoked = TRUE]
                                                   ELSE sess[s]]
    <3> DEFINE old == Ended(sess[s0])
    <3>1. sess' = [sess EXCEPT ![s0] = old]
      BY <2>1 DEF Ended
    <3>2. \A s \in SessionIds : Ended(sess[s]) = [sess[s] EXCEPT !.revoked = TRUE]
      BY DEF Ended
    <3> HIDE DEF old
    <3>3. sess' = [s \in SessionIds |-> IF s \in {s0} THEN old ELSE sess[s]]
      BY <2>2, <3>1
    <3>4. sess' = [s \in SessionIds |-> IF s \in {s0} THEN Ended(sess[s]) ELSE sess[s]]
      BY <3>3 DEF old
    <3> QED
      BY <3>4 DEF Ended
  <2>4. /\ sess' \in [SessionIds -> Session] /\ FamilyInv'
        /\ \A s \in SessionIds : /\ sess'[s].user = sess[s].user /\ sess'[s].at = sess[s].at
                                 /\ Live(s)' <=> Live(s) /\ s \notin {s0}
    BY <2>2, <2>3, SessionsRevoked
  <2>5. SessionFrame(q) /\ SessionsAsBefore
    BY <2>4 DEF SessionFrame, SessionsAsBefore
  <2> QED
    BY <1>2, <2>1, <2>4, <2>5, SessionCommit
<1> QED
  BY <1>3, <1>4

LEMMA LoginCommitStep ==
  ASSUME TypeOK, AccountsInv, NEW q \in Requests, LoginCommit(q)
  PROVE  AccountsInv'
<1> DEFINE u == req[q].user
<1>1. req[q].pc = "issue" /\ WaitsFor(q) = {} /\ RoomForSession
  BY DEF LoginCommit, At
<1>2. req[q].pc # "changed" /\ u \in Users
  BY <1>1, Serving
<1>3. CASE Refuse(q)
  BY <1>2, <1>3, RefuseStep
<1>4. CASE ~Refuse(q)
  <2>1. PICK n \in SessionIds : n = FreeSession /\ sess[n] = NoSession
    BY <1>1, FreeSessionIs
  <2>2. PICK new \in Session : /\ new = NewSession(u, n, 0)
                               /\ new.user = u /\ new.family = n /\ new.parent = 0
                               /\ new.at = user[u].resets
    BY <1>2, NewSessionFields
  <2>3. sess' = [sess EXCEPT ![n] = new] /\ End(q, "answered") /\ UNCHANGED <<user, tok>>
    BY <1>4, <2>1, <2>2 DEF LoginCommit
  <2>4. /\ sess' \in [SessionIds -> Session] /\ sess'[n] = new
        /\ \A s \in SessionIds \ {n} : sess'[s] = sess[s]
        /\ FamilyInv'
    BY <1>2, <2>1, <2>2, <2>3, SessionOpened DEF AccountsInv
  <2>5. NobodyElse(q, <<"user", u>>, "X")
    <3>1. <<<<"user", u>>, "N">> \in Needs(q)
      BY <1>1, NeedsAt DEF UserLock
    <3> QED
      BY <1>1, <3>1, Alone DEF AccountsInv, Conflict
  <2>6. sess[n].user = None
    BY <2>1 DEF NoSession
  <2>7. \A s \in SessionIds \ {n} : /\ sess'[s].user = sess[s].user /\ sess'[s].at = sess[s].at
                                    /\ Live(s)' => Live(s)
    BY <2>4 DEF Live
  <2>8. SessionFrame(q) /\ SessionsAsBefore
    BY <1>2, <2>2, <2>4, <2>5, <2>6, <2>7, SessionAppears
  <2> QED
    BY <1>2, <2>3, <2>4, <2>8, SessionCommit
<1> QED
  BY <1>3, <1>4

LEMMA RotateCommitStep ==
  ASSUME TypeOK, AccountsInv, NEW q \in Requests, RotateCommit(q)
  PROVE  AccountsInv'
<1> DEFINE u == req[q].user
           x == req[q].row
<1>1. req[q].pc = "rotated" /\ RoomForSession
  BY DEF RotateCommit, At
<1>2. /\ req[q].pc # "changed" /\ u \in Users /\ x \in SessionIds /\ sess[x].user = u
      /\ Locking(req[q])
  BY <1>1, Serving DEF Placed, Bound, Current, Passing
<1>3. FamilyInv /\ sess[x].family \in SessionIds /\ u # None
  BY <1>2, AccountConstants DEF AccountsInv, FamilyInv
<1>4. x \in SessionIds \cup {0}
  BY <1>2
<1>5. PICK n \in SessionIds : n = FreeSession /\ sess[n] = NoSession
  BY <1>1, FreeSessionIs
<1>6. PICK new \in Session : /\ new = NewSession(u, sess[x].family, x)
                             /\ new.user = u /\ new.family = sess[x].family /\ new.parent = x
                             /\ new.at = user[u].resets
  BY <1>2, <1>3, <1>4, NewSessionFields
<1>7. /\ sess' = [sess EXCEPT ![x] = Ended(sess[x]), ![n] = new]
      /\ End(q, "answered") /\ UNCHANGED <<user, tok>>
  BY <1>5, <1>6 DEF RotateCommit, Ended
<1>8. /\ sess' \in [SessionIds -> Session] /\ sess'[n] = new
      /\ \A s \in SessionIds \ {n} : /\ sess'[s].user = sess[s].user /\ sess'[s].at = sess[s].at
                                     /\ Live(s)' => Live(s)
      /\ FamilyInv'
  <2>1. /\ sess[n] = NoSession /\ sess[x].user = u /\ new.user = u
        /\ new.family = sess[x].family /\ new.parent = x
        /\ sess' = [sess EXCEPT ![x] = Ended(sess[x]), ![n] = new]
    BY <1>2, <1>5, <1>6, <1>7
  <2> QED
    BY ONLY TypeOK, <1>2, <1>3, <2>1, SessionExchanged
<1>9. NobodyElse(q, <<"user", u>>, "X")
  BY <1>1, <1>2, Claims, Alone DEF AccountsInv, Conflict
<1>10. sess[n].user = None
  BY <1>5 DEF NoSession
<1>11. SessionFrame(q) /\ SessionsAsBefore
  BY <1>2, <1>6, <1>8, <1>9, <1>10, SessionAppears
<1> QED
  BY <1>2, <1>7, <1>8, <1>11, SessionCommit

----------------------------------------------------------------------------
(* Commits that write accounts.                                               *)
Registered(x) == [x EXCEPT !.status = "active"]
Renewed(x) == [x EXCEPT !.pw = @ + 1]
Recovered(x) == [x EXCEPT !.pw = @ + 1, !.resets = @ + 1]
Removed(x) == [x EXCEPT !.status = "deleted"]

LEMMA AccountChanged ==
  ASSUME NEW x \in User
  PROVE  /\ Registered(x) \in User /\ Registered(x).status = "active"
         /\ Registered(x).role = x.role /\ Registered(x).resets = x.resets
         /\ Renewed(x) \in User /\ Renewed(x).status = x.status
         /\ Renewed(x).role = x.role /\ Renewed(x).resets = x.resets
         /\ Recovered(x) \in User /\ Recovered(x).status = x.status
         /\ Recovered(x).role = x.role /\ Recovered(x).resets = x.resets + 1
         /\ Removed(x) \in User /\ Removed(x).status = "deleted"
         /\ Removed(x).role = x.role /\ Removed(x).resets = x.resets
<1>1. /\ Registered(x) \in User /\ Registered(x).status = "active"
      /\ Registered(x).role = x.role /\ Registered(x).resets = x.resets
  BY DEF User, Registered
<1>2. x.pw + 1 \in Nat /\ x.resets + 1 \in Nat
  BY DEF User
<1>3. /\ Renewed(x) \in User /\ Renewed(x).status = x.status
      /\ Renewed(x).role = x.role /\ Renewed(x).resets = x.resets
  BY <1>2 DEF User, Renewed
<1>4. /\ Recovered(x) \in User /\ Recovered(x).status = x.status
      /\ Recovered(x).role = x.role /\ Recovered(x).resets = x.resets + 1
  BY <1>2 DEF User, Recovered
<1>5. /\ Removed(x) \in User /\ Removed(x).status = "deleted"
      /\ Removed(x).role = x.role /\ Removed(x).resets = x.resets
  BY DEF User, Removed
<1> QED
  BY <1>1, <1>3, <1>4, <1>5

LEMMA RegisterStep ==
  ASSUME TypeOK, AccountsInv, NEW q \in Requests, NEW u \in Newcomers, Register(q, u)
  PROVE  AccountsInv'
<1>1. req[q].pc # "changed" /\ RoomForSession /\ u \in Users
  BY AccountConstants DEF Register, Serves
<1>2. CASE Refuse(q)
  BY <1>1, <1>2, RefuseStep
<1>3. CASE ~Refuse(q)
  <2>1. PICK n \in SessionIds : n = FreeSession /\ sess[n] = NoSession
    BY <1>1, FreeSessionIs
  <2>2. PICK new \in Session : /\ new = NewSession(u, n, 0)
                               /\ new.user = u /\ new.family = n /\ new.parent = 0
                               /\ new.at = user[u].resets
    BY <1>1, NewSessionFields
  <2>3. /\ user' = [user EXCEPT ![u] = Registered(user[u])] /\ user[u].status = "none"
        /\ sess' = [sess EXCEPT ![n] = new] /\ End(q, "answered") /\ UNCHANGED tok
    BY <1>3, <2>1, <2>2 DEF Register, Registered
  <2>4. /\ sess' \in [SessionIds -> Session] /\ sess'[n] = new
        /\ \A s \in SessionIds \ {n} : sess'[s] = sess[s]
        /\ FamilyInv'
    BY <1>1, <2>1, <2>2, <2>3, SessionOpened DEF AccountsInv
  <2>5. sess[n].user = None
    BY <2>1 DEF NoSession
  <2>6. \A s \in SessionIds \ {n} : /\ sess'[s].user = sess[s].user /\ sess'[s].at = sess[s].at
                                    /\ Live(s)' => Live(s)
    BY <2>4 DEF Live
  <2>7. ~Active(u)
    BY <2>3 DEF Active
  <2>8. SessionFrame(q) /\ SessionsAsBefore
    BY <1>1, <2>2, <2>4, <2>5, <2>6, <2>7, SessionAppears
  <2>9. user \in [Users -> User] /\ user[u] \in User
    BY <1>1 DEF TypeOK
  <2>10. /\ user' \in [Users -> User] /\ user'[u].status = "active"
         /\ user'[u].role = user[u].role /\ user'[u].resets = user[u].resets
         /\ \A v \in Users \ {u} : user'[v] = user[v]
    <3>1. /\ Registered(user[u]) \in User /\ Registered(user[u]).status = "active"
          /\ Registered(user[u]).role = user[u].role
          /\ Registered(user[u]).resets = user[u].resets
      BY <2>9, AccountChanged
    <3> QED
      BY <1>1, <2>3, <2>9, <3>1
  <2>11. /\ TokenFrame(q) /\ TokensAsBefore /\ tok' \in [TokenIds -> Token]
         /\ \A v \in Users : UsedTokens(v)' = UsedTokens(v)
    BY <2>3, SameTokens
  <2>12. UserFrame(q) /\ ResetsAsBefore /\ UsedAsBefore
    BY <2>3, <2>10, <2>11 DEF UserFrame, ResetsAsBefore, UsedAsBefore, Active, Exists
  <2>13. AdminsAsBefore
    BY <2>3, <2>10 DEF AdminsAsBefore, ActiveAdmins, Active
  <2> QED
    BY <1>1, <2>3, <2>4, <2>8, <2>10, <2>11, <2>12, <2>13, CommitStep
<1> QED
  BY <1>2, <1>3

LEMMA SetPasswordCommitStep ==
  ASSUME TypeOK, AccountsInv, NEW q \in Requests, SetPasswordCommit(q)
  PROVE  AccountsInv'
<1> DEFINE u == req[q].user
<1>1. req[q].pc = "commit" /\ req[q].op = "setpw"
  BY DEF SetPasswordCommit, At
<1>2. req[q].pc # "changed" /\ u \in Users /\ Locking(req[q])
  BY <1>1, Serving
<1>3. CASE Refuse(q)
  BY <1>2, <1>3, RefuseStep
<1>4. CASE ~Refuse(q)
  <2>1. /\ user' = [user EXCEPT ![u] = Renewed(user[u])] /\ Exists(u)
        /\ tok' = SpendTokens(q) /\ sess' = KillSessions(q) /\ End(q, "answered")
    BY <1>4 DEF SetPasswordCommit, Renewed
  <2>2. user \in [Users -> User] /\ user[u] \in User
    BY <1>2 DEF TypeOK
  <2>3. /\ user' \in [Users -> User]
        /\ \A v \in Users : /\ user'[v].status = user[v].status /\ user'[v].role = user[v].role
                            /\ user'[v].resets = user[v].resets
    <3>1. /\ Renewed(user[u]) \in User /\ Renewed(user[u]).status = user[u].status
          /\ Renewed(user[u]).role = user[u].role /\ Renewed(user[u]).resets = user[u].resets
      BY <2>2, AccountChanged
    <3> QED
      BY <1>2, <2>1, <2>2, <3>1
  <2>4. UserFrame(q) /\ ResetsAsBefore /\ AdminsAsBefore
    BY <2>3 DEF UserFrame, ResetsAsBefore, AdminsAsBefore, ActiveAdmins, Active, Exists
  <2>5. \A t \in req[q].spent : Holds(q, <<"tok", t>>, "N")
    BY <1>1, <1>2, Claims DEF HasSpent, Passing
  <2>6. /\ TokenFrame(q) /\ TokensAsBefore /\ tok' \in [TokenIds -> Token]
        /\ \A v \in Users : UsedTokens(v)' = UsedTokens(v)
    BY <2>1, <2>5, SpentKept
  <2>7. UsedAsBefore
    BY <2>3, <2>6 DEF UsedAsBefore
  <2>8. SessionFrame(q) /\ SessionsAsBefore /\ FamilyInv' /\ sess' \in [SessionIds -> Session]
    BY <2>1, Killed DEF AccountsInv
  <2> QED
    BY <1>2, <2>1, <2>3, <2>4, <2>6, <2>7, <2>8, CommitStep
<1> QED
  BY <1>3, <1>4

LEMMA ForgotSendStep ==
  ASSUME TypeOK, AccountsInv, NEW q \in Requests, ForgotSend(q)
  PROVE  AccountsInv'
<1> DEFINE u == req[q].user
<1>1. req[q].pc = "send"
  BY DEF ForgotSend, At
<1>2. /\ req[q].pc # "changed" /\ u \in Users /\ Locking(req[q]) /\ req[q].op = "forgot"
      /\ u # None
  BY <1>1, Serving, AccountConstants DEF Placed, Passing
<1>3. CASE Refuse(q)
  BY <1>2, <1>3, RefuseStep
<1>4. CASE ~Refuse(q)
  <2>1. PICK n \in TokenIds : n = FreeToken /\ tok[n] = NoToken
    BY <1>4, FreeTokenIs DEF ForgotSend
  <2>2. PICK new \in Token :
          /\ new = [NoToken EXCEPT !.user = u, !.at = user[u].resets]
          /\ new.user = u /\ new.at = user[u].resets /\ new.used = FALSE
    <3> DEFINE x == [NoToken EXCEPT !.user = u, !.at = user[u].resets]
    <3>1. user[u].resets \in Nat
      BY <1>2 DEF TypeOK, User
    <3>2. x \in Token /\ x.user = u /\ x.at = user[u].resets /\ x.used = FALSE
      BY <1>2, <3>1 DEF NoToken, Token
    <3> HIDE DEF x
    <3>3. \E y \in Token : y = x
      BY <3>2
    <3> QED
      BY <3>2, <3>3 DEF x
  <2>3. /\ tok' = [SpendTokens(q) EXCEPT ![n] = new] /\ End(q, "answered")
        /\ UNCHANGED <<user, sess>>
    BY <1>4, <2>1, <2>2 DEF ForgotSend
  <2>4. /\ tok[n].user = None /\ ~tok[n].revoked /\ ~tok[n].used
    BY <2>1 DEF NoToken
  <2>5. /\ SpendTokens(q) \in [TokenIds -> Token]
        /\ \A t \in TokenIds :
             /\ SpendTokens(q)[t].user = tok[t].user /\ SpendTokens(q)[t].used = tok[t].used
             /\ SpendTokens(q)[t].at = tok[t].at
             /\ SpendTokens(q)[t].revoked <=> tok[t].revoked \/ t \in req[q].spent
    BY Spent
  <2>6. /\ tok' \in [TokenIds -> Token] /\ tok'[n] = new
        /\ \A t \in TokenIds \ {n} : tok'[t] = SpendTokens(q)[t]
    BY <2>3, <2>5
  <2>7. \A t \in TokenIds \ {n} :
          /\ tok'[t].user = tok[t].user /\ tok'[t].used = tok[t].used /\ tok'[t].at = tok[t].at
          /\ tok'[t].revoked <=> tok[t].revoked \/ t \in req[q].spent
    BY <2>5, <2>6
  <2>8. NobodyElse(q, <<"user", u>>, "X")
    BY <1>1, <1>2, Claims, Alone DEF AccountsInv, Conflict
  <2>9. \A t \in req[q].spent : NobodyElse(q, <<"tok", t>>, "X")
    <3>1. \A t \in req[q].spent : Holds(q, <<"tok", t>>, "N")
      BY <1>1, <1>2, Claims DEF HasSpent
    <3> QED
      BY <3>1, Alone DEF AccountsInv, Conflict
  <2>10. TokenFrame(q)
    <3> SUFFICES ASSUME NEW t \in TokenIds
                 PROVE  /\ tok[t].user # None =>
                             tok'[t].user = tok[t].user \/ (tok'[t].user = None /\ tok'[t].revoked)
                        /\ tok[t].user = None /\ tok[t].revoked => tok'[t].user = None /\ tok'[t].revoked
                        /\ Outstanding(t) => \/ Outstanding(t)' /\ tok'[t].user = tok[t].user
                                             \/ NobodyElse(q, <<"tok", t>>, "X")
                        /\ Outstanding(t)' => \/ Outstanding(t) /\ tok'[t].user = tok[t].user
                                              \/ NobodyElse(q, <<"user", tok'[t].user>>, "X")
      BY DEF TokenFrame
    <3>1. CASE t = n
      BY <2>2, <2>4, <2>6, <2>8, <3>1 DEF Outstanding
    <3>2. CASE t # n
      BY <2>7, <2>9, <3>2 DEF Outstanding
    <3> QED
      BY <3>1, <3>2
  <2>11. TokensAsBefore
    <3> SUFFICES ASSUME NEW t \in TokenIds, Outstanding(t)'
                 PROVE  \/ Outstanding(t) /\ tok'[t].user = tok[t].user /\ tok'[t].at = tok[t].at
                        \/ tok'[t].at = user[tok'[t].user].resets
      BY DEF TokensAsBefore
    <3>1. CASE t = n
      BY <2>2, <2>6, <3>1
    <3>2. CASE t # n
      BY <2>7, <3>2 DEF Outstanding
    <3> QED
      BY <3>1, <3>2
  <2>12. \A v \in Users : UsedTokens(v)' = UsedTokens(v)
    BY <2>2, <2>4, <2>6, <2>7 DEF UsedTokens, TokensOf
  <2>13. UserFrame(q) /\ ResetsAsBefore /\ AdminsAsBefore /\ user' \in [Users -> User]
    BY <2>3, SameUsers
  <2>14. UsedAsBefore
    BY <2>3, <2>12 DEF UsedAsBefore
  <2>15. /\ SessionFrame(q) /\ SessionsAsBefore /\ FamilyInv'
         /\ sess' \in [SessionIds -> Session]
    BY <2>3 DEF SessionFrame, SessionsAsBefore, Live, AccountsInv, FamilyInv, TypeOK
  <2> QED
    BY <1>2, <2>3, <2>6, <2>10, <2>11, <2>13, <2>14, <2>15, CommitStep
<1> QED
  BY <1>3, <1>4

LEMMA ResetCommitStep ==
  ASSUME TypeOK, AccountsInv, NEW q \in Requests, ResetCommit(q)
  PROVE  AccountsInv'
<1> DEFINE r == req[q]
           u == r.user
           x == r.row
<1>1. /\ r.pc = "commit" /\ r.op = "reset"
      /\ user' = [user EXCEPT ![u] = Recovered(user[u])]
      /\ tok' = [SpendTokens(q) EXCEPT ![x] = Presented(SpendTokens(q)[x])]
      /\ sess' = KillSessions(q) /\ End(q, "answered")
  BY DEF ResetCommit, At, Recovered, Presented
<1>2. /\ r.pc # "changed" /\ u \in Users /\ x \in TokenIds
      /\ Locking(r) /\ Current(r) /\ ResetHasUser(r) /\ ResetHasToken(r) /\ HasSpent(r)
  BY <1>1, Serving DEF Bound, ResetHasUser, ResetHasToken, HasSpent, Passing
<1>3. /\ Outstanding(x) /\ tok[x].user = u /\ Active(u)
      /\ \A t \in TokenIds : tok[t].user = u /\ Outstanding(t) => t \in r.spent \cup {x}
      /\ \A s \in SessionIds : sess[s].user = u /\ Live(s) => s \in r.dead
  BY <1>1, <1>2 DEF Current, Passing, TokensOf, SessionsOf
<1>4. user \in [Users -> User] /\ user[u] \in User
  BY <1>2 DEF TypeOK
<1>5. /\ user' \in [Users -> User] /\ user'[u].resets = user[u].resets + 1
      /\ \A v \in Users : user'[v].status = user[v].status /\ user'[v].role = user[v].role
      /\ \A v \in Users \ {u} : user'[v].resets = user[v].resets
  <2>1. /\ Recovered(user[u]) \in User /\ Recovered(user[u]).status = user[u].status
        /\ Recovered(user[u]).role = user[u].role
        /\ Recovered(user[u]).resets = user[u].resets + 1
    BY <1>4, AccountChanged
  <2> QED
    BY <1>1, <1>2, <1>4, <2>1
<1>6. /\ SpendTokens(q) \in [TokenIds -> Token]
      /\ \A t \in TokenIds :
           /\ SpendTokens(q)[t].user = tok[t].user /\ SpendTokens(q)[t].used = tok[t].used
           /\ SpendTokens(q)[t].at = tok[t].at
           /\ SpendTokens(q)[t].revoked <=> tok[t].revoked \/ t \in r.spent
  BY Spent
<1>7. /\ tok' \in [TokenIds -> Token] /\ tok'[x].used
      /\ \A t \in TokenIds :
           /\ tok'[t].user = tok[t].user /\ tok'[t].at = tok[t].at
           /\ tok'[t].revoked <=> tok[t].revoked \/ t \in r.spent
      /\ \A t \in TokenIds \ {x} : tok'[t].used = tok[t].used
  <2>1. SpendTokens(q)[x] \in Token
    BY <1>2, <1>6
  <2>2. /\ Presented(SpendTokens(q)[x]) \in Token /\ Presented(SpendTokens(q)[x]).used
        /\ Presented(SpendTokens(q)[x]).user = SpendTokens(q)[x].user
        /\ Presented(SpendTokens(q)[x]).revoked = SpendTokens(q)[x].revoked
        /\ Presented(SpendTokens(q)[x]).at = SpendTokens(q)[x].at
    BY <2>1, TokenChanged
  <2>3. /\ tok' \in [TokenIds -> Token] /\ tok'[x] = Presented(SpendTokens(q)[x])
        /\ \A t \in TokenIds \ {x} : tok'[t] = SpendTokens(q)[t]
    BY <1>1, <1>2, <1>6, <2>2
  <2> QED
    BY <1>2, <1>6, <2>2, <2>3
<1>8. /\ SessionFrame(q) /\ FamilyInv' /\ sess' \in [SessionIds -> Session]
      /\ \A s \in SessionIds : /\ sess'[s].user = sess[s].user /\ sess'[s].at = sess[s].at
                               /\ Live(s)' <=> Live(s) /\ s \notin r.dead
  BY <1>1, Killed DEF AccountsInv
<1>9. TokenFrame(q)
  <2>1. /\ Holds(q, <<"tok", x>>, "X")
        /\ \A t \in r.spent : Holds(q, <<"tok", t>>, "N")
    BY <1>2, Claims
  <2>2. \A t \in r.spent \cup {x} : NobodyElse(q, <<"tok", t>>, "X")
    BY <2>1, Alone DEF AccountsInv, Conflict
  <2> QED
    BY <1>7, <2>2 DEF TokenFrame, Outstanding
<1>10. UserFrame(q) /\ AdminsAsBefore
  BY <1>5 DEF UserFrame, AdminsAsBefore, ActiveAdmins, Active, Exists
<1>11. /\ req' \in [Requests -> Request] /\ LocksExclude'
       /\ \A p \in Requests : RequestInv(req[p])'
       /\ req'[q].op = "none"
       /\ \A p \in Requests \ {q} : req'[p] = req[p]
  BY <1>1, <1>8, <1>9, <1>10, AfterCommit
<1>12. TypeOK'
  BY <1>5, <1>7, <1>8, <1>11 DEF TypeOK
<1>13. ASSUME NEW s \in SessionIds, Live(s)'
       PROVE  sess'[s].at = user'[sess'[s].user].resets
  <2>1. Live(s) /\ sess[s].user # u
    BY <1>3, <1>8, <1>13
  <2>2. sess[s].user \in Users
    BY <2>1 DEF Live, TypeOK, Session
  <2>3. sess[s].at = user[sess[s].user].resets
    BY <2>1 DEF AccountsInv, ResetEndsTheOld
  <2> QED
    BY <1>5, <1>8, <2>1, <2>2, <2>3
<1>14. ASSUME NEW t \in TokenIds, Outstanding(t)'
       PROVE  tok'[t].at = user'[tok'[t].user].resets
  <2>1. Outstanding(t) /\ tok[t].user # u
    BY <1>3, <1>7, <1>14 DEF Outstanding
  <2>2. tok[t].user \in Users
    BY <2>1 DEF Outstanding, TypeOK, Token
  <2>3. tok[t].at = user[tok[t].user].resets
    BY <2>1 DEF AccountsInv, ResetEndsTheOld
  <2> QED
    BY <1>5, <1>7, <2>1, <2>2, <2>3
<1>15. ResetEndsTheOld'
  BY <1>12, <1>13, <1>14 DEF ResetEndsTheOld
<1>16. CountInv'
  <2> SUFFICES ASSUME NEW v \in Users, user'[v].status # "deleted"
               PROVE  user'[v].resets = Cardinality(UsedTokens(v)')
    BY DEF CountInv
  <2>1. user[v].resets = Cardinality(UsedTokens(v))
    BY <1>5 DEF AccountsInv, CountInv
  <2>2. CASE v = u
    <3>1. x \notin UsedTokens(v)
      BY <1>3 DEF UsedTokens, Outstanding
    <3>2. UsedTokens(v)' = UsedTokens(v) \cup {x}
      <4>1. ASSUME NEW t \in TokenIds
            PROVE  (tok'[t].user = v /\ tok'[t].used) <=> (tok[t].user = v /\ tok[t].used) \/ t = x
        BY <1>2, <1>3, <1>7, <2>2
      <4> QED
        BY <1>2, <4>1 DEF UsedTokens, TokensOf
    <3>3. IsFiniteSet(UsedTokens(v))
      <4>1. IsFiniteSet(TokenIds) /\ UsedTokens(v) \subseteq TokenIds
        BY AccountConstants, FS_Interval DEF TokenIds, UsedTokens, TokensOf
      <4> QED
        BY <4>1, FS_Subset
    <3>4. Cardinality(UsedTokens(v) \cup {x}) = Cardinality(UsedTokens(v)) + 1
      BY <3>1, <3>3, FS_AddElement
    <3>5. user'[v].resets = user[v].resets + 1
      BY <1>5, <2>2
    <3> QED
      BY <2>1, <3>2, <3>4, <3>5
  <2>3. CASE v # u
    <3>1. UsedTokens(v)' = UsedTokens(v)
      BY <1>3, <1>7, <2>3 DEF UsedTokens, TokensOf
    <3> QED
      BY <1>5, <2>1, <2>3, <3>1
  <2> QED
    BY <2>2, <2>3
<1>17. AdminInv'
  <2>1. \A p \in Requests : req[p].op = "delete" => req[p].actor \in Users
    BY DEF AccountsInv, RequestInv, Bound
  <2> QED
    BY <1>2, <1>10, <1>11, <2>1, AdminsKept DEF AccountsInv
<1> QED
  BY <1>8, <1>11, <1>15, <1>16, <1>17 DEF AccountsInv

(* An administrator's change: the account is neither added nor deleted.       *)
Changed(x, role, status) == [x EXCEPT !.role = role, !.status = status]

LEMMA ChangedFields ==
  ASSUME NEW x \in User, NEW role \in {"user", "admin"},
         NEW status \in {"none", "active", "disabled", "deleted"}
  PROVE  /\ Changed(x, role, status) \in User
         /\ Changed(x, role, status).status = status
         /\ Changed(x, role, status).resets = x.resets
  BY DEF User, Changed

LEMMA UpdateCommitStep ==
  ASSUME TypeOK, AccountsInv, NEW q \in Requests, UpdateCommit(q)
  PROVE  AccountsInv'
<1> DEFINE r == req[q]
           u == r.user
           role == IF "role" \in r.dirty THEN r.role ELSE user[u].role
           status == IF "status" \in r.dirty THEN r.status ELSE user[u].status
<1>1. r.pc = "commit" /\ r.op = "update" /\ WaitsFor(q) = {}
  BY DEF UpdateCommit, At
<1>2. r.pc # "changed" /\ u \in Users /\ Bound(r)
  BY <1>1, Serving
<1>3. CASE Refuse(q)
  BY <1>2, <1>3, RefuseStep
<1>4. CASE ~Refuse(q)
  <2>1. user \in [Users -> User] /\ user[u] \in User /\ r \in Request
    BY <1>2 DEF TypeOK
  <2>2. /\ user' = [user EXCEPT ![u] = Changed(user[u], role, status)] /\ Exists(u)
        /\ sess' = KillSessions(q) /\ End(q, "changed") /\ UNCHANGED tok
    BY <1>2, <1>4, <2>1 DEF UpdateCommit, Changed
  <2>3. role \in {"user", "admin"} /\ status \in {"active", "disabled"}
    BY <1>2, <2>1, <2>2, RequestFields DEF Bound, Exists, User
  <2> HIDE DEF role, status
  <2>4. /\ Changed(user[u], role, status) \in User
        /\ Changed(user[u], role, status).status = status
        /\ Changed(user[u], role, status).resets = user[u].resets
    BY <2>1, <2>3, ChangedFields
  <2>5. /\ user' \in [Users -> User] /\ user'[u].status = status
        /\ user'[u].resets = user[u].resets
        /\ \A v \in Users \ {u} : user'[v] = user[v]
    BY <1>2, <2>1, <2>2, <2>4
  <2>6. NobodyElse(q, <<"user", u>>, "X")
    <3>1. Needs(q) = UserLock(u, "N")
      BY <1>1, NeedsAt DEF CommitNeeds
    <3>2. <<<<"user", u>>, "N">> \in Needs(q)
      BY <3>1 DEF UserLock
    <3> QED
      BY <1>1, <3>2, Alone DEF AccountsInv, Conflict
  <2>7. UserFrame(q)
    BY <2>2, <2>3, <2>5, <2>6 DEF UserFrame, Active, Exists
  <2>8. ResetsAsBefore
    BY <2>5 DEF ResetsAsBefore
  <2>9. /\ TokenFrame(q) /\ TokensAsBefore /\ tok' \in [TokenIds -> Token]
        /\ \A v \in Users : UsedTokens(v)' = UsedTokens(v)
    BY <2>2, SameTokens
  <2>10. UsedAsBefore
    BY <2>2, <2>5, <2>9 DEF UsedAsBefore, Exists
  <2>11. SessionFrame(q) /\ SessionsAsBefore /\ FamilyInv' /\ sess' \in [SessionIds -> Session]
    BY <2>2, Killed DEF AccountsInv
  <2>12. /\ req' \in [Requests -> Request] /\ LocksExclude'
         /\ \A p \in Requests : RequestInv(req[p])'
         /\ req'[q].pc = "changed"
    BY <2>2, <2>7, <2>9, <2>11, AfterCommit
  <2>13. TypeOK'
    BY <2>5, <2>9, <2>11, <2>12 DEF TypeOK
  <2>14. ResetEndsTheOld' /\ CountInv'
    BY <2>8, <2>9, <2>10, <2>11, <2>13, Settled, CountKept DEF AccountsInv
  <2>15. AdminInv'
    BY <2>12 DEF AdminInv
  <2> QED
    BY <2>11, <2>12, <2>14, <2>15 DEF AccountsInv
<1> QED
  BY <1>3, <1>4

LEMMA DeleteCommitStep ==
  ASSUME TypeOK, AccountsInv, NEW q \in Requests, DeleteCommit(q)
  PROVE  AccountsInv'
<1> DEFINE r == req[q]
           u == r.user
<1>1. /\ r.pc = "commit" /\ r.op = "delete" /\ WaitsFor(q) = {} /\ End(q, "answered")
      /\ user' = [user EXCEPT ![u] = Removed(user[u])]
  BY DEF DeleteCommit, At, Removed
<1>2. /\ r.pc # "changed" /\ u \in Users /\ r.actor \in Users /\ r.actor # u
      /\ Exists(r.actor) /\ Locking(r) /\ DeleteHasUser(r) /\ u # None
  BY <1>1, Serving, AccountConstants DEF Bound, Current, DeleteHasUser, Passing
<1>3. /\ user' \in [Users -> User] /\ user'[u].status = "deleted"
      /\ user'[u].resets = user[u].resets
      /\ \A v \in Users \ {u} : user'[v] = user[v]
  <2>1. user \in [Users -> User] /\ user[u] \in User
    BY <1>2 DEF TypeOK
  <2>2. /\ Removed(user[u]) \in User /\ Removed(user[u]).status = "deleted"
        /\ Removed(user[u]).resets = user[u].resets
    BY <2>1, AccountChanged
  <2> QED
    BY <1>1, <1>2, <2>1, <2>2
<1>4. /\ sess' \in [SessionIds -> Session]
      /\ \A s \in SessionIds : IF sess[s].user = u THEN sess'[s].user = None
                                                   ELSE sess'[s] = sess[s]
  <2>1. sess \in [SessionIds -> Session]
    BY DEF TypeOK
  <2> DEFINE gone(s) == [NoSession EXCEPT !.family = sess[s].family]
  <2>2. \A s \in SessionIds : gone(s) \in Session /\ gone(s).user = None
    BY <2>1 DEF Session, NoSession
  <2>3. sess' = [s \in SessionIds |-> IF sess[s].user = u THEN gone(s) ELSE sess[s]]
    BY DEF DeleteCommit, SessionsOf
  <2> HIDE DEF gone
  <2> QED
    BY <2>1, <2>2, <2>3
<1>5. /\ tok' \in [TokenIds -> Token]
      /\ \A t \in TokenIds : IF tok[t].user = u THEN tok'[t].user = None /\ tok'[t].revoked
                                                ELSE tok'[t] = tok[t]
  <2>1. tok \in [TokenIds -> Token]
    BY DEF TypeOK
  <2> DEFINE gone == [NoToken EXCEPT !.revoked = TRUE]
  <2>2. gone \in Token /\ gone.user = None /\ gone.revoked
    BY DEF Token, NoToken
  <2>3. tok' = [t \in TokenIds |-> IF tok[t].user = u THEN gone ELSE tok[t]]
    BY DEF DeleteCommit, TokensOf
  <2> HIDE DEF gone
  <2> QED
    BY <2>1, <2>2, <2>3
<1>6. UserFrame(q)
  <2>1. Holds(q, <<"user", u>>, "X")
    BY <1>2, Claims
  <2>2. NobodyElse(q, <<"user", u>>, "X") /\ NobodyElse(q, <<"user", u>>, "K")
    BY <2>1, Alone DEF AccountsInv, Conflict
  <2> QED
    BY <1>3, <2>2 DEF UserFrame, Active, Exists
<1>7. SessionFrame(q) /\ SessionsAsBefore
  BY <1>3, <1>4 DEF SessionFrame, SessionsAsBefore, Live
<1>8. TokenFrame(q) /\ TokensAsBefore
  <2>1. \A t \in TokenIds : tok[t].user = u => <<<<"tok", t>>, "N">> \in Needs(q)
    <3>1. Needs(q) = SessionLocks(SessionsOf(u)) \cup TokenLocks(TokensOf(u), "N")
      BY <1>1, NeedsAt DEF CommitNeeds
    <3> QED
      BY <3>1 DEF TokenLocks, TokensOf
  <2>2. \A t \in TokenIds : tok[t].user = u => NobodyElse(q, <<"tok", t>>, "X")
    BY <1>1, <2>1, Alone DEF AccountsInv, Conflict
  <2>3. TokenFrame(q)
    BY <1>2, <1>5, <2>2 DEF TokenFrame, Outstanding
  <2>4. TokensAsBefore
    BY <1>5 DEF TokensAsBefore, Outstanding
  <2> QED
    BY <2>3, <2>4
<1>9. ResetsAsBefore
  BY <1>3 DEF ResetsAsBefore
<1>10. UsedAsBefore
  <2> SUFFICES ASSUME NEW v \in Users, user'[v].status # "deleted"
               PROVE  user[v].status # "deleted" /\ UsedTokens(v)' = UsedTokens(v)
    BY DEF UsedAsBefore
  <2>1. v # u /\ v # None
    BY <1>3, AccountConstants
  <2>2. \A t \in TokenIds : (tok'[t].user = v /\ tok'[t].used) <=> (tok[t].user = v /\ tok[t].used)
    BY <1>5, <2>1
  <2> QED
    BY <1>3, <2>1, <2>2 DEF UsedTokens, TokensOf
<1>11. FamilyInv'
  <2> SUFFICES ASSUME NEW s \in SessionIds, sess'[s].user # None
               PROVE  LET f == sess'[s].family
                          p == sess'[s].parent
                      IN  /\ f \in SessionIds /\ sess'[f].user = sess'[s].user /\ sess'[f].family = f
                          /\ p = 0 <=> s = f
                          /\ p # 0 => /\ sess'[p].user = sess'[s].user /\ sess'[p].family = f
                                      /\ sess'[p].revoked
    BY DEF FamilyInv
  <2>1. sess'[s] = sess[s] /\ sess[s].user # u /\ sess[s].user # None
    BY <1>4
  <2>2. sess[s].parent \in SessionIds \cup {0}
    BY DEF TypeOK, Session
  <2> QED
    BY <1>4, <2>1, <2>2 DEF AccountsInv, FamilyInv
<1>12. /\ req' \in [Requests -> Request] /\ LocksExclude'
       /\ \A p \in Requests : RequestInv(req[p])'
       /\ req'[q].op = "none"
       /\ \A p \in Requests \ {q} : req'[p] = req[p]
  BY <1>1, <1>6, <1>7, <1>8, AfterCommit
<1>13. TypeOK'
  BY <1>3, <1>4, <1>5, <1>12 DEF TypeOK
<1>14. ResetEndsTheOld' /\ CountInv'
  BY <1>7, <1>8, <1>9, <1>10, <1>13, Settled, CountKept DEF AccountsInv
<1>15. AdminInv'
  <2> SUFFICES ASSUME \A p \in Requests : req'[p].pc # "changed"
               PROVE  /\ ActiveAdmins' # {}
                      /\ \A p \in Requests : req'[p].op = "delete" =>
                           \/ req'[p].actor \in ActiveAdmins'
                           \/ user'[req'[p].actor].status = "deleted"
    BY DEF AdminInv
  <2>1. \A p \in Requests : req[p].pc # "changed"
    BY <1>2, <1>12
  <2>2. \A p \in Requests : req[p].op = "delete" =>
          req[p].actor \in ActiveAdmins \/ user[req[p].actor].status = "deleted"
    BY <2>1 DEF AccountsInv, AdminInv
  <2>3. \A v \in ActiveAdmins : v # u => v \in ActiveAdmins'
    BY <1>3 DEF ActiveAdmins, Active
  <2>4. ActiveAdmins' # {}
    BY <1>1, <1>2, <2>2, <2>3 DEF Exists
  <2>5. ASSUME NEW p \in Requests, req'[p].op = "delete"
        PROVE  req'[p].actor \in ActiveAdmins' \/ user'[req'[p].actor].status = "deleted"
    <3>1. req'[p] = req[p] /\ req[p].actor \in Users
      BY <1>12, <2>5 DEF AccountsInv, RequestInv, Bound
    <3> QED
      BY <1>3, <2>2, <2>3, <2>5, <3>1
  <2> QED
    BY <2>4, <2>5
<1> QED
  BY <1>11, <1>12, <1>14, <1>15 DEF AccountsInv

----------------------------------------------------------------------------
(* The inductive invariant.                                                   *)

LEMMA InitInv == Init => AccountsInv
<1> SUFFICES ASSUME Init PROVE AccountsInv
  OBVIOUS
<1> DEFINE status(u) == IF u \in Newcomers THEN "none" ELSE "active"
           role(u) == IF u \in Admins THEN "admin" ELSE "user"
<1>1. /\ user = [u \in Users |-> [status |-> status(u), role |-> role(u), pw |-> 0, resets |-> 0]]
      /\ req = [q \in Requests |-> IdleRequest]
  BY DEF Init
<1>2. /\ Owner \in Users /\ None \notin Users /\ Admins \subseteq Users /\ Admins # {}
      /\ Newcomers \cap Admins = {}
      /\ 1 \in SessionIds /\ 1 \in TokenIds
  BY AccountConstants DEF SessionIds, TokenIds
<1>3. PICK e \in BOOLEAN :
        /\ sess = [s \in SessionIds |-> IF s = 1
             THEN [NoSession EXCEPT !.user = Owner, !.family = 1, !.expired = e] ELSE NoSession]
        /\ tok = [t \in TokenIds |-> IF t \in {1, 2}
             THEN [NoToken EXCEPT !.user = Owner, !.expired = e /\ t = 1] ELSE NoToken]
  BY DEF Init
<1>4. \A u \in Users : status(u) \in {"none", "active"} /\ role(u) \in {"admin", "user"}
  OBVIOUS
<1>5. \A u \in Admins : status(u) = "active" /\ role(u) = "admin"
  BY <1>2
<1> HIDE DEF status, role
<1>6. /\ user \in [Users -> User]
      /\ \A u \in Users : user[u].status = status(u) /\ user[u].role = role(u) /\ user[u].resets = 0
  BY <1>1, <1>4 DEF User
<1>7. /\ sess \in [SessionIds -> Session]
      /\ \A s \in SessionIds : /\ sess[s].user = IF s = 1 THEN Owner ELSE None
                               /\ s = 1 => sess[s].family = 1
                               /\ sess[s].at = 0 /\ sess[s].parent = 0
  <2> DEFINE first == [NoSession EXCEPT !.user = Owner, !.family = 1, !.expired = e]
  <2>1. /\ first \in Session /\ first.user = Owner /\ first.family = 1 /\ first.at = 0
        /\ first.parent = 0
    BY <1>2 DEF Session, NoSession
  <2>2. NoSession \in Session /\ NoSession.user = None /\ NoSession.at = 0 /\ NoSession.parent = 0
    BY DEF Session, NoSession
  <2>3. sess = [s \in SessionIds |-> IF s = 1 THEN first ELSE NoSession]
    BY <1>3
  <2> HIDE DEF first
  <2> QED
    BY <2>1, <2>2, <2>3
<1>8. /\ tok \in [TokenIds -> Token]
      /\ \A t \in TokenIds : /\ tok[t].user \in {Owner, None} /\ tok[t].used = FALSE
                             /\ tok[t].at = 0
  <2> DEFINE issued(t) == [NoToken EXCEPT !.user = Owner, !.expired = e /\ t = 1]
  <2>1. \A t : /\ issued(t) \in Token /\ issued(t).user = Owner /\ issued(t).used = FALSE
               /\ issued(t).at = 0
    <3> SUFFICES ASSUME NEW t
                 PROVE  /\ issued(t) \in Token /\ issued(t).user = Owner /\ issued(t).used = FALSE
                        /\ issued(t).at = 0
      OBVIOUS
    <3>1. (e /\ t = 1) \in BOOLEAN
      OBVIOUS
    <3> DEFINE b == e /\ t = 1
    <3>2. b \in BOOLEAN
      BY <3>1
    <3> HIDE DEF b
    <3>3. LET y == [NoToken EXCEPT !.user = Owner, !.expired = b]
          IN  y \in Token /\ y.user = Owner /\ y.used = FALSE /\ y.at = 0
      BY <1>2, <3>2 DEF Token, NoToken
    <3> QED
      BY <3>3 DEF b
  <2>2. NoToken \in Token /\ NoToken.user = None /\ NoToken.used = FALSE /\ NoToken.at = 0
    BY DEF Token, NoToken
  <2>3. tok = [t \in TokenIds |-> IF t \in {1, 2} THEN issued(t) ELSE NoToken]
    BY <1>3
  <2> HIDE DEF issued
  <2> QED
    BY <2>1, <2>2, <2>3
<1>9. /\ IdleRequest \in Request /\ IdleRequest.op = "none" /\ IdleRequest.pc = "idle"
      /\ IdleRequest.held = {} /\ IdleRequest.dirty = {}
  BY DEF IdleRequest, Request, Operations
<1>10. req \in [Requests -> Request] /\ \A q \in Requests : req[q] = IdleRequest
  BY <1>1, <1>9
<1>11. ResetEndsTheOld
  <2>1. TypeOK
    BY <1>6, <1>7, <1>8, <1>10 DEF TypeOK
  <2>2. \A s \in SessionIds : Live(s) => sess[s].at = user[sess[s].user].resets
    BY <1>2, <1>6, <1>7 DEF Live
  <2>3. \A t \in TokenIds : Outstanding(t) => tok[t].at = user[tok[t].user].resets
    BY <1>2, <1>6, <1>8 DEF Outstanding
  <2> QED
    BY <2>1, <2>2, <2>3 DEF ResetEndsTheOld
<1>12. LocksExclude
  BY <1>9, <1>10 DEF LocksExclude
<1>13. \A q \in Requests : RequestInv(req[q])
  BY <1>9, <1>10 DEF RequestInv, Placed, Bound, Locking, Current, Passing, ResetHasToken,
                     ResetHasUser, DeleteHasUser, HasSpent
<1>14. FamilyInv
  BY <1>2, <1>7 DEF FamilyInv
<1>15. CountInv
  <2>1. \A u \in Users : UsedTokens(u) = {}
    BY <1>8 DEF UsedTokens, TokensOf
  <2> QED
    BY <1>6, <2>1, FS_EmptySet DEF CountInv
<1>16. AdminInv
  BY <1>2, <1>5, <1>6, <1>9, <1>10 DEF AdminInv, ActiveAdmins, Active
<1> QED
  BY <1>11, <1>12, <1>13, <1>14, <1>15, <1>16 DEF AccountsInv

LEMMA NextInv == AccountsInv /\ [Next]_vars => AccountsInv'
<1> SUFFICES ASSUME AccountsInv, [Next]_vars PROVE AccountsInv'
  OBVIOUS
<1>1. TypeOK
  BY DEF AccountsInv, ResetEndsTheOld
<1>2. ASSUME NEW q \in Requests, Arrive(q) PROVE AccountsInv'
  <2>1. CASE \E u \in Newcomers : Register(q, u)
    BY <1>1, <2>1, RegisterStep
  <2>2. CASE \A u \in Newcomers : ~Register(q, u)
    BY <1>1, <1>2, <2>2, ArriveStep
  <2> QED
    BY <2>1, <2>2
<1>3. ASSUME NEW q \in Requests, Serve(q) PROVE AccountsInv'
  <2>1. CASE \/ LoginCommit(q) \/ RotateInsert(q) \/ RotateCommit(q) \/ EndSession(q)
             \/ RevokeSnapshot(q) \/ RevokeSessions(q) \/ RevokeCommit(q)
    BY <1>1, <2>1, LoginCommitStep, RotateInsertStep, RotateCommitStep, EndSessionStep,
       RevokeSnapshotStep, RevokeSessionsStep, RevokeCommitStep
  <2>2. CASE \/ ForgotRevoke(q) \/ ForgotInsert(q) \/ ForgotSend(q)
             \/ LockToken(q) \/ LockUser(q) \/ OthersSnapshot(q) \/ RevokeTokens(q)
             \/ ResetCommit(q) \/ SetPasswordCommit(q)
    BY <1>1, <2>2, ForgotRevokeStep, ForgotInsertStep, ForgotSendStep, LockTokenStep,
       LockUserStep, OthersSnapshotStep, RevokeTokensStep, ResetCommitStep, SetPasswordCommitStep
  <2>3. CASE \/ CheckRole(q) \/ CheckStatus(q) \/ FlushUser(q) \/ FlushAudit(q)
             \/ UpdateCommit(q)
    BY <1>1, <2>3, CheckRoleStep, CheckStatusStep, FlushStep, UpdateCommitStep
  <2>4. CASE \/ LockTarget(q) \/ DeleteGuard(q) \/ AuditTarget(q) \/ DeleteCommit(q)
             \/ DeadlockVictim(q)
    BY <1>1, <2>4, LockTargetStep, DeleteGuardStep, AuditTargetStep, DeleteCommitStep,
       DeadlockVictimStep
  <2> QED
    BY <1>3, <2>1, <2>2, <2>3, <2>4 DEF Serve
<1>4. CASE UNCHANGED vars
  <2>1. user' = user /\ sess' = sess /\ tok' = tok /\ req' = req
    BY <1>4 DEF vars
  <2>2. ResetEndsTheOld'
    BY <2>1 DEF AccountsInv, ResetEndsTheOld, TypeOK, Live, Outstanding
  <2>3. LocksExclude' /\ FamilyInv'
    BY <2>1 DEF AccountsInv, LocksExclude, FamilyInv
  <2>4. CountInv'
    BY <2>1 DEF AccountsInv, CountInv, UsedTokens, TokensOf
  <2>5. AdminInv'
    BY <2>1 DEF AccountsInv, AdminInv, ActiveAdmins, Active
  <2>6. \A q \in Requests : RequestInv(req[q])'
    BY <2>1 DEF AccountsInv, RequestInv, Placed, Bound, Locking, Current, Passing, ResetHasToken,
                ResetHasUser, DeleteHasUser, HasSpent, Exists, Active, Outstanding, TokensOf,
                SessionsOf, Live, UserLock, TokenLocks
  <2> QED
    BY <2>2, <2>3, <2>4, <2>5, <2>6 DEF AccountsInv
<1> QED
  BY <1>2, <1>3, <1>4 DEF Next

(* In every reachable state each request stands where its operation can be,   *)
(* holds the locks its later statements rely on, no two hold conflicting      *)
(* locks, and what it read under a lock is still so.                          *)
THEOREM AccountsInvariant == Spec => []AccountsInv
<1>1. Init => AccountsInv
  BY InitInv
<1>2. AccountsInv /\ [Next]_vars => AccountsInv'
  BY NextInv
<1> QED
  BY <1>1, <1>2, PTL DEF Spec

(* password_reset.py:195-237: after a password reset no earlier session or    *)
(* reset token of the account is usable, in any interleaving of any number of *)
(* requests.                                                                  *)
THEOREM ResetsEndTheOld == Spec => []ResetEndsTheOld
<1>1. AccountsInv => ResetEndsTheOld
  BY DEF AccountsInv
<1> QED
  BY <1>1, AccountsInvariant, PTL

(* deletion.py:110-174: deletions alone never remove the last active          *)
(* administrator, though each counts the others without a lock.               *)
THEOREM DeletionsAreSafe == Spec => []DeletionsKeepAnAdmin
<1>1. AccountsInv => DeletionsKeepAnAdmin
  BY DEF AccountsInv, AdminInv, DeletionsKeepAnAdmin
<1> QED
  BY <1>1, AccountsInvariant, PTL

(* Two live sessions of one family: the others of the family were exchanged   *)
(* for revoked ones, of which there are too few for each to have one of its   *)
(* own.                                                                       *)
LEMMA SharedParent ==
  ASSUME TypeOK, FamilyInv, NEW s \in SessionIds, NEW t \in SessionIds,
         Live(s), Live(t), s # t, sess[s].family = sess[t].family
  PROVE  \E p, q \in SessionIds : p # q /\ sess[p].user # None /\ sess[q].user # None
            /\ sess[p].parent # 0 /\ sess[p].parent = sess[q].parent
<1> DEFINE f == sess[s].family
           Family == {x \in SessionIds : sess[x].user # None /\ sess[x].family = f}
           Later == Family \ {f}
           Dead == (Family \ {s}) \ {t}
<1>1. /\ f \in SessionIds /\ f \in Family /\ s \in Family /\ t \in Family
  BY DEF FamilyInv, Live
<1>2. IsFiniteSet(Family)
  <2>1. IsFiniteSet(SessionIds) /\ Family \subseteq SessionIds
    BY AccountConstants, FS_Interval DEF SessionIds
  <2> QED
    BY <2>1, FS_Subset
<1>3. \A x \in Later : sess[x].parent # 0 /\ sess[x].parent \in Dead
  <2> SUFFICES ASSUME NEW x \in Later PROVE sess[x].parent # 0 /\ sess[x].parent \in Dead
    OBVIOUS
  <2>1. sess[x].parent \in SessionIds \cup {0}
    BY DEF TypeOK, Session
  <2> QED
    BY <2>1 DEF FamilyInv, Live
<1>4. /\ IsFiniteSet(Later) /\ IsFiniteSet(Dead)
      /\ Cardinality(Later) = Cardinality(Family) - 1
      /\ Cardinality(Dead) = Cardinality(Family) - 2
      /\ Cardinality(Family) \in Nat
  <2> HIDE DEF Family
  <2>1. IsFiniteSet(Later) /\ Cardinality(Later) = Cardinality(Family) - 1
    BY <1>1, <1>2, FS_RemoveElement
  <2>2. IsFiniteSet(Family \ {s}) /\ Cardinality(Family \ {s}) = Cardinality(Family) - 1
    BY <1>1, <1>2, FS_RemoveElement
  <2>3. t \in Family \ {s}
    BY <1>1
  <2>4. IsFiniteSet(Dead) /\ Cardinality(Dead) = Cardinality(Family \ {s}) - 1
    BY <2>2, <2>3, FS_RemoveElement
  <2>5. Cardinality(Family) \in Nat
    BY <1>2, FS_CardinalityType
  <2> QED
    BY <2>1, <2>2, <2>4, <2>5
<1> DEFINE exchanged == [x \in Later |-> sess[x].parent]
<1>5. exchanged \in [Later -> Dead]
  BY <1>3
<1>6. \E x, y \in Later : x # y /\ exchanged[x] = exchanged[y]
  <2> HIDE DEF exchanged, Later, Dead
  <2> QED
    BY <1>4, <1>5, FS_PigeonHole
<1>7. PICK p \in Later, q \in Later : p # q /\ sess[p].parent = sess[q].parent
  BY <1>6
<1> QED
  BY <1>3, <1>7

(* password_reset.py:201-229, auth.py:172-189: the password of an account has *)
(* been reset exactly as often as its reset tokens were used, and a refresh   *)
(* token is exchanged twice only by overlapping refreshes.                    *)
THEOREM TokensAreSpentOnce == Spec => []TokensSpentOnce
<1>1. AccountsInv => TokensSpentOnce
  <2> SUFFICES ASSUME AccountsInv PROVE TokensSpentOnce
    OBVIOUS
  <2>1. \A u \in Users : Exists(u) =>
          user[u].resets = Cardinality({t \in TokensOf(u) : tok[t].used})
    BY DEF AccountsInv, CountInv, UsedTokens, Exists
  <2>2. TypeOK /\ FamilyInv
    BY DEF AccountsInv, ResetEndsTheOld
  <2>3. \A s, t \in SessionIds :
          Live(s) /\ Live(t) /\ s # t /\ sess[s].family = sess[t].family
            => \E p, q \in SessionIds : p # q /\ sess[p].user # None /\ sess[q].user # None
                 /\ sess[p].parent # 0 /\ sess[p].parent = sess[q].parent
    BY <2>2, SharedParent
  <2> QED
    BY <2>1, <2>3 DEF TokensSpentOnce
<1> QED
  BY <1>1, AccountsInvariant, PTL


----------------------------------------------------------------------------
(* What a request holds where it waits (ModestInv).                           *)

(* A token of an account stays its token until it is withdrawn for good.      *)
TokenOwnersStay ==
  \A t \in TokenIds, u \in Users :
    tok[t].user = u \/ (tok[t].user = None /\ tok[t].revoked) =>
      tok'[t].user = u \/ (tok'[t].user = None /\ tok'[t].revoked)

LEMMA ModestKept ==
  ASSUME AccountsInv, TokenOwnersStay, NEW p \in Requests, Modest(req[p]), req'[p] = req[p]
  PROVE  Modest(req[p])'
<1> DEFINE r == req[p]
<1>1. r.op = "reset" /\ r.pc = "spending" => r.user \in Users /\ r.snap \subseteq TokenIds
  BY DEF AccountsInv, RequestInv, Bound
<1>2. r.op = "reset" /\ r.pc = "spending" =>
        \A t \in r.snap : tok'[t].user = r.user \/ (tok'[t].user = None /\ tok'[t].revoked)
  BY <1>1 DEF Modest, TokenOwnersStay
<1> QED
  BY <1>2 DEF Modest, EmptyHanded, UserLock, TokenLocks

LEMMA ModestStep ==
  ASSUME TypeOK, AccountsInv, ModestInv, NEW q \in Requests, NEW next,
         req' = [req EXCEPT ![q] = next], UNCHANGED tok, Modest(next)
  PROVE  ModestInv'
<1>1. req'[q] = next /\ \A p \in Requests \ {q} : req'[p] = req[p]
  BY DEF TypeOK
<1>2. TokenOwnersStay
  BY DEF TokenOwnersStay
<1>3. \A p \in Requests \ {q} : Modest(req[p])'
  BY <1>1, <1>2, ModestKept DEF ModestInv
<1>4. Modest(req[q])'
  BY <1>1 DEF Modest, EmptyHanded, UserLock, TokenLocks
<1> QED
  BY <1>3, <1>4 DEF ModestInv

LEMMA ModestEnd ==
  ASSUME TypeOK, AccountsInv, ModestInv, NEW q \in Requests,
         NEW outcome \in {"answered", "changed"}, End(q, outcome), TokenOwnersStay
  PROVE  ModestInv'
<1> DEFINE next == [IdleRequest EXCEPT !.pc = outcome]
<1>1. req \in [Requests -> Request] /\ req' = [req EXCEPT ![q] = next]
  BY DEF TypeOK, End
<1>2. next.op = "none" /\ next.pc = outcome /\ next.held = {}
  BY IdleType
<1> HIDE DEF next
<1>3. req'[q] = next /\ \A p \in Requests \ {q} : req'[p] = req[p]
  BY <1>1
<1>4. \A p \in Requests \ {q} : Modest(req[p])'
  BY <1>3, ModestKept DEF ModestInv
<1>5. Modest(req[q])'
  BY <1>2, <1>3 DEF Modest, EmptyHanded
<1> QED
  BY <1>4, <1>5 DEF ModestInv

LEMMA ModestRefuse ==
  ASSUME TypeOK, AccountsInv, ModestInv, NEW q \in Requests, Refuse(q)
  PROVE  ModestInv'
<1>1. TokenOwnersStay /\ End(q, "answered")
  BY DEF TokenOwnersStay, Refuse
<1> QED
  BY <1>1, ModestEnd

(* A request with much in its hands stands at another place.                  *)
LEMMA ModestElsewhere ==
  ASSUME NEW r, r.op \notin {"login", "logout"},
         r.op = "refresh" => r.pc = "commit",
         r.op = "setpw" => r.pc \notin {"others", "spending"},
         r.pc \notin {"excess", "token", "target", "rotated", "user", "spending"}
  PROVE  Modest(r)
  BY DEF Modest, EmptyHanded

(* A request that has just arrived holds nothing.                             *)
Fresh(q) ==
  /\ req'[q].held = {} /\ req'[q].pc # "spending"
  /\ \A p \in Requests \ {q} : req'[p] = req[p]

LEMMA ModestFresh ==
  ASSUME AccountsInv, ModestInv, NEW q \in Requests, Fresh(q), UNCHANGED tok
  PROVE  ModestInv'
<1>1. TokenOwnersStay
  BY DEF TokenOwnersStay
<1>2. \A p \in Requests \ {q} : Modest(req[p])'
  BY <1>1, ModestKept DEF ModestInv, Fresh
<1>3. Modest(req[q])'
  BY DEF Fresh, Modest
<1> QED
  BY <1>2, <1>3 DEF ModestInv

LEMMA ModestArrive ==
  ASSUME TypeOK, AccountsInv, ModestInv, NEW q \in Requests, Arrive(q)
  PROVE  ModestInv'
<1>1. CASE Refuse(q)
  BY <1>1, ModestRefuse
<1>2. CASE Fresh(q) /\ UNCHANGED tok
  BY <1>2, ModestFresh
<1>3. ASSUME NEW next, req' = [req EXCEPT ![q] = next], next.held = {}, next.pc # "spending"
      PROVE  Fresh(q)
  BY <1>3 DEF Fresh, TypeOK
<1> USE DEF IdleRequest, Begin
<1>4. ASSUME NEW u \in Newcomers, Register(q, u) PROVE ModestInv'
  <2>1. CASE ~Refuse(q)
    <3> DEFINE next == [IdleRequest EXCEPT !.pc = "answered"]
    <3>1. req' = [req EXCEPT ![q] = next] /\ UNCHANGED tok
      BY <1>4, <2>1 DEF Register, End
    <3>2. next.held = {} /\ next.pc # "spending"
      OBVIOUS
    <3> HIDE DEF next
    <3> QED
      BY <1>2, <1>3, <3>1, <3>2
  <2> QED
    BY <1>1, <2>1
<1>5. ASSUME NEW u \in Clients, NEW pw \in {0, 1}, LoginRead(q, u, pw) PROVE ModestInv'
  <2>1. CASE ~Refuse(q)
    <3> DEFINE next == [IdleRequest EXCEPT !.op = "login", !.pc = "issue", !.user = u]
    <3>1. req' = [req EXCEPT ![q] = next] /\ UNCHANGED tok
      BY <1>5, <2>1 DEF LoginRead
    <3>2. next.held = {} /\ next.pc # "spending"
      OBVIOUS
    <3> HIDE DEF next
    <3> QED
      BY <1>2, <1>3, <3>1, <3>2
  <2> QED
    BY <1>1, <2>1
<1>6. ASSUME NEW s \in SessionIds, RefreshRead(q, s) PROVE ModestInv'
  <2> DEFINE pc == IF sess[s].revoked THEN "revoke"
                   ELSE IF sess[s].expired THEN "end"
                   ELSE IF Active(sess[s].user) THEN "rotate" ELSE "revoke"
  <2> DEFINE next == [IdleRequest EXCEPT !.op = "refresh",
                  !.user = sess[s].user, !.row = s, !.pc = pc]
  <2>1. req' = [req EXCEPT ![q] = next] /\ UNCHANGED tok
    BY <1>6 DEF RefreshRead
  <2>2. pc # "spending"
    OBVIOUS
  <2> HIDE DEF pc
  <2>3. next.held = {} /\ next.pc # "spending"
    BY <2>2
  <2> HIDE DEF next
  <2> QED
    BY <1>2, <1>3, <2>1, <2>3
<1>7. ASSUME NEW s \in SessionIds, LogoutRead(q, s) PROVE ModestInv'
  <2>1. CASE ~Refuse(q)
    <3> DEFINE next == [IdleRequest EXCEPT !.op = "logout", !.pc = "end",
                    !.user = sess[s].user, !.row = s]
    <3>1. req' = [req EXCEPT ![q] = next] /\ UNCHANGED tok
      BY <1>7, <2>1 DEF LogoutRead
    <3>2. next.held = {} /\ next.pc # "spending"
      OBVIOUS
    <3> HIDE DEF next
    <3> QED
      BY <1>2, <1>3, <3>1, <3>2
  <2> QED
    BY <1>1, <2>1
<1>8. ASSUME NEW u \in Clients, ForgotRead(q, u) PROVE ModestInv'
  <2>1. CASE ~Refuse(q)
    <3> DEFINE next == [IdleRequest EXCEPT !.op = "forgot", !.pc = "excess",
                    !.user = u, !.snap = Excess(u), !.spent = Excess(u)]
    <3>1. req' = [req EXCEPT ![q] = next] /\ UNCHANGED tok
      BY <1>8, <2>1 DEF ForgotRead
    <3>2. next.held = {} /\ next.pc # "spending"
      OBVIOUS
    <3> HIDE DEF next
    <3> QED
      BY <1>2, <1>3, <3>1, <3>2
  <2> QED
    BY <1>1, <2>1
<1>9. ASSUME NEW t \in TokenIds, ResetStart(q, t) PROVE ModestInv'
  <2> DEFINE next == [IdleRequest EXCEPT !.op = "reset", !.pc = "token", !.row = t, !.user = tok[t].user]
  <2>1. req' = [req EXCEPT ![q] = next] /\ UNCHANGED tok
    BY <1>9 DEF ResetStart
  <2>2. next.held = {} /\ next.pc # "spending"
    OBVIOUS
  <2> HIDE DEF next
  <2> QED
    BY <1>2, <1>3, <2>1, <2>2
<1>10. ASSUME NEW u \in Clients, SetPasswordRead(q, u) PROVE ModestInv'
  <2> DEFINE next == [IdleRequest EXCEPT !.op = "setpw", !.pc = "others", !.user = u]
  <2>1. req' = [req EXCEPT ![q] = next] /\ UNCHANGED tok
    BY <1>10 DEF SetPasswordRead
  <2>2. next.held = {} /\ next.pc # "spending"
    OBVIOUS
  <2> HIDE DEF next
  <2> QED
    BY <1>2, <1>3, <2>1, <2>2
<1>11. ASSUME NEW a \in ActiveAdmins, NEW u \in Users, RevokeAllRead(q, a, u) PROVE ModestInv'
  <2> DEFINE next == [IdleRequest EXCEPT !.op = "revoke", !.pc = "revoke",
                  !.actor = a, !.user = u]
  <2>1. req' = [req EXCEPT ![q] = next] /\ UNCHANGED tok
    BY <1>11 DEF RevokeAllRead
  <2>2. next.held = {} /\ next.pc # "spending"
    OBVIOUS
  <2> HIDE DEF next
  <2> QED
    BY <1>2, <1>3, <2>1, <2>2
<1>12. ASSUME NEW a \in ActiveAdmins, NEW u \in Users, DeleteStart(q, a, u) PROVE ModestInv'
  <2> DEFINE next == [IdleRequest EXCEPT !.op = "delete", !.pc = "target",
                  !.actor = a, !.user = u]
  <2>1. req' = [req EXCEPT ![q] = next] /\ UNCHANGED tok
    BY <1>12 DEF DeleteStart
  <2>2. next.held = {} /\ next.pc # "spending"
    OBVIOUS
  <2> HIDE DEF next
  <2> QED
    BY <1>2, <1>3, <2>1, <2>2
<1>13. ASSUME NEW a \in ActiveAdmins, NEW u \in Users, NEW c \in Changes,
              UpdateRead(q, a, u, c[1], c[2])
       PROVE  ModestInv'
  <2> DEFINE next == [IdleRequest EXCEPT !.op = "update", !.pc = "role",
                  !.actor = a, !.user = u, !.role = user[u].role, !.status = user[u].status,
                  !.toRole = c[1], !.toStatus = c[2]]
  <2>1. req' = [req EXCEPT ![q] = next] /\ UNCHANGED tok
    BY <1>13 DEF UpdateRead
  <2>2. next.held = {} /\ next.pc # "spending"
    OBVIOUS
  <2> HIDE DEF next
  <2> QED
    BY <1>2, <1>3, <2>1, <2>2
<1> QED
  BY <1>4, <1>5, <1>6, <1>7, <1>8, <1>9, <1>10, <1>11, <1>12, <1>13 DEF Arrive

(* A Goto to a place where much may be held.                                  *)
LEMMA ModestGoto ==
  ASSUME TypeOK, AccountsInv, ModestInv, NEW q \in Requests, NEW pc \in Places, Goto(q, pc),
         UNCHANGED tok, req[q].op \notin {"login", "logout", "refresh"},
         pc \notin {"excess", "token", "target", "rotated", "user", "others", "spending"}
  PROVE  ModestInv'
<1> DEFINE next == Moved(q, pc)
<1>1. req' = [req EXCEPT ![q] = next] /\ next.op = req[q].op /\ next.pc = pc
  BY GotoNext
<1> HIDE DEF next
<1>2. Modest(next)
  BY <1>1, ModestElsewhere
<1> QED
  BY <1>1, <1>2, ModestStep

LEMMA ModestRotate ==
  ASSUME TypeOK, AccountsInv, ModestInv, NEW q \in Requests, RotateInsert(q)
  PROVE  ModestInv'
<1>1. req[q].pc = "rotate"
  BY DEF RotateInsert, At
<1>2. CASE Refuse(q)
  BY <1>2, ModestRefuse
<1>3. CASE Goto(q, "rotated") /\ UNCHANGED tok
  <2> DEFINE next == Moved(q, "rotated")
  <2>1. req[q].op = "refresh"
    BY <1>1, Serving DEF Placed, Passing
  <2>2. req[q].held = {}
    BY <1>1, <2>1 DEF ModestInv, Modest, EmptyHanded
  <2>3. Holding(q) = UserLock(req[q].user, "K")
    BY <1>1, <2>2, NeedsAt DEF Holding, RotationNeeds
  <2>4. /\ req' = [req EXCEPT ![q] = next] /\ next.op = "refresh" /\ next.pc = "rotated"
        /\ next.user = req[q].user /\ next.held = Holding(q)
    BY <1>3, <2>1, GotoNext DEF Places
  <2> HIDE DEF next
  <2>5. Modest(next)
    BY <2>3, <2>4 DEF Modest, EmptyHanded
  <2> QED
    BY <1>3, <2>4, <2>5, ModestStep
<1> QED
  BY <1>2, <1>3 DEF RotateInsert

LEMMA ModestLockToken ==
  ASSUME TypeOK, AccountsInv, ModestInv, NEW q \in Requests, LockToken(q)
  PROVE  ModestInv'
<1>1. req[q].pc = "token"
  BY DEF LockToken, At
<1>2. CASE Refuse(q)
  BY <1>2, ModestRefuse
<1>3. CASE Goto(q, "user") /\ UNCHANGED tok
  <2> DEFINE next == Moved(q, "user")
  <2>1. req[q].op = "reset"
    BY <1>1, Serving DEF Placed, Passing
  <2>2. req[q].held = {}
    BY <1>1 DEF ModestInv, Modest, EmptyHanded
  <2>3. Holding(q) = TokenLocks({req[q].row}, "X")
    BY <1>1, <2>2, NeedsAt DEF Holding
  <2>4. /\ req' = [req EXCEPT ![q] = next] /\ next.op = "reset" /\ next.pc = "user"
        /\ next.row = req[q].row /\ next.held = Holding(q)
    BY <1>3, <2>1, GotoNext DEF Places
  <2> HIDE DEF next
  <2>5. Modest(next)
    BY <2>3, <2>4 DEF Modest, EmptyHanded
  <2> QED
    BY <1>3, <2>4, <2>5, ModestStep
<1> QED
  BY <1>2, <1>3 DEF LockToken

LEMMA ModestLockUser ==
  ASSUME TypeOK, AccountsInv, ModestInv, NEW q \in Requests, LockUser(q)
  PROVE  ModestInv'
<1>1. req[q].pc = "user"
  BY DEF LockUser, At
<1>2. CASE Refuse(q)
  BY <1>2, ModestRefuse
<1>3. CASE Goto(q, "others") /\ UNCHANGED tok
  <2> DEFINE next == Moved(q, "others")
  <2>1. req[q].op = "reset"
    BY <1>1, Serving DEF Placed, Passing
  <2>2. req' = [req EXCEPT ![q] = next] /\ next.op = "reset" /\ next.pc = "others"
    BY <1>3, <2>1, GotoNext DEF Places
  <2> HIDE DEF next
  <2>3. Modest(next)
    BY <2>2, ModestElsewhere
  <2> QED
    BY <1>3, <2>2, <2>3, ModestStep
<1> QED
  BY <1>2, <1>3 DEF LockUser

LEMMA ModestRevokeSnapshot ==
  ASSUME TypeOK, AccountsInv, ModestInv, NEW q \in Requests, RevokeSnapshot(q)
  PROVE  ModestInv'
<1> DEFINE M == Matching(q)
           next == Snapped(req[q], "revoking", M)
<1>1. req[q].pc = "revoke" /\ UNCHANGED tok /\ req[q] \in Request
  BY DEF RevokeSnapshot, At, TypeOK
<1>2. req' = [req EXCEPT ![q] = next]
  BY DEF RevokeSnapshot, Snapped, TypeOK
<1>3. M \in SUBSET Nat
  BY DEF Matching, SessionIds
<1> HIDE DEF M
<1>4. next.op = req[q].op /\ next.pc = "revoking" /\ next.held = req[q].held
  BY <1>1, <1>3, SnappedFields DEF Places
<1> HIDE DEF next
<1>5. req[q].op \notin {"login", "logout"}
  BY <1>1, Serving DEF Placed, Passing
<1>6. req[q].op = "refresh" => next.held = {}
  BY <1>1, <1>4 DEF ModestInv, Modest, EmptyHanded
<1>7. Modest(next)
  BY <1>4, <1>5, <1>6 DEF Modest, EmptyHanded
<1> QED
  BY <1>1, <1>2, <1>7, ModestStep

LEMMA ModestRevokeSessions ==
  ASSUME TypeOK, AccountsInv, ModestInv, NEW q \in Requests, RevokeSessions(q)
  PROVE  ModestInv'
<1> DEFINE r == req[q]
           D == {s \in r.snap : Live(s)}
           H == Holding(q)
           pc == IF r.op \in {"revoke", "delete"} THEN "audit" ELSE "commit"
           next == Killing(r, pc, D, H)
<1>1. r.pc = "revoking" /\ UNCHANGED tok /\ r \in Request /\ H \in LockSets
  BY HoldingType DEF RevokeSessions, At, TypeOK
<1>2. req' = [req EXCEPT ![q] = next]
  BY DEF RevokeSessions, Killing, TypeOK
<1>3. D \in SessionSets /\ r.op \notin {"login", "logout"}
  BY <1>1, Serving DEF Bound, SessionSets, Placed, Passing
<1>4. /\ pc \in Places \cap {"audit", "commit"}
      /\ r.op = "refresh" => pc = "commit"
  BY DEF Places
<1> HIDE DEF D, H, pc, r
<1>5. next.op = r.op /\ next.pc = pc
  BY <1>1, <1>3, <1>4, KillingFields
<1> HIDE DEF next
<1>6. Modest(next)
  BY <1>3, <1>4, <1>5, ModestElsewhere
<1> QED
  BY <1>1, <1>2, <1>6, ModestStep

LEMMA ModestOthersSnapshot ==
  ASSUME TypeOK, AccountsInv, ModestInv, NEW q \in Requests, OthersSnapshot(q)
  PROVE  ModestInv'
<1> DEFINE r == req[q]
           S == {t \in TokensOf(r.user) : Outstanding(t) /\ t # r.row}
           next == Snapped(r, "spending", S)
<1>1. r.pc = "others" /\ UNCHANGED tok /\ r \in Request
  BY DEF OthersSnapshot, At, TypeOK
<1>2. req' = [req EXCEPT ![q] = next]
  BY DEF OthersSnapshot, Snapped, TypeOK
<1>3. S \in SUBSET Nat /\ \A t \in S : tok[t].user = r.user
  BY DEF TokensOf, TokenIds
<1> HIDE DEF S
<1>4. /\ next.op = r.op /\ next.pc = "spending" /\ next.held = r.held /\ next.snap = S
      /\ next.user = r.user
  BY <1>1, <1>3, SnappedFields DEF Places
<1> HIDE DEF next
<1>5. r.op \in {"reset", "setpw"} /\ (r.op = "setpw" => r.held = {})
  BY <1>1, Serving DEF Placed, Passing, ModestInv, Modest, EmptyHanded
<1>6. Modest(next)
  BY <1>3, <1>4, <1>5 DEF Modest, EmptyHanded
<1> QED
  BY <1>1, <1>2, <1>6, ModestStep

LEMMA ModestRevokeTokens ==
  ASSUME TypeOK, AccountsInv, ModestInv, NEW q \in Requests, RevokeTokens(q)
  PROVE  ModestInv'
<1> DEFINE r == req[q]
           S == {t \in r.snap : Outstanding(t)}
           H == Holding(q)
           next == Spending(r, S, H)
<1>1. r.pc = "spending" /\ UNCHANGED tok /\ r \in Request /\ H \in LockSets
  BY HoldingType DEF RevokeTokens, At, TypeOK
<1>2. req' = [req EXCEPT ![q] = next]
  BY DEF RevokeTokens, Spending, TypeOK
<1>3. S \in TokenSets /\ r.op \in {"reset", "setpw"}
  BY <1>1, Serving DEF Bound, TokenSets, Placed, Passing
<1> HIDE DEF S, H, r
<1>4. next.op = r.op /\ next.pc = "revoke"
  BY <1>1, <1>3, SpendingFields
<1> HIDE DEF next
<1>5. Modest(next)
  BY <1>3, <1>4, ModestElsewhere
<1> QED
  BY <1>1, <1>2, <1>5, ModestStep

LEMMA ModestCheck ==
  ASSUME TypeOK, AccountsInv, ModestInv, NEW q \in Requests, CheckRole(q) \/ CheckStatus(q)
  PROVE  ModestInv'
<1> DEFINE r == req[q]
<1>1. r.op = "update" /\ r \in Request
  BY Serving DEF CheckRole, CheckStatus, At, Placed, Passing, TypeOK
<1>2. CASE Refuse(q)
  BY <1>2, ModestRefuse
<1>3. ASSUME NEW pc \in {"checkStatus", "commit"}, Goto(q, pc), UNCHANGED tok
      PROVE  ModestInv'
  BY <1>1, <1>3, ModestGoto DEF Places
<1>4. CASE /\ r.toRole \notin {None, r.role} /\ UNCHANGED tok
           /\ req' = [req EXCEPT ![q].pc = "writeRole", ![q].role = r.toRole, ![q].dirty = {"role"}]
  <2> DEFINE next == RoleSet(r, r.toRole)
  <2>1. req' = [req EXCEPT ![q] = next]
    BY <1>4 DEF RoleSet, TypeOK
  <2>2. r.toRole \in {"user", "admin"}
    BY <1>1, <1>4, RequestFields
  <2>3. next.op = "update" /\ next.pc = "writeRole"
    BY <1>1, <2>2, RoleSetFields
  <2> HIDE DEF next
  <2>4. Modest(next)
    BY <2>3, ModestElsewhere
  <2> QED
    BY <1>4, <2>1, <2>4, ModestStep
<1>5. CASE /\ r.toStatus \notin {None, r.status} /\ UNCHANGED tok
           /\ req' = [req EXCEPT ![q].pc = "writeStatus", ![q].status = r.toStatus,
                                 ![q].dirty = @ \cup {"status"}]
  <2> DEFINE next == StatusSet(r, r.toStatus)
  <2>1. req' = [req EXCEPT ![q] = next]
    BY <1>5 DEF StatusSet, TypeOK
  <2>2. r.toStatus \in {"active", "disabled"}
    BY <1>1, <1>5, RequestFields
  <2>3. next.op = "update" /\ next.pc = "writeStatus"
    BY <1>1, <2>2, StatusSetFields
  <2> HIDE DEF next
  <2>4. Modest(next)
    BY <2>3, ModestElsewhere
  <2> QED
    BY <1>5, <2>1, <2>4, ModestStep
<1>6. CASE CheckRole(q)
  BY <1>2, <1>3, <1>4, <1>6 DEF CheckRole
<1>7. CASE CheckStatus(q)
  BY <1>2, <1>3, <1>5, <1>7 DEF CheckStatus
<1> QED
  BY <1>6, <1>7

(* Commits.                                                                   *)
LEMMA ModestCommit ==
  ASSUME TypeOK, AccountsInv, ModestInv, NEW q \in Requests,
         \/ LoginCommit(q) \/ RotateCommit(q) \/ EndSession(q) \/ RevokeCommit(q)
         \/ UpdateCommit(q)
  PROVE  ModestInv'
<1>1. \/ Refuse(q)
      \/ \E outcome \in {"answered", "changed"} : End(q, outcome) /\ UNCHANGED tok
  BY DEF LoginCommit, RotateCommit, EndSession, RevokeCommit, UpdateCommit
<1>2. UNCHANGED tok => TokenOwnersStay
  BY DEF TokenOwnersStay
<1> QED
  BY <1>1, <1>2, ModestRefuse, ModestEnd

LEMMA ModestForgotSend ==
  ASSUME TypeOK, AccountsInv, ModestInv, NEW q \in Requests, ForgotSend(q)
  PROVE  ModestInv'
<1>1. CASE Refuse(q)
  BY <1>1, ModestRefuse
<1>2. CASE ~Refuse(q)
  <2>1. /\ FreeToken \in TokenIds /\ tok[FreeToken] = NoToken /\ End(q, "answered")
        /\ \E new : tok' = [SpendTokens(q) EXCEPT ![FreeToken] = new]
    BY <1>2, FreeTokenIs DEF ForgotSend
  <2>2. tok[FreeToken].user = None /\ ~tok[FreeToken].revoked
    BY <2>1 DEF NoToken
  <2>3. /\ SpendTokens(q) \in [TokenIds -> Token]
        /\ \A t \in TokenIds : /\ SpendTokens(q)[t].user = tok[t].user
                               /\ tok[t].revoked => SpendTokens(q)[t].revoked
    BY Spent
  <2>4. \A t \in TokenIds \ {FreeToken} : tok'[t] = SpendTokens(q)[t]
    BY <2>1, <2>3
  <2>5. None \notin Users
    BY AccountConstants
  <2>6. TokenOwnersStay
    <3> SUFFICES ASSUME NEW t \in TokenIds, NEW u \in Users,
                        tok[t].user = u \/ (tok[t].user = None /\ tok[t].revoked)
                 PROVE  tok'[t].user = u \/ (tok'[t].user = None /\ tok'[t].revoked)
      BY DEF TokenOwnersStay
    <3>1. t # FreeToken
      BY <2>2, <2>5
    <3> QED
      BY <2>3, <2>4, <3>1
  <2> QED
    BY <2>1, <2>6, ModestEnd
<1> QED
  BY <1>1, <1>2

LEMMA ModestResetCommit ==
  ASSUME TypeOK, AccountsInv, ModestInv, NEW q \in Requests, ResetCommit(q)
  PROVE  ModestInv'
<1> DEFINE x == req[q].row
<1>1. /\ req[q].pc = "commit" /\ req[q].op = "reset" /\ End(q, "answered")
      /\ tok' = [SpendTokens(q) EXCEPT ![x] = Presented(SpendTokens(q)[x])]
  BY DEF ResetCommit, At, Presented
<1>2. x \in TokenIds
  BY <1>1, Serving DEF Bound
<1>3. /\ SpendTokens(q) \in [TokenIds -> Token]
      /\ \A t \in TokenIds : /\ SpendTokens(q)[t].user = tok[t].user
                             /\ tok[t].revoked => SpendTokens(q)[t].revoked
  BY Spent
<1>4. /\ Presented(SpendTokens(q)[x]).user = SpendTokens(q)[x].user
      /\ Presented(SpendTokens(q)[x]).revoked = SpendTokens(q)[x].revoked
  BY <1>2, <1>3, TokenChanged
<1>5. /\ tok'[x] = Presented(SpendTokens(q)[x])
      /\ \A t \in TokenIds \ {x} : tok'[t] = SpendTokens(q)[t]
  BY <1>1, <1>2, <1>3
<1>6. \A t \in TokenIds : tok'[t].user = tok[t].user /\ (tok[t].revoked => tok'[t].revoked)
  BY <1>3, <1>4, <1>5
<1>7. TokenOwnersStay
  BY <1>6 DEF TokenOwnersStay
<1> QED
  BY <1>1, <1>7, ModestEnd

LEMMA ModestSetPasswordCommit ==
  ASSUME TypeOK, AccountsInv, ModestInv, NEW q \in Requests, SetPasswordCommit(q)
  PROVE  ModestInv'
<1>1. CASE Refuse(q)
  BY <1>1, ModestRefuse
<1>2. CASE ~Refuse(q)
  <2>1. tok' = SpendTokens(q) /\ End(q, "answered")
    BY <1>2 DEF SetPasswordCommit
  <2>2. \A t \in TokenIds : /\ SpendTokens(q)[t].user = tok[t].user
                            /\ tok[t].revoked => SpendTokens(q)[t].revoked
    BY Spent
  <2>3. TokenOwnersStay
    BY <2>1, <2>2 DEF TokenOwnersStay
  <2> QED
    BY <2>1, <2>3, ModestEnd
<1> QED
  BY <1>1, <1>2

LEMMA ModestDeleteCommit ==
  ASSUME TypeOK, AccountsInv, ModestInv, NEW q \in Requests, DeleteCommit(q)
  PROVE  ModestInv'
<1> DEFINE gone == [NoToken EXCEPT !.revoked = TRUE]
<1>1. /\ End(q, "answered")
      /\ tok' = [t \in TokenIds |-> IF t \in TokensOf(req[q].user) THEN gone ELSE tok[t]]
  BY DEF DeleteCommit
<1>2. gone.user = None /\ gone.revoked
  BY DEF NoToken
<1> HIDE DEF gone
<1>3. \A t \in TokenIds : tok'[t] = gone \/ tok'[t] = tok[t]
  BY <1>1
<1>4. TokenOwnersStay
  BY <1>2, <1>3 DEF TokenOwnersStay
<1> QED
  BY <1>1, <1>4, ModestEnd

LEMMA ModestMove ==
  ASSUME TypeOK, AccountsInv, ModestInv, NEW q \in Requests,
         \/ ForgotRevoke(q) \/ ForgotInsert(q) \/ FlushUser(q) \/ FlushAudit(q)
         \/ LockTarget(q) \/ DeleteGuard(q) \/ AuditTarget(q)
  PROVE  ModestInv'
<1>1. req[q].op \in {"forgot", "update", "revoke", "delete"}
  BY Serving DEF ForgotRevoke, ForgotInsert, FlushUser, FlushAudit, LockTarget, DeleteGuard,
                 AuditTarget, At, Placed, Passing
<1>2. \/ Refuse(q)
      \/ \E pc \in {"insert", "send", "auditRole", "auditStatus", "checkStatus", "revoke",
                    "commit", "guard"} : Goto(q, pc) /\ UNCHANGED tok
  BY DEF ForgotRevoke, ForgotInsert, FlushUser, FlushAudit, LockTarget, DeleteGuard, AuditTarget
<1>3. CASE Refuse(q)
  BY <1>3, ModestRefuse
<1>4. ASSUME NEW pc \in {"insert", "send", "auditRole", "auditStatus", "checkStatus", "revoke",
                         "commit", "guard"},
             Goto(q, pc), UNCHANGED tok
      PROVE  ModestInv'
  BY <1>1, <1>4, ModestGoto DEF Places
<1> QED
  BY <1>2, <1>3, <1>4

LEMMA NextModest == AccountsInv /\ ModestInv /\ [Next]_vars => ModestInv'
<1> SUFFICES ASSUME AccountsInv, ModestInv, [Next]_vars PROVE ModestInv'
  OBVIOUS
<1>1. TypeOK
  BY DEF AccountsInv, ResetEndsTheOld
<1>2. ASSUME NEW q \in Requests, Arrive(q) PROVE ModestInv'
  BY <1>1, <1>2, ModestArrive
<1>3. ASSUME NEW q \in Requests, Serve(q) PROVE ModestInv'
  <2>1. CASE \/ LoginCommit(q) \/ RotateInsert(q) \/ RotateCommit(q) \/ EndSession(q)
             \/ RevokeSnapshot(q) \/ RevokeSessions(q) \/ RevokeCommit(q)
    BY <1>1, <2>1, ModestCommit, ModestRotate, ModestRevokeSnapshot, ModestRevokeSessions
  <2>2. CASE \/ ForgotRevoke(q) \/ ForgotInsert(q) \/ ForgotSend(q)
             \/ LockToken(q) \/ LockUser(q) \/ OthersSnapshot(q) \/ RevokeTokens(q)
             \/ ResetCommit(q) \/ SetPasswordCommit(q)
    BY <1>1, <2>2, ModestMove, ModestForgotSend, ModestLockToken, ModestLockUser,
       ModestOthersSnapshot, ModestRevokeTokens, ModestResetCommit, ModestSetPasswordCommit
  <2>3. CASE \/ CheckRole(q) \/ CheckStatus(q) \/ FlushUser(q) \/ FlushAudit(q)
             \/ UpdateCommit(q)
    BY <1>1, <2>3, ModestCheck, ModestMove, ModestCommit
  <2>4. CASE \/ LockTarget(q) \/ DeleteGuard(q) \/ AuditTarget(q) \/ DeleteCommit(q)
             \/ DeadlockVictim(q)
    BY <1>1, <2>4, ModestMove, ModestDeleteCommit, ModestRefuse DEF DeadlockVictim
  <2> QED
    BY <1>3, <2>1, <2>2, <2>3, <2>4 DEF Serve
<1>4. CASE UNCHANGED vars
  <2>1. tok' = tok /\ req' = req
    BY <1>4 DEF vars
  <2>2. TokenOwnersStay
    BY <2>1 DEF TokenOwnersStay
  <2> QED
    BY <2>1, <2>2, ModestKept DEF ModestInv
<1> QED
  BY <1>2, <1>3, <1>4 DEF Next

----------------------------------------------------------------------------
(* Cycles of waiting requests.                                                *)

(* Each of a tied set waits for another one, and is waited for by another.    *)
LEMMA TiedBothWays ==
  ASSUME NEW C \in SUBSET Requests, NEW q \in C, C # {q}, Tied(C), NEW x \in C
  PROVE  /\ WaitsFor(x) # {}
         /\ \E y \in C : x \in WaitsFor(y)
<1>1. {x} # C
  OBVIOUS
<1>2. \E p \in {x} : WaitsFor(p) \cap (C \ {x}) # {}
  BY <1>1 DEF Tied
<1>3. C \ {x} \notin {{}, C} /\ C \ {x} \in SUBSET C
  BY <1>1
<1>4. \E p \in C \ {x} : WaitsFor(p) \cap (C \ (C \ {x})) # {}
  BY <1>3 DEF Tied
<1> QED
  BY <1>2, <1>4

(* Who waits asks for a lock on a row that the other one holds.               *)
LEMMA WaitingMeans ==
  ASSUME TypeOK, AccountsInv, NEW y \in Requests, NEW x \in WaitsFor(y)
  PROVE  /\ x \in Requests /\ x # y /\ req[x].held # {} /\ Needs(y) # {}
         /\ \E row, m, n : <<row, m>> \in Needs(y) /\ <<row, n>> \in req[x].held /\ Conflict(m, n)
<1>1. PICK n \in Needs(y), h \in req[x].held : n[1] = h[1] /\ Conflict(n[2], h[2])
  BY DEF WaitsFor
<1>2. Needs(y) \subseteq Rows \X Modes /\ req[x].held \subseteq Rows \X Modes
  <2>1. x \in Requests
    BY DEF WaitsFor
  <2> QED
    BY <2>1, NeedsType, RequestFields DEF TypeOK, AccountsInv, RequestInv
<1>3. n = <<n[1], n[2]>> /\ h = <<h[1], h[2]>>
  BY <1>1, <1>2
<1> QED
  BY <1>1, <1>3 DEF WaitsFor

(* Locks by their rows.                                                       *)
LEMMA RowsOfLocks ==
  /\ \A u, v, m, n : <<<<"user", u>>, m>> \in UserLock(v, n) => u = v /\ m = n
  /\ \A t, v, m, n : <<<<"tok", t>>, m>> \notin UserLock(v, n)
  /\ \A S, u, m : <<<<"user", u>>, m>> \notin SessionLocks(S)
  /\ \A S, t, m : <<<<"tok", t>>, m>> \notin SessionLocks(S)
  /\ \A S, u, m, n : <<<<"user", u>>, m>> \notin TokenLocks(S, n)
  /\ \A S, t, m, n : <<<<"tok", t>>, m>> \in TokenLocks(S, n) => t \in S
  BY DEF UserLock, SessionLocks, TokenLocks

(* Where a request asks for an account for itself alone, and where for a      *)
(* token.                                                                     *)
LEMMA NeedsAccount ==
  ASSUME AccountsInv, NEW r \in Requests, NEW u, <<<<"user", u>>, "X">> \in Needs(r)
  PROVE  req[r].pc \in {"user", "target"} /\ req[r].user = u
<1>1. req[r].pc \in Places
  BY DEF AccountsInv, RequestInv, Placed, Passing, Places
<1>2. <<<<"user", u>>, "X">> \notin RotationNeeds(r)
  BY RowsOfLocks DEF RotationNeeds
<1>3. <<<<"user", u>>, "X">> \notin AuditNeeds(r)
  BY RowsOfLocks DEF AuditNeeds
<1>4. <<<<"user", u>>, "X">> \notin CommitNeeds(r)
  BY RowsOfLocks DEF CommitNeeds
<1>5. req[r].pc \notin {"rotate", "rotated", "audit", "commit"}
  BY <1>2, <1>3, <1>4, NeedsAt, Zenon
<1>6. \A v, n : n # "X" => Needs(r) # UserLock(v, n)
  BY RowsOfLocks
<1>7. req[r].pc \notin {"issue", "writeRole", "writeStatus", "insert", "auditRole", "auditStatus"}
  BY <1>6, NeedsAt
<1>8. /\ \A S : Needs(r) # SessionLocks(S)
      /\ \A S, n : Needs(r) # TokenLocks(S, n)
  BY RowsOfLocks
<1>9. req[r].pc \notin {"end", "excess", "spending", "token", "revoking"}
  BY <1>8, NeedsAt
<1>10. req[r].pc \in {"user", "target"}
  BY <1>1, <1>5, <1>7, <1>9, NeedsAt DEF Places
<1>11. Needs(r) = UserLock(req[r].user, "X")
  BY <1>10, NeedsAt
<1> QED
  BY <1>10, <1>11, RowsOfLocks

LEMMA NeedsToken ==
  ASSUME AccountsInv, NEW r \in Requests, NEW t, NEW m, <<<<"tok", t>>, m>> \in Needs(r)
  PROVE  \/ req[r].pc = "token"
         \/ req[r].pc \in {"excess", "spending"} /\ t \in req[r].snap
         \/ req[r].pc = "commit" /\ req[r].op = "delete" /\ t \in TokensOf(req[r].user)
<1>1. req[r].pc \in Places
  BY DEF AccountsInv, RequestInv, Placed, Passing, Places
<1>2. <<<<"tok", t>>, m>> \notin RotationNeeds(r)
  BY RowsOfLocks DEF RotationNeeds
<1>3. <<<<"tok", t>>, m>> \notin AuditNeeds(r)
  BY RowsOfLocks DEF AuditNeeds
<1>4. <<<<"tok", t>>, m>> \in CommitNeeds(r) =>
        req[r].op = "delete" /\ t \in TokensOf(req[r].user)
  BY RowsOfLocks DEF CommitNeeds
<1>5. req[r].pc \notin {"rotate", "rotated", "audit"}
  BY <1>2, <1>3, NeedsAt, Zenon
<1>6. /\ \A v, n : Needs(r) # UserLock(v, n)
      /\ \A S : Needs(r) # SessionLocks(S)
  BY RowsOfLocks
<1>7. req[r].pc \notin {"issue", "writeRole", "writeStatus", "insert", "auditRole", "auditStatus",
                       "user", "target", "end", "revoking"}
  BY <1>6, NeedsAt
<1>8. CASE req[r].pc \in {"excess", "spending"}
  <2>1. Needs(r) = TokenLocks(req[r].snap, "N")
    BY <1>8, NeedsAt
  <2> QED
    BY <1>8, <2>1, RowsOfLocks
<1>9. CASE req[r].pc = "commit"
  BY <1>4, <1>9, NeedsAt
<1> QED
  BY <1>1, <1>5, <1>7, <1>8, <1>9, NeedsAt DEF Places

(* A rotation that has inserted its session holds its account; nobody who     *)
(* wants that account for itself is waited for by somebody waited for.        *)
LEMMA NoCycle ==
  ASSUME AccountsInv, ModestInv, NEW q \in Requests,
         req[q].op \in {"login", "refresh", "logout"}, InCycle(q)
  PROVE  FALSE
<1> DEFINE u == req[q].user
<1>0. TypeOK
  BY DEF AccountsInv, ResetEndsTheOld
<1>1. PICK C \in SUBSET Requests : q \in C /\ C # {q} /\ Tied(C)
  BY Zenon DEF InCycle
<1>2. \A x \in C : req[x].held # {} /\ Needs(x) # {} /\ \E y \in C : x \in WaitsFor(y)
  BY <1>0, <1>1, TiedBothWays, WaitingMeans
<1>3. req[q].op = "refresh" /\ req[q].pc = "rotated"
  <2>1. Placed(req[q]) /\ Modest(req[q]) /\ req[q].held # {} /\ Needs(q) # {}
    BY <1>1, <1>2 DEF AccountsInv, RequestInv, ModestInv
  <2>2. ~EmptyHanded(req[q])
    BY <2>1 DEF Modest
  <2>3. req[q].op = "refresh" /\ req[q].pc \in {"rotated", "commit"}
    BY <2>1, <2>2 DEF EmptyHanded, Placed, Passing
  <2>4. CommitNeeds(q) = {}
    BY <2>3 DEF CommitNeeds
  <2> QED
    BY <2>1, <2>3, <2>4, NeedsAt
<1>4. req[q].held = UserLock(u, "K")
  BY <1>3 DEF AccountsInv, RequestInv, Locking, ModestInv, Modest
<1>5. PICK r \in C : q \in WaitsFor(r)
  BY <1>1, <1>2
<1>6. <<<<"user", u>>, "X">> \in Needs(r)
  <2>1. PICK row, m, n : <<row, m>> \in Needs(r) /\ <<row, n>> \in req[q].held /\ Conflict(m, n)
    BY <1>0, <1>1, <1>5, WaitingMeans
  <2>2. row = <<"user", u>> /\ n = "K"
    BY <1>4, <2>1 DEF UserLock
  <2> QED
    BY <2>1, <2>2 DEF Conflict
<1>7. req[r].pc = "user" /\ req[r].user = u /\ req[r].op = "reset"
  <2>1. req[r].pc \in {"user", "target"} /\ req[r].user = u
    BY <1>1, <1>6, NeedsAccount
  <2>2. req[r].pc # "target"
    BY <1>2 DEF ModestInv, Modest, EmptyHanded
  <2> QED
    BY <2>1, <2>2 DEF AccountsInv, RequestInv, Placed, Passing
<1>8. /\ req[r].held \subseteq TokenLocks({req[r].row}, "X")
      /\ Outstanding(req[r].row) /\ tok[req[r].row].user = u
  BY <1>1, <1>7 DEF ModestInv, Modest, AccountsInv, RequestInv, Current, ResetHasToken
<1>9. PICK s \in C : r \in WaitsFor(s)
  BY <1>2
<1>10. PICK m : <<<<"tok", req[r].row>>, m>> \in Needs(s)
  <2>1. PICK row, m, n : <<row, m>> \in Needs(s) /\ <<row, n>> \in req[r].held /\ Conflict(m, n)
    BY <1>0, <1>1, <1>9, WaitingMeans
  <2>2. row = <<"tok", req[r].row>>
    BY <1>8, <2>1 DEF TokenLocks
  <2> QED
    BY <2>1, <2>2
<1>11. s \in Requests /\ RequestInv(req[s]) /\ Modest(req[s]) /\ ~EmptyHanded(req[s])
  BY <1>1, <1>2 DEF AccountsInv, ModestInv, Modest
<1>12. \/ req[s].op = "reset" /\ req[s].pc = "spending" /\ req[r].row \in req[s].snap
       \/ req[s].op = "delete" /\ req[s].pc = "commit" /\ tok[req[r].row].user = req[s].user
  BY <1>10, <1>11, NeedsToken DEF EmptyHanded, RequestInv, Placed, Passing, TokensOf
<1>13. req[s].user = u
  BY <1>8, <1>11, <1>12 DEF Modest, Outstanding
<1>14. <<<<"user", u>>, "X">> \in req[s].held
  BY <1>11, <1>12, <1>13 DEF RequestInv, Locking, ResetHasUser, DeleteHasUser, Passing, UserLock
<1>15. <<<<"user", u>>, "K">> \in req[q].held /\ s # q
  BY <1>3, <1>4, <1>12 DEF UserLock
<1> QED
  BY <1>11, <1>14, <1>15, Exclusive DEF Holds, Conflict, AccountsInv

(* auth.py:126-231 beside password_reset.py:169-239 and deletion.py:110-174:  *)
(* a login, a refresh or a logout never loses a deadlock, for any number of   *)
(* requests that wait for each other in any way.                              *)
THEOREM SessionRequestsAreNeverVictims == Spec => []SessionRequestsNeverDeadlock
<1>1. Init => ModestInv
  <2>1. IdleRequest.held = {} /\ IdleRequest.pc = "idle"
    BY DEF IdleRequest
  <2> QED
    BY <2>1 DEF Init, ModestInv, Modest
<1>2. AccountsInv /\ ModestInv /\ [Next]_vars => ModestInv'
  BY NextModest
<1>3. AccountsInv /\ ModestInv => SessionRequestsNeverDeadlock
  BY NoCycle DEF SessionRequestsNeverDeadlock
<1> QED
  BY <1>1, <1>2, <1>3, AccountsInvariant, PTL DEF Spec
=============================================================================

----------------------------- MODULE Accounts -----------------------------
(* Accounts, refresh sessions and reset tokens (services/auth.py,             *)
(* services/password_reset.py, admin/service.py, admin/deletion.py): the      *)
(* requests of users and administrators as PostgreSQL transactions at         *)
(* READ COMMITTED, statement by statement.                                    *)
(*                                                                            *)
(* A row is read from the last commit. A write takes a row lock that is held  *)
(* to the end of the transaction: "X" SELECT ... FOR UPDATE or DELETE, "N"    *)
(* UPDATE, "K" the referenced row of an inserted foreign key. "K" conflicts   *)
(* with "X" only. An UPDATE ... WHERE first takes its snapshot of the         *)
(* matching rows and then waits for each of them. A cycle of waiting          *)
(* transactions loses one of them.                                            *)
EXTENDS Naturals, FiniteSets

CONSTANTS
  Users,       \* the accounts, by e-mail address
  Admins,      \* the administrators at the start
  Newcomers,   \* the addresses without an account at the start
  Clients,     \* the accounts that log in and change their password
  Owner,       \* the account that has a session and reset tokens at the start
  Requests,    \* the requests, in the order of arrival
  MaxOpen,     \* bound on the requests open at one time
  Menu,        \* the operations each request may ask for
  Changes,     \* the <<role, status>> an administrator may ask for
  MaxActive,   \* password_reset_max_active_tokens
  MaxSessions, \* bound on session rows
  MaxTokens,   \* bound on reset-token rows
  None

Operations == {"login", "register", "refresh", "logout", "forgot", "reset", "setpw",
               "update", "revoke", "delete"}

ASSUME AccountConstants ==
  /\ Admins \cup Newcomers \cup Clients \cup {Owner} \subseteq Users
  /\ Newcomers \cap (Admins \cup {Owner}) = {}
  /\ Admins # {}
  /\ IsFiniteSet(Users) /\ Requests \subseteq Nat
  /\ {MaxSessions, MaxTokens} \subseteq Nat \ {0, 1}
  /\ {MaxActive, MaxOpen} \subseteq Nat \ {0}
  /\ Menu \in [Requests -> SUBSET Operations]
  /\ Changes \subseteq ({"user", "admin", None} \X {"active", "disabled", None}) \ {<<None, None>>}
  /\ None \notin Users

VARIABLES
  user,  \* the users' rows
  sess,  \* the refresh_sessions rows
  tok,   \* the password_reset_tokens rows
  req    \* the requests: place in the code, loaded values, locks

vars == <<user, sess, tok, req>>

SessionIds == 1..MaxSessions
TokenIds == 1..MaxTokens
Rows == ({"user"} \X Users) \cup ({"sess"} \X SessionIds) \cup ({"tok"} \X TokenIds)

(* "pw" counts password changes and so names the current password; "resets"   *)
(* counts those made with a reset link, and "at" of a session or token is     *)
(* that count when its row was committed: both are seen by properties only,   *)
(* as is "parent", the session whose token was exchanged for this one.        *)
User == [status: {"none", "active", "disabled", "deleted"}, role: {"user", "admin"},
         pw: Nat, resets: Nat]
Session == [user: Users \cup {None}, family: SessionIds \cup {0}, revoked: BOOLEAN,
            expired: BOOLEAN, parent: SessionIds \cup {0}, at: Nat]
Token == [user: Users \cup {None}, used: BOOLEAN, revoked: BOOLEAN, expired: BOOLEAN, at: Nat]

(* "snap" are the rows an UPDATE ... WHERE matched, "dead" and "spent" the    *)
(* sessions and tokens the open transaction has revoked, "role" and "status"  *)
(* the loaded object of an administrator's target, "dirty" its changed        *)
(* columns. "changed" is an answered request that changed a role or a status.   *)
Request == [op: Operations \cup {"none"},
            pc: {"idle", "issue", "end", "rotate", "rotated", "excess", "insert", "send",
                 "token", "user", "others", "spending", "revoke", "revoking", "role",
                 "writeRole", "auditRole", "checkStatus", "writeStatus", "auditStatus",
                 "target", "guard", "audit", "commit", "answered", "changed"},
            user: Users \cup {None}, actor: Users \cup {None}, row: Nat,
            held: SUBSET (Rows \X {"X", "N", "K"}), snap: SUBSET Nat,
            dead: SUBSET SessionIds, spent: SUBSET TokenIds,
            role: {"user", "admin"}, status: {"none", "active", "disabled", "deleted"}, dirty: SUBSET {"role", "status"},
            toRole: {"user", "admin", None}, toStatus: {"active", "disabled", None}]

----------------------------------------------------------------------------
NoSession == [user |-> None, family |-> 0, revoked |-> FALSE, expired |-> FALSE,
              parent |-> 0, at |-> 0]
NoToken == [user |-> None, used |-> FALSE, revoked |-> FALSE, expired |-> FALSE, at |-> 0]
IdleRequest == [op |-> "none", pc |-> "idle", user |-> None, actor |-> None, row |-> 0,
                held |-> {}, snap |-> {}, dead |-> {}, spent |-> {},
                role |-> "user", status |-> "none", dirty |-> {},
                toRole |-> None, toStatus |-> None]

(* One session and two reset tokens of Owner, the older ones perhaps expired. *)
Init ==
  /\ user = [u \in Users |->
       [status |-> IF u \in Newcomers THEN "none" ELSE "active",
        role |-> IF u \in Admins THEN "admin" ELSE "user", pw |-> 0, resets |-> 0]]
  /\ \E e \in BOOLEAN :
       /\ sess = [s \in SessionIds |-> IF s = 1
            THEN [NoSession EXCEPT !.user = Owner, !.family = 1, !.expired = e]
            ELSE NoSession]
       /\ tok = [t \in TokenIds |-> IF t \in {1, 2}
            THEN [NoToken EXCEPT !.user = Owner, !.expired = e /\ t = 1] ELSE NoToken]
  /\ req = [q \in Requests |-> IdleRequest]

Exists(u) == user[u].status \in {"active", "disabled"}
Active(u) == user[u].status = "active"
ActiveAdmins == {u \in Users : Active(u) /\ user[u].role = "admin"}
Live(s) == sess[s].user # None /\ ~sess[s].revoked
SessionsOf(u) == {s \in SessionIds : sess[s].user = u}
TokensOf(u) == {t \in TokenIds : tok[t].user = u}
Outstanding(t) == tok[t].user # None /\ ~tok[t].used /\ ~tok[t].revoked

----------------------------------------------------------------------------
(* Row locks.                                                                 *)
Conflict(m, n) == m = "X" \/ n = "X" \/ (m = "N" /\ n = "N")
(* Mutant: SELECT users without FOR UPDATE.                                   *)
UnlockedUser(u, m) == IF m = "X" THEN {} ELSE {<<<<"user", u>>, m>>}

UserLock(u, m) == {<<<<"user", u>>, m>>}
SessionLocks(S) == {<<<<"sess", s>>, "N">> : s \in S}
TokenLocks(S, m) == {<<<<"tok", t>>, m>> : t \in S}

(* A rotation inserts the new session, then updates the exchanged one.        *)
(* Mutant: the other way round.                                               *)
RotationSwapped(q) == IF req[q].pc = "rotate" THEN SessionLocks({req[q].row})
                                              ELSE UserLock(req[q].user, "K")
RotationNeeds(q) == IF req[q].pc = "rotate" THEN UserLock(req[q].user, "K")
                                            ELSE SessionLocks({req[q].row})

(* The audit event of a revocation or a deletion refers to actor and target.  *)
(* Mutant: its actor_user_id is not a foreign key.                            *)
AuditTargetOnly(q) == UserLock(req[q].user, "K")
AuditNeeds(q) == UserLock(req[q].actor, "K") \cup UserLock(req[q].user, "K")

(* A request commits what it wrote: the lock its flush still has to take.     *)
CommitNeeds(q) ==
  CASE req[q].op \in {"setpw", "update"} -> UserLock(req[q].user, "N")
    [] req[q].op = "delete" -> SessionLocks(SessionsOf(req[q].user))
                                 \cup TokenLocks(TokensOf(req[q].user), "N")
    [] OTHER -> {}

(* The locks the next statement of a request asks for.                        *)
Needs(q) ==
  LET r == req[q] IN
  CASE r.pc \in {"issue", "writeRole", "writeStatus"} -> UserLock(r.user, "N")
    [] r.pc = "end" -> SessionLocks({r.row})
    [] r.pc \in {"rotate", "rotated"} -> RotationNeeds(q)
    [] r.pc = "insert" -> UserLock(r.user, "K")
    [] r.pc \in {"excess", "spending"} -> TokenLocks(r.snap, "N")
    [] r.pc = "token" -> TokenLocks({r.row}, "X")
    [] r.pc \in {"user", "target"} -> UserLock(r.user, "X")
    [] r.pc = "revoking" -> SessionLocks(r.snap)
    [] r.pc \in {"auditRole", "auditStatus"} -> UserLock(r.actor, "K")
    [] r.pc = "audit" -> AuditNeeds(q)
    [] r.pc = "commit" -> CommitNeeds(q)
    [] OTHER -> {}

WaitsFor(q) == {p \in Requests \ {q} :
  \E n \in Needs(q), h \in req[p].held : n[1] = h[1] /\ Conflict(n[2], h[2])}

(* A transaction waits for itself when it is one of several that are tied     *)
(* together: some of them always wait for one of the rest.                    *)
Tied(C) == \A D \in SUBSET C : D \notin {{}, C} => \E p \in D : WaitsFor(p) \cap (C \ D) # {}
InCycle(q) == WaitsFor(q) # {} /\ \E C \in SUBSET Requests : q \in C /\ C # {q} /\ Tied(C)

At(q, pc) == req[q].pc = pc /\ WaitsFor(q) = {}
Holding(q) == req[q].held \cup Needs(q)
Open(q) == req[q].pc \notin {"idle", "answered", "changed"}
Serves(q, op) ==
  /\ req[q].pc = "idle" /\ op \in Menu[q]
  /\ \A p \in Requests : p < q => req[p].pc # "idle"
  /\ Cardinality({p \in Requests : Open(p)}) < MaxOpen
Begin(q, r) == req' = [req EXCEPT ![q] = r]
Goto(q, pc) == req' = [req EXCEPT ![q].pc = pc, ![q].held = Holding(q)]
End(q, outcome) ==
  req' = [req EXCEPT ![q] = [IdleRequest EXCEPT !.pc = outcome]]

(* The request's transaction is rolled back (an error response), or it only   *)
(* read.                                                                      *)
Refuse(q) == End(q, "answered") /\ UNCHANGED <<user, sess, tok>>

(* A row that has never been used; the bounds stop inserts when there is none. *)
RoomForSession == \E s \in SessionIds : sess[s] = NoSession
RoomForToken == \E t \in TokenIds : tok[t] = NoToken
FreeSession == CHOOSE s \in SessionIds : sess[s] = NoSession
FreeToken == CHOOSE t \in TokenIds : tok[t] = NoToken

NewSession(u, family, parent) ==
  [user |-> u, family |-> family, revoked |-> FALSE, expired |-> FALSE,
   parent |-> parent, at |-> user[u].resets]

----------------------------------------------------------------------------
(* services/auth.py                                                           *)
(* The e-mail of an existing account is refused; that of a deleted account is *)
(* free again and makes a row of its own, another u.                          *)
Register(q, u) ==
  /\ Serves(q, "register") /\ RoomForSession
  /\ user[u].status # "deleted"
  /\ IF user[u].status = "none"
     THEN /\ user' = [user EXCEPT ![u].status = "active"]
          /\ sess' = [sess EXCEPT ![FreeSession] = NewSession(u, FreeSession, 0)]
          /\ End(q, "answered")
          /\ UNCHANGED tok
     ELSE Refuse(q)

(* Neither the password nor the status is read under a lock.                  *)
LoginRead(q, u, pw) ==
  /\ Serves(q, "login")
  /\ IF Active(u) /\ pw = user[u].pw
     THEN Begin(q, [IdleRequest EXCEPT !.op = "login", !.pc = "issue", !.user = u]) /\ UNCHANGED <<user, sess, tok>>
     ELSE Refuse(q)

LoginCommit(q) ==
  /\ At(q, "issue") /\ RoomForSession
  /\ IF Exists(req[q].user)
     THEN /\ sess' = [sess EXCEPT ![FreeSession] = NewSession(req[q].user, FreeSession, 0)]
          /\ End(q, "answered")
          /\ UNCHANGED <<user, tok>>
     ELSE Refuse(q)

(* A revoked token or an inactive user ends the whole family.                 *)
RefreshRead(q, s) ==
  /\ Serves(q, "refresh") /\ sess[s].user # None
  /\ Begin(q, [IdleRequest EXCEPT !.op = "refresh", !.user = sess[s].user, !.row = s,
       !.pc = IF sess[s].revoked THEN "revoke"
              ELSE IF sess[s].expired THEN "end"
              ELSE IF Active(sess[s].user) THEN "rotate" ELSE "revoke"])
  /\ UNCHANGED <<user, sess, tok>>

RotateInsert(q) ==
  /\ At(q, "rotate")
  /\ IF Exists(req[q].user) THEN Goto(q, "rotated") /\ UNCHANGED <<user, sess, tok>>
     ELSE Refuse(q)

(* Mutant: the exchanged session stays. *)
RotateKeepingOld(q) ==
  /\ At(q, "rotated") /\ RoomForSession
  /\ LET s == req[q].row IN
     sess' = [sess EXCEPT ![FreeSession] = NewSession(req[q].user, sess[s].family, s)]
  /\ End(q, "answered")
  /\ UNCHANGED <<user, tok>>

RotateCommit(q) ==
  /\ At(q, "rotated") /\ RoomForSession
  /\ LET s == req[q].row IN
     sess' = [sess EXCEPT ![s].revoked = TRUE,
                          ![FreeSession] = NewSession(req[q].user, sess[s].family, s)]
  /\ End(q, "answered")
  /\ UNCHANGED <<user, tok>>

LogoutRead(q, s) ==
  /\ Serves(q, "logout") /\ sess[s].user # None
  /\ IF Live(s)
     THEN Begin(q, [IdleRequest EXCEPT !.op = "logout", !.pc = "end", !.user = sess[s].user, !.row = s])
          /\ UNCHANGED <<user, sess, tok>>
     ELSE Refuse(q)

(* A logout, or a refresh of an expired session.                              *)
EndSession(q) ==
  /\ At(q, "end")
  /\ IF sess[req[q].row].user # None
     THEN /\ sess' = [sess EXCEPT ![req[q].row].revoked = TRUE]
          /\ End(q, "answered")
          /\ UNCHANGED <<user, tok>>
     ELSE Refuse(q)

(* The UPDATE that revokes a family, or every session of a user. It locks its *)
(* rows one after the other, here at once: two of these UPDATEs scan the      *)
(* table in the same order, so each waits for the other at their first common *)
(* row or not at all.                                                         *)
Matching(q) == {s \in SessionIds : Live(s) /\
  IF req[q].op = "refresh" THEN sess[s].family = sess[req[q].row].family
                           ELSE sess[s].user = req[q].user}

RevokeSnapshot(q) ==
  /\ At(q, "revoke")
  /\ req' = [req EXCEPT ![q].snap = Matching(q), ![q].pc = "revoking"]
  /\ UNCHANGED <<user, sess, tok>>

RevokeSessions(q) ==
  /\ At(q, "revoking")
  /\ req' = [req EXCEPT ![q].dead = {s \in req[q].snap : Live(s)}, ![q].snap = {},
                        ![q].held = Holding(q),
                        ![q].pc = IF req[q].op \in {"revoke", "delete"} THEN "audit" ELSE "commit"]
  /\ UNCHANGED <<user, sess, tok>>

----------------------------------------------------------------------------
(* services/password_reset.py                                                 *)
(* The request may fall into the cooldown. The oldest tokens above the limit  *)
(* are revoked; both are read without a lock.                                 *)
Excess(u) == LET active == {t \in TokensOf(u) : Outstanding(t) /\ ~tok[t].expired}
             IN {t \in active : Cardinality({p \in active : p < t}) + MaxActive
                                  <= Cardinality(active)}

ForgotRead(q, u) ==
  /\ Serves(q, "forgot")
  /\ \/ Refuse(q)
     \/ /\ Active(u)
        /\ Begin(q, [IdleRequest EXCEPT !.op = "forgot", !.pc = "excess", !.user = u,
                                        !.snap = Excess(u), !.spent = Excess(u)])
        /\ UNCHANGED <<user, sess, tok>>

ForgotRevoke(q) ==
  /\ At(q, "excess")
  /\ IF Exists(req[q].user) THEN Goto(q, "insert") /\ UNCHANGED <<user, sess, tok>>
     ELSE Refuse(q)

ForgotInsert(q) ==
  /\ At(q, "insert")
  /\ IF Exists(req[q].user) THEN Goto(q, "send") /\ UNCHANGED <<user, sess, tok>>
     ELSE Refuse(q)

SpendTokens(q) == [t \in TokenIds |-> IF t \in req[q].spent THEN [tok[t] EXCEPT !.revoked = TRUE]
                                                             ELSE tok[t]]

(* The link is sent before the commit; a failure to send it rolls back.       *)
ForgotSend(q) ==
  /\ At(q, "send")
  /\ \/ Refuse(q)
     \/ /\ RoomForToken
        /\ tok' = [SpendTokens(q) EXCEPT ![FreeToken] =
             [NoToken EXCEPT !.user = req[q].user, !.at = user[req[q].user].resets]]
        /\ End(q, "answered")
        /\ UNCHANGED <<user, sess>>

ResetStart(q, t) ==
  /\ Serves(q, "reset") /\ tok[t].user # None
  /\ Begin(q, [IdleRequest EXCEPT !.op = "reset", !.pc = "token", !.row = t, !.user = tok[t].user])
  /\ UNCHANGED <<user, sess, tok>>

LockToken(q) ==
  /\ At(q, "token")
  /\ IF Outstanding(req[q].row) /\ ~tok[req[q].row].expired
     THEN Goto(q, "user") /\ UNCHANGED <<user, sess, tok>>
     ELSE Refuse(q)

LockUser(q) ==
  /\ At(q, "user")
  /\ IF Active(req[q].user) THEN Goto(q, "others") /\ UNCHANGED <<user, sess, tok>>
     ELSE Refuse(q)

(* The command-line password change (cli/reset_password.py) does not lock.    *)
SetPasswordRead(q, u) ==
  /\ Serves(q, "setpw")
  /\ Exists(u)
  /\ Begin(q, [IdleRequest EXCEPT !.op = "setpw", !.pc = "others", !.user = u])
  /\ UNCHANGED <<user, sess, tok>>

OthersSnapshot(q) ==
  /\ At(q, "others")
  /\ req' = [req EXCEPT ![q].pc = "spending",
       ![q].snap = {t \in TokensOf(req[q].user) : Outstanding(t) /\ t # req[q].row}]
  /\ UNCHANGED <<user, sess, tok>>

RevokeTokens(q) ==
  /\ At(q, "spending")
  /\ req' = [req EXCEPT ![q].spent = {t \in req[q].snap : Outstanding(t)}, ![q].snap = {},
                        ![q].held = Holding(q), ![q].pc = "revoke"]
  /\ UNCHANGED <<user, sess, tok>>

KillSessions(q) == [s \in SessionIds |-> IF s \in req[q].dead THEN [sess[s] EXCEPT !.revoked = TRUE]
                                                              ELSE sess[s]]

(* A family or all sessions of a user revoked: nothing else to write.         *)
RevokeCommit(q) ==
  /\ At(q, "commit") /\ req[q].op \in {"refresh", "revoke"}
  /\ sess' = KillSessions(q)
  /\ End(q, "answered")
  /\ UNCHANGED <<user, tok>>

ResetCommit(q) ==
  /\ At(q, "commit") /\ req[q].op = "reset"
  /\ user' = [user EXCEPT ![req[q].user].pw = @ + 1, ![req[q].user].resets = @ + 1]
  /\ tok' = [SpendTokens(q) EXCEPT ![req[q].row].used = TRUE]
  /\ sess' = KillSessions(q)
  /\ End(q, "answered")

SetPasswordCommit(q) ==
  /\ At(q, "commit") /\ req[q].op = "setpw"
  /\ IF Exists(req[q].user)
     THEN /\ user' = [user EXCEPT ![req[q].user].pw = @ + 1]
          /\ tok' = SpendTokens(q)
          /\ sess' = KillSessions(q)
          /\ End(q, "answered")
     ELSE Refuse(q)

----------------------------------------------------------------------------
(* admin/service.py, admin/deletion.py: the actor is an active administrator  *)
(* when the request arrives (api/deps.py), the target is read unlocked.       *)
UpdateRead(q, actor, u, toRole, toStatus) ==
  /\ Serves(q, "update") /\ actor \in ActiveAdmins
  /\ Exists(u)
  /\ Begin(q, [IdleRequest EXCEPT !.op = "update", !.pc = "role", !.actor = actor, !.user = u,
               !.role = user[u].role, !.status = user[u].status,
               !.toRole = toRole, !.toStatus = toStatus])
  /\ UNCHANGED <<user, sess, tok>>

(* count_active_admins: the committed rows and this transaction's own write.  *)
CountedAdmins(q) == Cardinality({u \in Users :
  IF u = req[q].user /\ "role" \in req[q].dirty THEN Active(u) /\ req[q].role = "admin"
                                                ELSE u \in ActiveAdmins})
IsActiveAdmin(q) == req[q].role = "admin" /\ req[q].status = "active"

CheckRole(q) ==
  /\ At(q, "role")
  /\ LET r == req[q] IN
     IF r.toRole \in {None, r.role}
     THEN Goto(q, "checkStatus") /\ UNCHANGED <<user, sess, tok>>
     ELSE IF IsActiveAdmin(q) /\ CountedAdmins(q) <= 1
     THEN Refuse(q)
     ELSE /\ req' = [req EXCEPT ![q].pc = "writeRole", ![q].role = r.toRole, ![q].dirty = {"role"}]
          /\ UNCHANGED <<user, sess, tok>>

CheckStatus(q) ==
  /\ At(q, "checkStatus")
  /\ LET r == req[q] IN
     IF r.toStatus \in {None, r.status}
     THEN Goto(q, "commit") /\ UNCHANGED <<user, sess, tok>>
     ELSE IF IsActiveAdmin(q) /\ r.toStatus = "disabled" /\ CountedAdmins(q) <= 1
     THEN Refuse(q)
     ELSE /\ req' = [req EXCEPT ![q].pc = "writeStatus", ![q].status = r.toStatus,
                                ![q].dirty = @ \cup {"status"}]
          /\ UNCHANGED <<user, sess, tok>>

(* The flush of an audit event: UPDATE users, then the event, which refers    *)
(* to the actor.                                                              *)
FlushUser(q) ==
  /\ req[q].pc \in {"writeRole", "writeStatus"} /\ WaitsFor(q) = {}
  /\ IF Exists(req[q].user)
     THEN Goto(q, IF req[q].pc = "writeRole" THEN "auditRole" ELSE "auditStatus")
          /\ UNCHANGED <<user, sess, tok>>
     ELSE Refuse(q)

FlushAudit(q) ==
  /\ req[q].pc \in {"auditRole", "auditStatus"} /\ WaitsFor(q) = {}
  /\ IF Exists(req[q].actor)
     THEN Goto(q, CASE req[q].pc = "auditRole" -> "checkStatus"
                    [] req[q].pc = "auditStatus" /\ req[q].status = "disabled" -> "revoke"
                    [] OTHER -> "commit")
          /\ UNCHANGED <<user, sess, tok>>
     ELSE Refuse(q)

UpdateCommit(q) ==
  /\ At(q, "commit") /\ req[q].op = "update"
  /\ IF Exists(req[q].user)
     THEN /\ user' = [user EXCEPT
               ![req[q].user].role = IF "role" \in req[q].dirty THEN req[q].role ELSE @,
               ![req[q].user].status = IF "status" \in req[q].dirty THEN req[q].status ELSE @]
          /\ sess' = KillSessions(q)
          /\ End(q, "changed")
          /\ UNCHANGED tok
     ELSE Refuse(q)

RevokeAllRead(q, actor, u) ==
  /\ Serves(q, "revoke") /\ actor \in ActiveAdmins
  /\ Exists(u)
  /\ Begin(q, [IdleRequest EXCEPT !.op = "revoke", !.pc = "revoke", !.actor = actor, !.user = u])
  /\ UNCHANGED <<user, sess, tok>>

DeleteStart(q, actor, u) ==
  /\ Serves(q, "delete") /\ actor \in ActiveAdmins
  /\ Begin(q, [IdleRequest EXCEPT !.op = "delete", !.pc = "target", !.actor = actor, !.user = u])
  /\ UNCHANGED <<user, sess, tok>>

LockTarget(q) ==
  /\ At(q, "target")
  /\ IF Exists(req[q].user) THEN Goto(q, "guard") /\ UNCHANGED <<user, sess, tok>>
     ELSE Refuse(q)

(* _deletion_guards                                                           *)
DeleteGuard(q) ==
  /\ At(q, "guard")
  /\ IF req[q].actor = req[q].user
        \/ (req[q].user \in ActiveAdmins /\ Cardinality(ActiveAdmins) <= 1)
     THEN Refuse(q)
     ELSE Goto(q, "revoke") /\ UNCHANGED <<user, sess, tok>>

AuditTarget(q) ==
  /\ At(q, "audit")
  /\ IF Exists(req[q].actor) /\ Exists(req[q].user)
     THEN Goto(q, "commit") /\ UNCHANGED <<user, sess, tok>>
     ELSE Refuse(q)

DeleteCommit(q) ==
  /\ At(q, "commit") /\ req[q].op = "delete"
  /\ user' = [user EXCEPT ![req[q].user].status = "deleted"]
  /\ sess' = [s \in SessionIds |-> IF s \in SessionsOf(req[q].user)
                THEN [NoSession EXCEPT !.family = sess[s].family] ELSE sess[s]]
  /\ tok' = [t \in TokenIds |-> IF t \in TokensOf(req[q].user)
                THEN [NoToken EXCEPT !.revoked = TRUE] ELSE tok[t]]
  /\ End(q, "answered")

(* PostgreSQL ends a deadlock by aborting one of the transactions.            *)
DeadlockVictim(q) == InCycle(q) /\ Refuse(q)

----------------------------------------------------------------------------
Serve(q) ==
  \/ LoginCommit(q) \/ RotateInsert(q) \/ RotateCommit(q) \/ EndSession(q)
  \/ RevokeSnapshot(q) \/ RevokeSessions(q) \/ RevokeCommit(q)
  \/ ForgotRevoke(q) \/ ForgotInsert(q) \/ ForgotSend(q)
  \/ LockToken(q) \/ LockUser(q) \/ OthersSnapshot(q) \/ RevokeTokens(q)
  \/ ResetCommit(q) \/ SetPasswordCommit(q)
  \/ CheckRole(q) \/ CheckStatus(q) \/ FlushUser(q) \/ FlushAudit(q) \/ UpdateCommit(q)
  \/ LockTarget(q) \/ DeleteGuard(q) \/ AuditTarget(q) \/ DeleteCommit(q)
  \/ DeadlockVictim(q)

Arrive(q) ==
  \/ \E u \in Newcomers : Register(q, u)
  \/ \E u \in Clients : ForgotRead(q, u) \/ SetPasswordRead(q, u)
  \/ \E u \in Clients, pw \in {0, 1} : LoginRead(q, u, pw)
  \/ \E s \in SessionIds : RefreshRead(q, s) \/ LogoutRead(q, s)
  \/ \E t \in TokenIds : ResetStart(q, t)
  \/ \E a \in ActiveAdmins, u \in Users :
       \/ RevokeAllRead(q, a, u) \/ DeleteStart(q, a, u)
       \/ \E c \in Changes : UpdateRead(q, a, u, c[1], c[2])

Next == \E q \in Requests : Arrive(q) \/ Serve(q)

Spec == Init /\ [][Next]_vars

----------------------------------------------------------------------------
(* Every variable keeps its type.                                             *)
TypeOK ==
  /\ user \in [Users -> User]
  /\ sess \in [SessionIds -> Session]
  /\ tok \in [TokenIds -> Token]
  /\ req \in [Requests -> Request]

(* password_reset.py:195-237: once a reset link has changed the password, no  *)
(* session and no reset token that was committed before it is usable, though  *)
(* logins, refreshes and requests for links read the account unlocked: their  *)
(* rows refer to the user row, which the reset has locked.                    *)
ResetEndsTheOld ==
  /\ TypeOK
  /\ \A s \in SessionIds : Live(s) => sess[s].at = user[sess[s].user].resets
  /\ \A t \in TokenIds : Outstanding(t) => tok[t].at = user[tok[t].user].resets

(* password_reset.py:201-229, auth.py:172-189: a token is spent once. A reset *)
(* token changes the password once, however many requests present it          *)
(* together; a family of refresh tokens holds two live sessions only if two   *)
(* overlapping refreshes exchanged the same token.                            *)
TokensSpentOnce ==
  /\ \A u \in Users : Exists(u) =>
       user[u].resets = Cardinality({t \in TokensOf(u) : tok[t].used})
  /\ \A s, t \in SessionIds :
       Live(s) /\ Live(t) /\ s # t /\ sess[s].family = sess[t].family
         => \E p, q \in SessionIds : p # q /\ sess[p].user # None /\ sess[q].user # None
              /\ sess[p].parent # 0 /\ sess[p].parent = sess[q].parent

(* deletion.py:110-174: administrators who delete each other at the same time *)
(* always leave an active one, although each counts the others unlocked: the  *)
(* audit event refers to the actor.                                           *)
DeletionsKeepAnAdmin ==
  (\A q \in Requests : req[q].pc # "changed") => ActiveAdmins # {}

(* A login, a refresh or a logout is never the victim of a deadlock with a    *)
(* reset, an administrator's change or a deletion of the same account.        *)
SessionRequestsNeverDeadlock == \A q \in Requests :
  req[q].op \in {"login", "refresh", "logout"} => ~InCycle(q)

(* admin/exceptions.py:41: the last active administrator account cannot be    *)
(* removed or disabled.                                                       *)
LastAdminStays == ActiveAdmins # {}

----------------------------------------------------------------------------
(* The inductive invariant.                                                   *)

(* The statements of each operation.                                          *)
Passing == {"revoke", "revoking", "commit"}
Placed(r) ==
  \/ r.op = "none" /\ r.pc \in {"idle", "answered", "changed"}
  \/ r.op = "login" /\ r.pc = "issue"
  \/ r.op = "refresh" /\ r.pc \in {"end", "rotate", "rotated"} \cup Passing
  \/ r.op = "logout" /\ r.pc = "end"
  \/ r.op = "forgot" /\ r.pc \in {"excess", "insert", "send"}
  \/ r.op = "reset" /\ r.pc \in {"token", "user", "others", "spending"} \cup Passing
  \/ r.op = "setpw" /\ r.pc \in {"others", "spending"} \cup Passing
  \/ r.op = "update" /\ r.pc \in {"role", "writeRole", "auditRole", "checkStatus", "writeStatus",
                                  "auditStatus"} \cup Passing
  \/ r.op = "revoke" /\ r.pc \in {"audit"} \cup Passing
  \/ r.op = "delete" /\ r.pc \in {"target", "guard", "audit"} \cup Passing

(* What it works on.                                                          *)
Bound(r) ==
  /\ r.op # "none" => r.user \in Users
  /\ r.op \in {"update", "revoke", "delete"} => r.actor \in Users
  /\ r.op \in {"refresh", "logout"} => r.row \in SessionIds
  /\ r.op = "reset" => r.row \in TokenIds
  /\ r.pc \in {"excess", "spending"} => r.snap \subseteq TokenIds
  /\ r.pc = "excess" => r.spent = r.snap
  /\ r.pc = "revoking" => r.snap \subseteq SessionIds
  /\ "status" \in r.dirty => r.status \in {"active", "disabled"}
  /\ r.op = "delete" /\ r.pc \in {"audit"} \cup Passing => r.actor # r.user

(* The locks that the later statements of a request rely on.                  *)
ResetHasToken(r) == r.op = "reset" /\ r.pc \in {"user", "others", "spending"} \cup Passing
ResetHasUser(r) == r.op = "reset" /\ r.pc \in {"others", "spending"} \cup Passing
DeleteHasUser(r) == r.op = "delete" /\ r.pc \in {"guard", "audit"} \cup Passing
HasSpent(r) == \/ r.op = "forgot" /\ r.pc \in {"insert", "send"}
               \/ r.op \in {"reset", "setpw"} /\ r.pc \in Passing

Locking(r) ==
  /\ r.pc \in {"rotated", "send"} => UserLock(r.user, "K") \subseteq r.held
  /\ ResetHasUser(r) \/ DeleteHasUser(r) => UserLock(r.user, "X") \subseteq r.held
  /\ ResetHasToken(r) => TokenLocks({r.row}, "X") \subseteq r.held
  /\ HasSpent(r) => TokenLocks(r.spent, "N") \subseteq r.held
  /\ r.op = "delete" /\ r.pc = "commit" => UserLock(r.actor, "K") \subseteq r.held

(* Two transactions hold no conflicting locks.                                *)
LocksExclude ==
  \A p, q \in Requests : p # q =>
    \A h \in req[p].held, g \in req[q].held : h[1] = g[1] => ~Conflict(h[2], g[2])

(* What a request has read and relies on is still so.                         *)
Current(r) ==
  /\ r.op = "refresh" /\ r.pc = "rotate" =>
       sess[r.row].user = r.user \/ user[r.user].status = "deleted"
  /\ r.pc = "rotated" => Exists(r.user) /\ sess[r.row].user = r.user
  /\ r.op = "reset" /\ r.pc = "token" =>
       tok[r.row].user = r.user \/ (tok[r.row].user = None /\ tok[r.row].revoked)
  /\ ResetHasToken(r) => Outstanding(r.row) /\ tok[r.row].user = r.user
  /\ r.pc = "send" => Exists(r.user)
  /\ ResetHasUser(r) =>
       /\ Active(r.user)
       /\ r.pc = "spending" =>
            \A t \in TokensOf(r.user) : Outstanding(t) => t \in r.snap \cup {r.row}
       /\ r.pc \in Passing =>
            \A t \in TokensOf(r.user) : Outstanding(t) => t \in r.spent \cup {r.row}
       /\ r.pc = "revoking" => \A s \in SessionsOf(r.user) : Live(s) => s \in r.snap
       /\ r.pc = "commit" => \A s \in SessionsOf(r.user) : Live(s) => s \in r.dead
  /\ r.op = "delete" /\ r.pc = "commit" => Exists(r.actor)

RequestInv(r) == Placed(r) /\ Bound(r) /\ Locking(r) /\ Current(r)

(* A family of sessions: the first one, and those exchanged for another one   *)
(* of the family, which is then revoked.                                      *)
FamilyInv ==
  \A s \in SessionIds : sess[s].user # None =>
    LET f == sess[s].family
        p == sess[s].parent
    IN  /\ f \in SessionIds /\ sess[f].user = sess[s].user /\ sess[f].family = f
        /\ p = 0 <=> s = f
        /\ p # 0 => /\ sess[p].user = sess[s].user /\ sess[p].family = f
                    /\ sess[p].revoked

(* An account counts the reset tokens that were used until it is deleted; one *)
(* that is not there yet has neither sessions nor tokens.                     *)
UsedTokens(u) == {t \in TokensOf(u) : tok[t].used}
CountInv ==
  \A u \in Users : user[u].status # "deleted" => user[u].resets = Cardinality(UsedTokens(u))

(* As long as no administrator has changed an account, every one who acts is  *)
(* an active administrator or deleted, and one of them is active.             *)
AdminInv ==
  (\A q \in Requests : req[q].pc # "changed") =>
     /\ ActiveAdmins # {}
     /\ \A q \in Requests : req[q].op = "delete" =>
          req[q].actor \in ActiveAdmins \/ user[req[q].actor].status = "deleted"

AccountsInv ==
  /\ ResetEndsTheOld
  /\ LocksExclude
  /\ \A q \in Requests : RequestInv(req[q])
  /\ FamilyInv
  /\ CountInv
  /\ AdminInv

(* The inductive invariant of SessionRequestsNeverDeadlock. A request that    *)
(* waits with locks in its hands waits in a known place: the statements at    *)
(* which a request is ended, exchanged or snapshotted hold nothing yet, a     *)
(* rotation holds its account's row alone and a reset its own token's; and    *)
(* the tokens a reset waits for are those of its account.                     *)
EmptyHanded(r) ==
  \/ r.op \in {"login", "logout"}
  \/ r.op = "refresh" /\ r.pc \in {"end", "rotate", "revoke", "revoking"}
  \/ r.op = "setpw" /\ r.pc \in {"others", "spending"}
  \/ r.pc \in {"excess", "token", "target"}

Modest(r) ==
  /\ EmptyHanded(r) => r.held = {}
  /\ r.pc = "rotated" => r.held \subseteq UserLock(r.user, "K")
  /\ r.pc = "user" => r.held \subseteq TokenLocks({r.row}, "X")
  /\ r.op = "reset" /\ r.pc = "spending" =>
       \A t \in r.snap : tok[t].user = r.user \/ (tok[t].user = None /\ tok[t].revoked)

ModestInv == \A q \in Requests : Modest(req[q])
=============================================================================

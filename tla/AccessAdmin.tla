------------------------------ MODULE AccessAdmin ------------------------------
(***************************************************************************)
(* The API requests on users, tokens, shares and grants (internal/api,     *)
(* internal/auth, internal/token): each is a sequence of statements and    *)
(* transactions, with other requests in between.                           *)
(***************************************************************************)
EXTENDS AccessState

(* A handler takes a request of user me; 0 is nobody (bootstrap).          *)
Start(a, r) ==
    /\ calls < MaxCalls
    /\ req' = [req EXCEPT ![a] = r]
    /\ calls' = calls + 1
    /\ UNCHANGED <<tables, memory, sess, faults>>

(* It is answered, or goes on at pc.                                       *)
Answer(a)   == req' = [req EXCEPT ![a] = NoReq]
GoTo(a, pc) == req' = [req EXCEPT ![a].pc = pc]
Ask(a, ok, pc) ==
    /\ IF ok THEN GoTo(a, pc) ELSE Answer(a)
    /\ UNCHANGED <<tables, memory, sess, calls, faults>>
-----------------------------------------------------------------------------
(* Users.                                                                  *)
Bootstrap(a, n) ==
    Start(a, [NoReq EXCEPT !.op = "bootstrap", !.pc = "users", !.name = n, !.what = "admin"])

HasUsers_Never(a) == req[a].pc = "users" /\ Ask(a, TRUE, "name")   (* Mutant: anyone may bootstrap. *)
HasUsers(a) == req[a].pc = "users" /\ Ask(a, Users = {}, "name")

CreateUser(a, me, n, r) ==
    Start(a, [NoReq EXCEPT !.op = "user", !.pc = "name", !.me = me, !.name = n, !.what = r])

(* usernameTaken compares as it is written.                                *)
UsernameTaken(a) ==
    /\ req[a].pc = "name"
    /\ Ask(a, \A u \in Users : user[u].name # req[a].name, "insert user")

(* The unique index refuses a name that was taken meanwhile.               *)
InsertUser(a) ==
    /\ req[a].pc = "insert user"
    /\ IF \E u \in Users : user[u].name = req[a].name
       THEN UNCHANGED <<user, last>>
       ELSE /\ last.user < MaxUser
            /\ last' = [last EXCEPT !.user = last.user + 1]
            /\ user' = [user EXCEPT ![last.user + 1] = [name |-> req[a].name, role |-> req[a].what]]
    /\ Answer(a)
    /\ UNCHANGED <<token, share, grant, file, memory, sess, calls, faults>>

DeleteUser(a, me, u) ==
    /\ u # me
    /\ Start(a, [NoReq EXCEPT !.op = "drop user", !.pc = "drop user", !.me = me, !.user = u])

(* One transaction: the user, its grants and its tokens; a user that is    *)
(* gone is an error, and nothing changes.                                  *)
DropUser_KeepsGrants(a) ==          (* Mutant: grants of a deleted user stay. *)
    /\ req[a].pc = "drop user"
    /\ IF req[a].user \in Users
       THEN /\ user' = [user EXCEPT ![req[a].user] = Nil]
            /\ token' = [t \in TokenIds |-> IF token[t] = req[a].user THEN 0 ELSE token[t]]
       ELSE UNCHANGED <<user, token>>
    /\ Answer(a)
    /\ UNCHANGED <<grant, share, file, last, memory, sess, calls, faults>>
DropUser_KeepsTokens(a) ==          (* Mutant: tokens of a deleted user stay. *)
    /\ req[a].pc = "drop user"
    /\ IF req[a].user \in Users
       THEN /\ user' = [user EXCEPT ![req[a].user] = Nil]
            /\ grant' = [s \in ShareIds |-> [grant[s] EXCEPT ![req[a].user] = Nil]]
       ELSE UNCHANGED <<user, grant>>
    /\ Answer(a)
    /\ UNCHANGED <<token, share, file, last, memory, sess, calls, faults>>
DropUser(a) ==
    LET u == req[a].user IN
    /\ req[a].pc = "drop user"
    /\ IF u \in Users
       THEN /\ user' = [user EXCEPT ![u] = Nil]
            /\ grant' = [s \in ShareIds |-> [grant[s] EXCEPT ![u] = Nil]]
            /\ token' = [t \in TokenIds |-> IF token[t] = u THEN 0 ELSE token[t]]
       ELSE UNCHANGED <<user, grant, token>>
    /\ Answer(a)
    /\ UNCHANGED <<share, file, last, memory, sess, calls, faults>>

SetRole(a, me, u, r) ==
    Start(a, [NoReq EXCEPT !.op = "role", !.pc = "role", !.me = me, !.user = u, !.what = r])
UpdateUser(a) ==
    /\ req[a].pc = "role"
    /\ user' = IF req[a].user \in Users THEN [user EXCEPT ![req[a].user].role = req[a].what] ELSE user
    /\ Answer(a)
    /\ UNCHANGED <<token, share, grant, file, last, memory, sess, calls, faults>>
-----------------------------------------------------------------------------
(* Access tokens and public keys.                                          *)
CreateToken(a, u) == Start(a, [NoReq EXCEPT !.op = "token", !.pc = "owner", !.user = u])
RequireUser(a) == req[a].pc = "owner" /\ Ask(a, req[a].user \in Users, "insert token")
InsertToken(a) ==
    /\ req[a].pc = "insert token" /\ last.token < MaxToken
    /\ last' = [last EXCEPT !.token = last.token + 1]
    /\ token' = [token EXCEPT ![last.token + 1] = req[a].user]
    /\ Answer(a)
    /\ UNCHANGED <<user, share, grant, file, memory, sess, calls, faults>>

RevokeToken(a, t) ==
    Start(a, [NoReq EXCEPT !.op = "revoke token", !.pc = "revoke token", !.token = t])
DropToken(a) ==
    /\ req[a].pc = "revoke token"
    /\ token' = [token EXCEPT ![req[a].token] = 0]
    /\ Answer(a)
    /\ UNCHANGED <<user, share, grant, file, last, memory, sess, calls, faults>>
-----------------------------------------------------------------------------
(* Shares: the row, the grant of the creator, and for an encrypted share   *)
(* the password and the key, in statements of their own.  A share starts   *)
(* without compression; UpdateShare turns it on.                           *)
CreateShare(a, me, enc) ==
    Start(a, [NoReq EXCEPT !.op = "share", !.pc = "row", !.me = me, !.flag = enc])

InsertShare(a) ==
    LET s == last.share + 1 IN
    /\ req[a].pc = "row" /\ s \in ShareIds
    /\ last' = [last EXCEPT !.share = s]
    /\ share' = [share EXCEPT ![s] = [enc |-> req[a].flag, keyed |-> FALSE, comp |-> "none"]]
    /\ req' = [req EXCEPT ![a].pc = "own", ![a].share = s]
    /\ UNCHANGED <<user, token, grant, file, memory, sess, calls, faults>>

GrantCreator(a) ==
    /\ req[a].pc = "own"
    /\ grant' = [grant EXCEPT ![req[a].share][req[a].me] = "admin"]
    /\ IF req[a].flag THEN GoTo(a, "password") ELSE Answer(a)
    /\ UNCHANGED <<user, token, share, file, last, memory, sess, calls, faults>>

SetPassword(a) ==
    LET s == req[a].share IN
    /\ req[a].pc = "password"
    /\ share' = IF s \in Shares THEN [share EXCEPT ![s].keyed = TRUE] ELSE share
    /\ GoTo(a, "get")
    /\ UNCHANGED <<user, token, grant, file, last, memory, sess, calls, faults>>

(* It fails: the half share is taken back.                                 *)
SetPasswordFails(a) ==
    /\ req[a].pc = "password" /\ faults < MaxFaults
    /\ GoTo(a, "undo grants")
    /\ faults' = faults + 1
    /\ UNCHANGED <<tables, memory, sess, calls>>
UndoGrants(a) ==
    /\ req[a].pc = "undo grants"
    /\ grant' = [grant EXCEPT ![req[a].share] = [u \in UserIds |-> Nil]]
    /\ GoTo(a, "undo share")
    /\ UNCHANGED <<user, token, share, file, last, memory, sess, calls, faults>>
UndoShare_Not(a) ==                 (* Mutant: the row of a half share stays. *)
    /\ req[a].pc = "undo share"
    /\ Answer(a)
    /\ UNCHANGED <<tables, memory, sess, calls, faults>>
UndoShare(a) ==
    /\ req[a].pc = "undo share"
    /\ share' = [share EXCEPT ![req[a].share] = Nil]
    /\ Answer(a)
    /\ UNCHANGED <<user, token, grant, file, last, memory, sess, calls, faults>>
-----------------------------------------------------------------------------
(* The requests that name a share read its row first.                      *)
Grant(a, me, s, u, p) ==
    Start(a, [NoReq EXCEPT !.op = "grant", !.pc = "get", !.me = me, !.share = s, !.user = u, !.what = p])
UpdateShare(a, me, s, comp) ==
    Start(a, [NoReq EXCEPT !.op = "update", !.pc = "get", !.me = me, !.share = s, !.what = comp])
Unlock(a, me, s) == Start(a, [NoReq EXCEPT !.op = "unlock", !.pc = "get", !.me = me, !.share = s])
Lock(a, me, s)   == Start(a, [NoReq EXCEPT !.op = "lock", !.pc = "get", !.me = me, !.share = s])
DeleteShare(a, me, s, force) ==
    Start(a, [NoReq EXCEPT !.op = "delete", !.pc = "get", !.me = me, !.share = s, !.flag = force])

(* UnlockShare needs the row to be encrypted and to hold a check value.    *)
GetShare_Unchecked(a) ==            (* Mutant: unlocked without a check value. *)
    LET s == req[a].share IN
    /\ req[a].pc = "get"
    /\ CASE req[a].op = "grant"  -> Ask(a, s \in Shares, "get user")
         [] req[a].op = "update" -> Ask(a, s \in Shares, "set")
         [] req[a].op = "lock"   -> Ask(a, s \in Shares, "lock")
         [] req[a].op = "delete" -> Ask(a, s \in Shares, "count")
         [] OTHER                -> Ask(a, s \in Shares, "unlock")
GetShare(a) ==
    LET s == req[a].share IN
    /\ req[a].pc = "get"
    /\ CASE req[a].op = "grant"  -> Ask(a, s \in Shares, "get user")
         [] req[a].op = "update" -> Ask(a, s \in Shares, "set")
         [] req[a].op = "lock"   -> Ask(a, s \in Shares, "lock")
         [] req[a].op = "delete" -> Ask(a, s \in Shares, "count")
         [] OTHER                -> Ask(a, s \in Shares /\ share[s].keyed, "unlock")

GetUser(a) == req[a].pc = "get user" /\ Ask(a, req[a].user \in Users, "put grant")

(* One transaction: delete and insert.                                     *)
PutGrant(a) ==
    /\ req[a].pc = "put grant"
    /\ grant' = [grant EXCEPT ![req[a].share][req[a].user] = req[a].what]
    /\ Answer(a)
    /\ UNCHANGED <<user, token, share, file, last, memory, sess, calls, faults>>

Revoke(a, me, s, u) ==
    Start(a, [NoReq EXCEPT !.op = "revoke", !.pc = "revoke", !.me = me, !.share = s, !.user = u])
DropGrant(a) ==
    /\ req[a].pc = "revoke"
    /\ grant' = [grant EXCEPT ![req[a].share][req[a].user] = Nil]
    /\ Answer(a)
    /\ UNCHANGED <<user, token, share, file, last, memory, sess, calls, faults>>

SetShare(a) ==
    LET s == req[a].share IN
    /\ req[a].pc = "set"
    /\ share' = IF s \in Shares THEN [share EXCEPT ![s].comp = req[a].what] ELSE share
    /\ Answer(a)
    /\ UNCHANGED <<user, token, grant, file, last, memory, sess, calls, faults>>
-----------------------------------------------------------------------------
(* The keys in memory.  A client that seals holds the very bytes of the    *)
(* keyring: Set leaves them to it and stores a copy of its own, Delete     *)
(* overwrites them with zeros.                                             *)
Holds(c, s) == sess[c].share = s /\ sess[c].key = "ring"

KeySet(a) ==
    LET s == req[a].share IN
    /\ req[a].pc = "unlock"
    /\ keyring' = keyring \cup {s}
    /\ sess' = [c \in Clients |-> IF Holds(c, s) THEN [sess[c] EXCEPT !.key = "key"] ELSE sess[c]]
    /\ Answer(a)
    /\ UNCHANGED <<tables, mount, calls, faults>>

KeyDelete(a) ==
    LET s == req[a].share IN
    /\ req[a].pc = "lock"
    /\ keyring' = keyring \ {s}
    /\ sess' = [c \in Clients |-> IF Holds(c, s) THEN [sess[c] EXCEPT !.key = "zero"] ELSE sess[c]]
    /\ Answer(a)
    /\ UNCHANGED <<tables, mount, calls, faults>>
-----------------------------------------------------------------------------
(* Deletion: refused for a share with files unless forced; then its files  *)
(* in one transaction, its grants and its row in another, and its key.     *)
CountFiles(a) ==
    req[a].pc = "count" /\ Ask(a, file[req[a].share] = Nil \/ req[a].flag, "purge")

PurgeShare(a) ==
    /\ req[a].pc = "purge"
    /\ file' = [file EXCEPT ![req[a].share] = Nil]
    /\ GoTo(a, "meta")
    /\ UNCHANGED <<user, token, share, grant, last, memory, sess, calls, faults>>

DeleteShareMeta(a) ==
    /\ req[a].pc = "meta"
    /\ grant' = [grant EXCEPT ![req[a].share] = [u \in UserIds |-> Nil]]
    /\ share' = [share EXCEPT ![req[a].share] = Nil]
    /\ GoTo(a, "lock")
    /\ UNCHANGED <<user, token, file, last, memory, sess, calls, faults>>

(* A statement of the request fails, and it ends.                          *)
FailRequest(a) ==
    /\ req[a].pc \notin {"none", "unlock", "lock", "password", "undo grants", "undo share"}
    /\ faults < MaxFaults
    /\ Answer(a)
    /\ faults' = faults + 1
    /\ UNCHANGED <<tables, memory, sess, calls>>
=============================================================================

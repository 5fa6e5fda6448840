----------------------------- MODULE AccessSafety ------------------------------
(***************************************************************************)
(* The safety properties of Access, for every value of its constants, each *)
(* under the races it needs to be without and no more.                     *)
(***************************************************************************)
EXTENDS AccessProofs

(* Arrive fills in a request and changes nothing else.                     *)
LEMMA ArriveMoves ==
    ASSUME NEW a \in Handlers, Arrive(a)
    PROVE  /\ req[a].op = "none" /\ UNCHANGED <<tables, memory, sess, faults>>
           /\ \E x : req' = [req EXCEPT ![a] = x]
  BY DEF Arrive, Start, Bootstrap, CreateToken, RevokeToken, CreateUser, DeleteUser, SetRole,
         CreateShare, Unlock, Lock, DeleteShare, UpdateShare, Revoke, Grant

(* Requests touch the operation of a client only to change the key that    *)
(* it holds.                                                               *)
LEMMA RequestSessions ==
    ASSUME Base, NEW a \in Handlers, Arrive(a) \/ Continue(a), NEW c \in Clients
    PROVE  /\ sess'[c].op = sess[c].op /\ sess'[c].pc = sess[c].pc /\ sess'[c].user = sess[c].user
           /\ sess'[c].share = sess[c].share /\ sess'[c].row = sess[c].row
           /\ sess'[c].fs = sess[c].fs /\ sess'[c].base = sess[c].base
           /\ \/ sess'[c].key = sess[c].key
              \/ /\ sess[c].key = "ring" /\ req[a].share = sess[c].share
                 /\ \/ KeySet(a) /\ sess'[c].key = "key"
                    \/ KeyDelete(a) /\ sess'[c].key = "zero"
<1>1. CASE sess' = sess
  BY <1>1
<1>3. sess[c] \in Session
  BY SessionFacts
<1>4. CASE KeySet(a)
  <2>1. \/ sess'[c] = sess[c]
        \/ /\ sess[c].key = "ring" /\ req[a].share = sess[c].share
           /\ sess'[c] = [sess[c] EXCEPT !.key = "key"]
    BY <1>4 DEF KeySet, Holds
  <2> QED
    BY <1>3, <1>4, <2>1 DEF Session
<1>5. CASE KeyDelete(a)
  <2>1. \/ sess'[c] = sess[c]
        \/ /\ sess[c].key = "ring" /\ req[a].share = sess[c].share
           /\ sess'[c] = [sess[c] EXCEPT !.key = "zero"]
    BY <1>5 DEF KeyDelete, Holds
  <2> QED
    BY <1>3, <1>5, <2>1 DEF Session
<1>6. CASE Arrive(a)
  BY <1>1, <1>6, ArriveMoves
<1>7. CASE Continue(a) /\ ~KeySet(a) /\ ~KeyDelete(a)
  <2>1. sess' = sess
    BY <1>7 DEF Continue, HasUsers, UsernameTaken, InsertUser, DropUser, UpdateUser, RequireUser,
       InsertToken, DropToken, InsertShare, GrantCreator, SetPassword, SetPasswordFails, UndoGrants,
       UndoShare, GetShare, GetUser, PutGrant, DropGrant, SetShare, CountFiles, PurgeShare,
       DeleteShareMeta, FailRequest, Ask
  <2> QED
    BY <1>1, <2>1
<1> QED
  BY <1>4, <1>5, <1>6, <1>7

(* A client moves itself only, and writes no more than its file and the    *)
(* mounts.                                                                 *)
LEMMA ClientMoves ==
    ASSUME Base, NEW c \in Clients, Client(c)
    PROVE  /\ UNCHANGED <<user, token, share, grant, last, keyring, req>>
           /\ \A d \in Clients : d # c => sess'[d] = sess[d]
<1>1. \E x : sess' = [sess EXCEPT ![c] = x]
  BY DEF Client, Connect, Disconnect, Begin, FindShare, FindGrant, ReadFile, CreateInode, TakeKey,
         SealSlice, Commit, FailOperation, At, Returns
<1>2. UNCHANGED <<user, token, share, grant, last, keyring, req>>
  BY DEF Client, Connect, Disconnect, Begin, FindShare, FindGrant, ReadFile, CreateInode, TakeKey,
         SealSlice, Commit, FailOperation, At, Returns, tables, memory
<1> QED
  BY <1>1, <1>2 DEF Base, Typed, SessionsTyped

(* Nothing but the lookup of the grant gives an operation its ShareFS.     *)
LEMMA ClientMounts ==
    ASSUME Base, NEW c \in Clients, Client(c), sess'[c].fs # Nil
    PROVE  /\ sess[c].op # "none" /\ sess'[c].share = sess[c].share /\ sess'[c].user = sess[c].user
           /\ sess'[c].op = sess[c].op
           /\ \/ sess'[c].fs = sess[c].fs
              \/ /\ sess[c].pc = "grant" /\ sess'[c].fs.perm = grant[sess[c].share][sess[c].user]
                 /\ sess'[c].fs.row = sess[c].row
<1> DEFINE r == sess[c]
<1> USE ConstantFacts
<1>r. r \in Session /\ SessionShape(r)
  BY SessionFacts
<1>d. c \in DOMAIN sess
  BY DEF Base, Typed, SessionsTyped
<1>z. ASSUME NEW u, sess' = [sess EXCEPT ![c] = [NoSess EXCEPT !.user = u]]
      PROVE  FALSE
  BY <1>d, <1>z DEF NoSess
<1>y. ~Returns(c)
  BY <1>z DEF Returns, At
<1>1. CASE \E t \in TokenIds : Connect(c, t)
  <2>1. PICK t \in TokenIds : sess' = [sess EXCEPT ![c].user = token[t]] /\ r.user = 0
    BY <1>1 DEF Connect
  <2>2. sess'[c].fs = r.fs
    BY <1>d, <1>r, <2>1 DEF Session
  <2>3. r.op = "none"
    BY <1>r, <2>1 DEF SessionShape
  <2> QED
    BY <1>r, <2>2, <2>3 DEF SessionShape
<1>2. CASE Disconnect(c)
  BY <1>2, <1>d DEF Disconnect, NoSess
<1>3. CASE \E op \in {"read", "put", "patch"}, s \in Shares : Begin(c, op, s)
  <2>1. sess'[c].fs = r.fs /\ r.op = "none"
    BY <1>3, <1>d, <1>r DEF Begin, Session
  <2> QED
    BY <1>r, <2>1 DEF SessionShape
<1>s. ASSUME r.op # "none"
      PROVE  r.user # 0 /\ r.share # 0
  BY <1>r, <1>s DEF SessionShape
<1>4. CASE r.op # "none" /\ FindShare(c)
  <2>1. sess' = [sess EXCEPT ![c] = [r EXCEPT !.pc = "grant", !.row = share[r.share]]]
    BY <1>4, <1>y DEF FindShare, At
  <2> QED
    BY <1>4, <1>d, <1>r, <2>1 DEF Session
<1>5. CASE r.op # "none" /\ FindGrant(c)
  <2> DEFINE p == grant[r.share][r.user]
             fs == MountFor(r.user, r.share, r.row, p)
  <2>1. r.pc = "grant" /\ p # Nil
    BY <1>5, <1>y DEF FindGrant
  <2>2. \/ At(c, [r EXCEPT !.pc = "read", !.fs = fs, !.row = Nil])
        \/ At(c, Opened(r, fs))
    BY <1>5, <1>y, <2>1 DEF FindGrant
  <2>3. fs.perm = p /\ fs.row = r.row
    BY <2>1 DEF MountFor, SameMount
  <2> HIDE DEF fs, p
  <2>4. sess'[c].fs = fs /\ sess'[c].share = r.share /\ sess'[c].user = r.user /\ sess'[c].op = r.op
    <3>1. \A x : At(c, x) => sess'[c] = x
      BY <1>d DEF At
    <3> HIDE DEF r
    <3>2. CASE At(c, [r EXCEPT !.pc = "read", !.fs = fs, !.row = Nil])
      BY <1>r, <3>1, <3>2 DEF Session
    <3>3. CASE At(c, Opened(r, fs))
      <4>1. \A pc, b : LET x == [r EXCEPT !.fs = fs, !.row = Nil, !.pc = pc, !.base = b] IN
                x.fs = fs /\ x.share = r.share /\ x.user = r.user /\ x.op = r.op
        BY <1>r DEF Session
      <4>2. Opened(r, fs).fs = fs /\ Opened(r, fs).share = r.share /\ Opened(r, fs).user = r.user
            /\ Opened(r, fs).op = r.op
        BY <4>1 DEF Opened
      <4> QED
        BY <3>1, <3>3, <4>2
    <3> QED
      BY <2>2, <3>2, <3>3
  <2> QED
    BY <1>5, <2>1, <2>3, <2>4 DEF p
<1>6. CASE r.op # "none" /\ ReadFile(c)
  BY <1>6, <1>y DEF ReadFile
<1>7. CASE r.op # "none" /\ CreateInode(c)
  BY <1>7, <1>d, <1>r DEF CreateInode, At, Session
<1>8. CASE r.op # "none" /\ TakeKey(c)
  <2>1. \/ sess' = [sess EXCEPT ![c] = [r EXCEPT !.pc = "store"]]
        \/ sess' = [sess EXCEPT ![c] = [r EXCEPT !.pc = "seal", !.key = "ring"]]
    BY <1>8, <1>y DEF TakeKey, At
  <2>2. CASE sess' = [sess EXCEPT ![c] = [r EXCEPT !.pc = "store"]]
    BY <1>8, <1>d, <1>r, <2>2 DEF Session
  <2>3. CASE sess' = [sess EXCEPT ![c] = [r EXCEPT !.pc = "seal", !.key = "ring"]]
    BY <1>8, <1>d, <1>r, <2>3 DEF Session
  <2> QED
    BY <2>1, <2>2, <2>3
<1>9. CASE r.op # "none" /\ SealSlice(c)
  BY <1>9, <1>d, <1>r DEF SealSlice, At, Session
<1>10. CASE Commit(c)
  BY <1>10, <1>y DEF Commit
<1>11. CASE FailOperation(c)
  BY <1>11, <1>z DEF FailOperation
<1> QED
  BY <1>1, <1>2, <1>3, <1>4, <1>5, <1>6, <1>7, <1>8, <1>9, <1>10, <1>11 DEF Client
-----------------------------------------------------------------------------
(* The grants an operation has seen.                                       *)
LEMMA SinceMoves ==
    ASSUME Remember, NEW c \in Clients, sess'[c].op # "none"
    PROVE  /\ sess[c].op # "none" => since[c] \subseteq since'[c]
           /\ grant'[sess'[c].share][sess'[c].user] \in since'[c]
  BY DEF Remember

LEMMA FreshStep ==
    ASSUME FreshPermission, Base, Base', [Next]_vars
    PROVE  FreshPermission'
<1> SUFFICES ASSUME NEW c \in Clients, sess'[c].fs # Nil
             PROVE  sess'[c].fs.perm \in since'[c]
  BY DEF FreshPermission
<1>1. CASE UNCHANGED vars
  BY <1>1 DEF vars, FreshPermission
<1>2. CASE Next
  <2>1. sess'[c].op # "none"
    <3>1. SessionShape(sess[c])'
      BY DEF Base, Typed, SessionsTyped
    <3> QED
      BY <3>1 DEF SessionShape
  <2>2. Remember
    BY <1>2 DEF Next
  <2>3. ASSUME sess'[c].fs = sess[c].fs
        PROVE  sess'[c].fs.perm \in since'[c]
    <3>1. SessionShape(sess[c]) /\ sess[c].fs # Nil
      BY <2>3 DEF Base, Typed, SessionsTyped
    <3>2. sess[c].op # "none"
      BY <3>1 DEF SessionShape
    <3> QED
      BY <2>1, <2>2, <2>3, <3>2, SinceMoves DEF FreshPermission
  <2>4. CASE \E a \in Handlers : Arrive(a) \/ Continue(a)
    BY <2>3, <2>4, RequestSessions
  <2>5. ASSUME NEW d \in Clients, Client(d)
        PROVE  sess'[c].fs.perm \in since'[c]
    <3>1. CASE c # d
      BY <2>3, <2>5, <3>1, ClientMoves
    <3>2. CASE c = d
      <4>1. grant' = grant
        BY <2>5, ClientMoves
      <4> QED
        BY <2>1, <2>2, <2>3, <2>5, <3>2, <4>1, ClientMounts, SinceMoves
    <3> QED
      BY <3>1, <3>2
  <2>6. CASE Restart
    BY <2>6 DEF Restart, NoSess
  <2> QED
    BY <1>2, <2>4, <2>5, <2>6 DEF Next
<1> QED
  BY <1>1, <1>2

(* Every path is resolved with the permission the user has, or had when    *)
(* the operation began: a mount that RootFS has cached is only used again  *)
(* when the grant read just now is the one it was made from, so a grant    *)
(* taken back or lowered counts at once.  No race is left out.             *)
THEOREM PermissionFresh == Spec => []FreshPermission
<1>1. Init => FreshPermission
  BY DEF Init, FreshPermission, NoSess
<1>2. FreshPermission /\ Base /\ Base' /\ [Next]_vars => FreshPermission'
  BY FreshStep
<1> QED
  BY <1>1, <1>2, TypedSpec, PTL DEF Spec
-----------------------------------------------------------------------------
(* What a request keeps while it goes on, and what it has passed when it   *)
(* stands at a check that let it through.                                  *)
LEMMA ContinueMoves ==
    ASSUME Base, NEW a \in Handlers, Continue(a)
    PROVE  /\ \A b \in Handlers : b # a => req'[b] = req[b]
           /\ \/ req'[a] = NoReq
              \/ /\ req'[a].op = req[a].op /\ req'[a].me = req[a].me /\ req'[a].user = req[a].user
                 /\ req'[a].token = req[a].token /\ req'[a].name = req[a].name
                 /\ req'[a].what = req[a].what /\ req'[a].flag = req[a].flag
                 /\ InsertShare(a) \/ req'[a].share = req[a].share
                 /\ req'[a].pc = "name" => HasUsers(a) /\ Users = {}
                 /\ req'[a].pc = "insert user" => UsernameTaken(a)
                 /\ req'[a].pc = "insert token" => RequireUser(a) /\ req[a].user \in Users
                 /\ req'[a].pc = "own" => InsertShare(a)
                 /\ req'[a].pc = "password" => GrantCreator(a)
                 /\ req'[a].pc = "undo grants" => SetPasswordFails(a)
                 /\ req'[a].pc = "undo share" => UndoGrants(a)
                 /\ req'[a].pc = "get" => SetPassword(a)
                 /\ req'[a].pc = "get user" => GetShare(a) /\ req[a].share \in Shares
                 /\ req'[a].pc = "set" => GetShare(a) /\ req[a].share \in Shares
                 /\ req'[a].pc = "unlock" => GetShare(a) /\ req[a].share \in Shares
                 /\ req'[a].pc = "put grant" => GetUser(a) /\ req[a].user \in Users
                 /\ req'[a].pc = "count" => GetShare(a)
                 /\ req'[a].pc = "purge" => CountFiles(a)
                 /\ req'[a].pc = "meta" => PurgeShare(a)
                 /\ req'[a].pc = "lock" => DeleteShareMeta(a) \/ (GetShare(a) /\ req[a].op = "lock")
                 /\ req'[a].pc \notin {"none", "users", "row", "drop user", "role", "owner",
                                       "revoke token", "revoke"}
<1>d. req \in [Handlers -> Request] /\ req[a] \in Request
  BY DEF Base, Typed, RequestsTyped
<1> DEFINE Other == \A b \in Handlers : b # a => req'[b] = req[b]
           Goes(pc) ==
             /\ req'[a].op = req[a].op /\ req'[a].me = req[a].me /\ req'[a].user = req[a].user
             /\ req'[a].token = req[a].token /\ req'[a].name = req[a].name
             /\ req'[a].what = req[a].what /\ req'[a].flag = req[a].flag
             /\ req'[a].share = req[a].share /\ req'[a].pc = pc
<1>1. ASSUME Answer(a)
      PROVE  Other /\ req'[a] = NoReq
  BY <1>1, <1>d DEF Answer
<1>2. ASSUME NEW pc, GoTo(a, pc)
      PROVE  Other /\ Goes(pc)
  <2> DEFINE x == [req[a] EXCEPT !.pc = pc]
  <2>1. req' = [req EXCEPT ![a] = x]
    BY <1>d, <1>2 DEF GoTo
  <2>2. /\ x.op = req[a].op /\ x.me = req[a].me /\ x.user = req[a].user
        /\ x.token = req[a].token /\ x.name = req[a].name /\ x.what = req[a].what
        /\ x.flag = req[a].flag /\ x.share = req[a].share /\ x.pc = pc
    BY <1>d DEF Request
  <2> HIDE DEF x
  <2> QED
    BY <1>d, <2>1, <2>2
<1>3. CASE HasUsers(a)
  <2>1. (Answer(a)) \/ (GoTo(a, "name") /\ Users = {})
    BY <1>3 DEF HasUsers, Ask
  <2> HIDE DEF Goes, Other
  <2>2. Other /\ (req'[a] = NoReq \/ (Goes("name") /\ Users = {}))
    BY <1>1, <1>2, <2>1
  <2> QED
    BY <1>3, <2>2 DEF Goes, Other
<1>4. CASE UsernameTaken(a)
  <2>1. (Answer(a)) \/ (GoTo(a, "insert user"))
    BY <1>4 DEF UsernameTaken, Ask
  <2> HIDE DEF Goes, Other
  <2>2. Other /\ (req'[a] = NoReq \/ (Goes("insert user")))
    BY <1>1, <1>2, <2>1
  <2> QED
    BY <1>4, <2>2 DEF Goes, Other
<1>5. CASE RequireUser(a)
  <2>1. (Answer(a)) \/ (GoTo(a, "insert token") /\ req[a].user \in Users)
    BY <1>5 DEF RequireUser, Ask
  <2> HIDE DEF Goes, Other
  <2>2. Other /\ (req'[a] = NoReq \/ (Goes("insert token") /\ req[a].user \in Users))
    BY <1>1, <1>2, <2>1
  <2> QED
    BY <1>5, <2>2 DEF Goes, Other
<1>6. CASE GetUser(a)
  <2>1. (Answer(a)) \/ (GoTo(a, "put grant") /\ req[a].user \in Users)
    BY <1>6 DEF GetUser, Ask
  <2> HIDE DEF Goes, Other
  <2>2. Other /\ (req'[a] = NoReq \/ (Goes("put grant") /\ req[a].user \in Users))
    BY <1>1, <1>2, <2>1
  <2> QED
    BY <1>6, <2>2 DEF Goes, Other
<1>7. CASE CountFiles(a)
  <2>1. (Answer(a)) \/ (GoTo(a, "purge"))
    BY <1>7 DEF CountFiles, Ask
  <2> HIDE DEF Goes, Other
  <2>2. Other /\ (req'[a] = NoReq \/ (Goes("purge")))
    BY <1>1, <1>2, <2>1
  <2> QED
    BY <1>7, <2>2 DEF Goes, Other
<1>8. CASE GetShare(a)
  <2> DEFINE Found(pc) == GoTo(a, pc) /\ req[a].share \in Shares
  <2>1. Answer(a) \/ Found("get user") \/ Found("set") \/ Found("count") \/ Found("unlock")
          \/ (GoTo(a, "lock") /\ req[a].op = "lock")
    BY <1>8 DEF GetShare, Ask
  <2> HIDE DEF Goes, Other
  <2>2. /\ Other
        /\ \/ req'[a] = NoReq
           \/ Goes("count")
           \/ (Goes("get user") \/ Goes("set") \/ Goes("unlock")) /\ req[a].share \in Shares
           \/ Goes("lock") /\ req[a].op = "lock"
    BY <1>1, <1>2, <2>1
  <2> QED
    BY <1>8, <2>2 DEF Goes, Other
<1>9. CASE GrantCreator(a)
  <2>1. (Answer(a)) \/ (GoTo(a, "password"))
    BY <1>9 DEF GrantCreator
  <2> HIDE DEF Goes, Other
  <2>2. Other /\ (req'[a] = NoReq \/ (Goes("password")))
    BY <1>1, <1>2, <2>1
  <2> QED
    BY <1>9, <2>2 DEF Goes, Other
<1>10. CASE SetPassword(a)
  <2>1. (GoTo(a, "get"))
    BY <1>10 DEF SetPassword
  <2> HIDE DEF Goes, Other
  <2>2. Other /\ (req'[a] = NoReq \/ (Goes("get")))
    BY <1>1, <1>2, <2>1
  <2> QED
    BY <1>10, <2>2 DEF Goes, Other
<1>11. CASE SetPasswordFails(a)
  <2>1. (GoTo(a, "undo grants"))
    BY <1>11 DEF SetPasswordFails
  <2> HIDE DEF Goes, Other
  <2>2. Other /\ (req'[a] = NoReq \/ (Goes("undo grants")))
    BY <1>1, <1>2, <2>1
  <2> QED
    BY <1>11, <2>2 DEF Goes, Other
<1>12. CASE UndoGrants(a)
  <2>1. (GoTo(a, "undo share"))
    BY <1>12 DEF UndoGrants
  <2> HIDE DEF Goes, Other
  <2>2. Other /\ (req'[a] = NoReq \/ (Goes("undo share")))
    BY <1>1, <1>2, <2>1
  <2> QED
    BY <1>12, <2>2 DEF Goes, Other
<1>13. CASE PurgeShare(a)
  <2>1. (GoTo(a, "meta"))
    BY <1>13 DEF PurgeShare
  <2> HIDE DEF Goes, Other
  <2>2. Other /\ (req'[a] = NoReq \/ (Goes("meta")))
    BY <1>1, <1>2, <2>1
  <2> QED
    BY <1>13, <2>2 DEF Goes, Other
<1>14. CASE DeleteShareMeta(a)
  <2>1. (GoTo(a, "lock"))
    BY <1>14 DEF DeleteShareMeta
  <2> HIDE DEF Goes, Other
  <2>2. Other /\ (req'[a] = NoReq \/ (Goes("lock")))
    BY <1>1, <1>2, <2>1
  <2> QED
    BY <1>14, <2>2 DEF Goes, Other
<1>15. CASE InsertShare(a)
  <2> DEFINE x == [req[a] EXCEPT !.pc = "own", !.share = last.share + 1]
  <2>1. req' = [req EXCEPT ![a] = x]
    BY <1>15, <1>d DEF InsertShare
  <2>2. /\ x.op = req[a].op /\ x.me = req[a].me /\ x.user = req[a].user
        /\ x.token = req[a].token /\ x.name = req[a].name /\ x.what = req[a].what
        /\ x.flag = req[a].flag /\ x.pc = "own"
    BY <1>d DEF Request
  <2> HIDE DEF x
  <2> QED
    BY <1>15, <1>d, <2>1, <2>2
<1>16. CASE InsertUser(a) \/ DropUser(a) \/ UpdateUser(a) \/ InsertToken(a) \/ DropToken(a)
           \/ UndoShare(a) \/ PutGrant(a) \/ DropGrant(a) \/ SetShare(a) \/ KeySet(a)
           \/ KeyDelete(a) \/ FailRequest(a)
  <2>1. Answer(a)
    BY <1>16 DEF InsertUser, DropUser, UpdateUser, InsertToken, DropToken,
       UndoShare, PutGrant, DropGrant, SetShare, KeySet, KeyDelete, FailRequest
  <2> QED
    BY <1>1, <2>1
<1> QED
  BY <1>3, <1>4, <1>5, <1>6, <1>7, <1>8, <1>9, <1>10, <1>11, <1>12, <1>13, <1>14, <1>15, <1>16 DEF Continue

(* How a request begins.                                                   *)
LEMMA ArriveBegins ==
    ASSUME Base, NEW a \in Handlers, Arrive(a)
    PROVE  /\ \A b \in Handlers : b # a => req'[b] = req[b]
           /\ UNCHANGED <<user, token, share, grant, file, last, keyring, mount, sess, faults>>
           /\ req'[a].pc \in {"users", "name", "drop user", "role", "owner", "revoke token", "row",
                              "get", "revoke"}
           /\ req'[a].op = "bootstrap" => req'[a].pc = "users"
           /\ req'[a].op = "share" => req'[a].pc = "row"
           /\ req'[a].pc \in OnShare => req'[a].share \in Shares
           /\ req[a].op = "none"
<1>1. UNCHANGED <<user, token, share, grant, file, last, keyring, mount, sess, faults>>
  BY ArriveMoves DEF tables, memory
<1>2. \A b \in Handlers : b # a => req'[b] = req[b]
  BY ArriveMoves DEF Base, Typed, RequestsTyped
<1>3. a \in DOMAIN req
  BY DEF Base, Typed, RequestsTyped
<1> DEFINE Begins ==
        /\ req'[a].pc \in {"users", "name", "drop user", "role", "owner", "revoke token", "row",
                           "get", "revoke"}
        /\ req'[a].op = "bootstrap" => req'[a].pc = "users"
        /\ req'[a].op = "share" => req'[a].pc = "row"
        /\ req'[a].pc \in OnShare => req'[a].share \in Shares
<1>4. \A x : Start(a, x) => req'[a] = x
  BY <1>3 DEF Start
<1>5. ASSUME NEW n \in Names, Bootstrap(a, n)
      PROVE  Begins
  <2> DEFINE x == [NoReq EXCEPT !.op = "bootstrap", !.pc = "users", !.name = n, !.what = "admin"]
  <2>1. x.op = "bootstrap" /\ x.pc = "users"
    BY DEF NoReq
  <2>2. req'[a] = x
    BY <1>4, <1>5 DEF Bootstrap
  <2> HIDE DEF x
  <2> QED
    BY <2>1, <2>2 DEF OnShare
<1>6. ASSUME NEW u \in Users, CreateToken(a, u)
      PROVE  Begins
  <2> DEFINE x == [NoReq EXCEPT !.op = "token", !.pc = "owner", !.user = u]
  <2>1. x.op = "token" /\ x.pc = "owner"
    BY DEF NoReq
  <2>2. req'[a] = x
    BY <1>4, <1>6 DEF CreateToken
  <2> HIDE DEF x
  <2> QED
    BY <2>1, <2>2 DEF OnShare
<1>7. ASSUME NEW t \in TokenIds, RevokeToken(a, t)
      PROVE  Begins
  <2> DEFINE x == [NoReq EXCEPT !.op = "revoke token", !.pc = "revoke token", !.token = t]
  <2>1. x.op = "revoke token" /\ x.pc = "revoke token"
    BY DEF NoReq
  <2>2. req'[a] = x
    BY <1>4, <1>7 DEF RevokeToken
  <2> HIDE DEF x
  <2> QED
    BY <2>1, <2>2 DEF OnShare
<1>8. ASSUME NEW me \in Admins, NEW n \in Names, NEW r \in Role, CreateUser(a, me, n, r)
      PROVE  Begins
  <2> DEFINE x == [NoReq EXCEPT !.op = "user", !.pc = "name", !.me = me, !.name = n, !.what = r]
  <2>1. x.op = "user" /\ x.pc = "name"
    BY DEF NoReq
  <2>2. req'[a] = x
    BY <1>4, <1>8 DEF CreateUser
  <2> HIDE DEF x
  <2> QED
    BY <2>1, <2>2 DEF OnShare
<1>9. ASSUME NEW me \in Admins, NEW u \in Users, DeleteUser(a, me, u)
      PROVE  Begins
  <2> DEFINE x == [NoReq EXCEPT !.op = "drop user", !.pc = "drop user", !.me = me, !.user = u]
  <2>1. x.op = "drop user" /\ x.pc = "drop user"
    BY DEF NoReq
  <2>2. req'[a] = x
    BY <1>4, <1>9 DEF DeleteUser
  <2> HIDE DEF x
  <2> QED
    BY <2>1, <2>2 DEF OnShare
<1>10. ASSUME NEW me \in Admins, NEW u \in Users, NEW r \in Role, SetRole(a, me, u, r)
      PROVE  Begins
  <2> DEFINE x == [NoReq EXCEPT !.op = "role", !.pc = "role", !.me = me, !.user = u, !.what = r]
  <2>1. x.op = "role" /\ x.pc = "role"
    BY DEF NoReq
  <2>2. req'[a] = x
    BY <1>4, <1>10 DEF SetRole
  <2> HIDE DEF x
  <2> QED
    BY <2>1, <2>2 DEF OnShare
<1>11. ASSUME NEW me \in Admins, NEW enc \in BOOLEAN, CreateShare(a, me, enc)
      PROVE  Begins
  <2> DEFINE x == [NoReq EXCEPT !.op = "share", !.pc = "row", !.me = me, !.flag = enc]
  <2>1. x.op = "share" /\ x.pc = "row"
    BY DEF NoReq
  <2>2. req'[a] = x
    BY <1>4, <1>11 DEF CreateShare
  <2> HIDE DEF x
  <2> QED
    BY <2>1, <2>2 DEF OnShare
<1>12. ASSUME NEW me \in Admins, NEW s \in Shares, Unlock(a, me, s)
      PROVE  Begins
  <2> DEFINE x == [NoReq EXCEPT !.op = "unlock", !.pc = "get", !.me = me, !.share = s]
  <2>1. x.op = "unlock" /\ x.pc = "get" /\ x.share = s
    BY DEF NoReq
  <2>2. req'[a] = x
    BY <1>4, <1>12 DEF Unlock
  <2> HIDE DEF x
  <2> QED
    BY <2>1, <2>2 DEF OnShare
<1>13. ASSUME NEW me \in Admins, NEW s \in Shares, Lock(a, me, s)
      PROVE  Begins
  <2> DEFINE x == [NoReq EXCEPT !.op = "lock", !.pc = "get", !.me = me, !.share = s]
  <2>1. x.op = "lock" /\ x.pc = "get" /\ x.share = s
    BY DEF NoReq
  <2>2. req'[a] = x
    BY <1>4, <1>13 DEF Lock
  <2> HIDE DEF x
  <2> QED
    BY <2>1, <2>2 DEF OnShare
<1>14. ASSUME NEW me \in Admins, NEW s \in Shares, NEW f \in BOOLEAN, DeleteShare(a, me, s, f)
      PROVE  Begins
  <2> DEFINE x == [NoReq EXCEPT !.op = "delete", !.pc = "get", !.me = me, !.share = s, !.flag = f]
  <2>1. x.op = "delete" /\ x.pc = "get" /\ x.share = s
    BY DEF NoReq
  <2>2. req'[a] = x
    BY <1>4, <1>14 DEF DeleteShare
  <2> HIDE DEF x
  <2> QED
    BY <2>1, <2>2 DEF OnShare
<1>15. ASSUME NEW me \in Admins, NEW s \in Shares, NEW z \in Codec, UpdateShare(a, me, s, z)
      PROVE  Begins
  <2> DEFINE x == [NoReq EXCEPT !.op = "update", !.pc = "get", !.me = me, !.share = s, !.what = z]
  <2>1. x.op = "update" /\ x.pc = "get" /\ x.share = s
    BY DEF NoReq
  <2>2. req'[a] = x
    BY <1>4, <1>15 DEF UpdateShare
  <2> HIDE DEF x
  <2> QED
    BY <2>1, <2>2 DEF OnShare
<1>16. ASSUME NEW me \in Admins, NEW s \in Shares, NEW u \in Users, Revoke(a, me, s, u)
      PROVE  Begins
  <2> DEFINE x == [NoReq EXCEPT !.op = "revoke", !.pc = "revoke", !.me = me, !.share = s, !.user = u]
  <2>1. x.op = "revoke" /\ x.pc = "revoke" /\ x.share = s
    BY DEF NoReq
  <2>2. req'[a] = x
    BY <1>4, <1>16 DEF Revoke
  <2> HIDE DEF x
  <2> QED
    BY <2>1, <2>2 DEF OnShare
<1>17. ASSUME NEW me \in Admins, NEW s \in Shares, NEW u \in Users, NEW p \in Granted, Grant(a, me, s, u, p)
      PROVE  Begins
  <2> DEFINE x == [NoReq EXCEPT !.op = "grant", !.pc = "get", !.me = me, !.share = s, !.user = u, !.what = p]
  <2>1. x.op = "grant" /\ x.pc = "get" /\ x.share = s
    BY DEF NoReq
  <2>2. req'[a] = x
    BY <1>4, <1>17 DEF Grant
  <2> HIDE DEF x
  <2> QED
    BY <2>1, <2>2 DEF OnShare
<1>18. req[a].op = "none"
  BY DEF Arrive
<1>19. Begins
  BY <1>5, <1>6, <1>7, <1>8, <1>9, <1>10, <1>11, <1>12, <1>13, <1>14, <1>15, <1>16, <1>17 DEF Arrive
<1> QED
  BY <1>1, <1>2, <1>18, <1>19

(* No step leads to what Allowed leaves out.                               *)
LEMMA AllowedInit == Init => Allowed
<1> SUFFICES ASSUME Init
             PROVE  Allowed
  OBVIOUS
<1>1. \A a \in Handlers : req[a] = NoReq /\ req[a].op = "none" /\ req[a].pc = "none" /\ req[a].me = 0
  BY DEF Init, NoReq
<1>2. \A c \in Clients : sess[c].key = "plain" /\ sess[c].op = "none"
  BY DEF Init, NoSess
<1>3. "case" \in Overlaps \/ \A u, v \in Users : u # v => Fold[user[u].name] # Fold[user[v].name]
  <2>1. PICK e \in Earlier : user = e.user
    BY DEF Init
  <2>2. Consistent(e)
    BY AccessAssumption
  <2> QED
    BY <2>1, <2>2 DEF Consistent, Users
<1> QED
  BY <1>1, <1>2, <1>3 DEF Allowed, Deleting, UsesShare, Creating, Working

LEMMA AllowedSpec == Spec => []Allowed
<1>1. Init => Allowed
  BY AllowedInit
<1>2. Allowed /\ [Next]_vars => Allowed'
  <2>1. Next => Allowed'
    BY DEF Next
  <2>2. Allowed /\ UNCHANGED vars => Allowed'
    <3> SUFFICES ASSUME Allowed, UNCHANGED vars
                 PROVE  Allowed'
      OBVIOUS
    <3>1. user' = user /\ file' = file /\ req' = req /\ sess' = sess
      BY DEF vars, tables
    <3> QED
      BY <3>1 DEF Allowed, Deleting, UsesShare, Creating, Working, Users, Admins
  <2> QED
    BY <2>1, <2>2
<1> QED
  BY <1>1, <1>2, PTL DEF Spec

(* Which statements change which table.                                    *)
LEMMA TableMoves ==
    ASSUME Base, NEW a \in Handlers, Continue(a)
    PROVE  /\ user' = user \/ InsertUser(a) \/ DropUser(a) \/ UpdateUser(a)
           /\ token' = token \/ DropUser(a) \/ InsertToken(a) \/ DropToken(a)
           /\ \/ share' = share \/ InsertShare(a) \/ SetPassword(a) \/ UndoShare(a) \/ SetShare(a)
              \/ DeleteShareMeta(a)
           /\ \/ grant' = grant \/ DropUser(a) \/ GrantCreator(a) \/ UndoGrants(a) \/ PutGrant(a)
              \/ DropGrant(a) \/ DeleteShareMeta(a)
           /\ file' = file \/ PurgeShare(a)
           /\ keyring' = keyring \/ KeySet(a) \/ KeyDelete(a)
           /\ faults' = faults \/ SetPasswordFails(a) \/ FailRequest(a)
           /\ last'.share = last.share \/ InsertShare(a)
           /\ last'.user = last.user \/ InsertUser(a)
<1>1. CASE \/ HasUsers(a) \/ UsernameTaken(a) \/ RequireUser(a) \/ GetShare(a) \/ GetUser(a)
           \/ CountFiles(a) \/ SetPasswordFails(a) \/ FailRequest(a)
  <2>1. UNCHANGED <<tables, memory>> /\ (faults' = faults \/ SetPasswordFails(a) \/ FailRequest(a))
    BY <1>1 DEF HasUsers, UsernameTaken, RequireUser, GetShare, GetUser, CountFiles,
       SetPasswordFails, FailRequest, Ask
  <2> QED
    BY <2>1 DEF tables, memory
<1>l. last \in [user : 0..MaxUser, share : 0..MaxShare, token : 0..MaxToken]
  BY DEF Base, Typed, TablesTyped
<1>2. CASE InsertUser(a)
  <2>1. UNCHANGED <<token, share, grant, file, keyring, faults>>
    BY <1>2 DEF InsertUser, memory
  <2>2. last' = last \/ last' = [last EXCEPT !.user = last.user + 1]
    BY <1>2 DEF InsertUser
  <2>3. last'.share = last.share
    BY <1>l, <2>2
  <2> QED
    BY <1>2, <2>1, <2>3
<1>3. CASE DropUser(a) \/ UpdateUser(a) \/ DropToken(a)
  BY <1>3 DEF DropUser, UpdateUser, DropToken, memory
<1>4. CASE InsertToken(a)
  <2>1. UNCHANGED <<user, share, grant, file, keyring, faults>>
    BY <1>4 DEF InsertToken, memory
  <2>2. last' = [last EXCEPT !.token = last.token + 1]
    BY <1>4 DEF InsertToken
  <2>3. last'.share = last.share /\ last'.user = last.user
    BY <1>l, <2>2
  <2> QED
    BY <1>4, <2>1, <2>3
<1>5. CASE InsertShare(a)
  <2>1. UNCHANGED <<user, token, grant, file, keyring, faults>>
    BY <1>5 DEF InsertShare, memory
  <2>2. last' = [last EXCEPT !.share = last.share + 1]
    BY <1>5 DEF InsertShare
  <2>3. last'.user = last.user
    BY <1>l, <2>2
  <2> QED
    BY <1>5, <2>1, <2>3
<1>6. CASE GrantCreator(a) \/ SetPassword(a) \/ UndoGrants(a) \/ UndoShare(a) \/ PutGrant(a)
           \/ DropGrant(a) \/ SetShare(a) \/ PurgeShare(a) \/ DeleteShareMeta(a)
  BY <1>6 DEF GrantCreator, SetPassword, UndoGrants, UndoShare, PutGrant, DropGrant, SetShare,
     PurgeShare, DeleteShareMeta, memory
<1>7. CASE KeySet(a) \/ KeyDelete(a)
  BY <1>7 DEF KeySet, KeyDelete, tables
<1> QED
  BY <1>1, <1>2, <1>3, <1>4, <1>5, <1>6, <1>7 DEF Continue
-----------------------------------------------------------------------------
(* The table of users.  Ids are never given twice, so that last tells      *)
(* whether there ever was a user.                                          *)
Founded == last.user > 0 => Users # {}

LEMMA UserRows ==
    ASSUME Base, NEW a \in Handlers
    PROVE  /\ InsertUser(a) => Users \subseteq Users'
           /\ InsertUser(a) /\ Users = {} => Users' # {}
           /\ UpdateUser(a) => Users' = Users
           /\ DropUser(a) => Users' = Users \ {req[a].user}
<1> USE ConstantFacts
<1>1. /\ user \in [UserIds -> UserRow \cup {Nil}] /\ last.user \in Nat
      /\ \A u \in UserIds : user[u] # Nil => u <= last.user
  BY DEF Base, Typed, TablesTyped, IdsGiven
<1>2. req[a] \in Request /\ RequestShape(req[a])
  BY RequestFacts DEF Base
<1>3. ASSUME InsertUser(a)
      PROVE  Users \subseteq Users' /\ (Users = {} => Users' # {})
  <2>1. CASE \E u \in Users : user[u].name = req[a].name
    BY <1>3, <2>1 DEF InsertUser, Users
  <2>2. CASE ~\E u \in Users : user[u].name = req[a].name
    <3> DEFINE u == last.user + 1
               row == [name |-> req[a].name, role |-> req[a].what]
    <3>1. last.user < MaxUser
      BY <1>3, <2>2 DEF InsertUser
    <3>2. user' = [user EXCEPT ![u] = row] /\ req[a].pc = "insert user"
      BY <1>3, <2>2 DEF InsertUser
    <3>3. u \in UserIds
      BY <1>1, <3>1 DEF UserIds
    <3>4. row \in UserRow
      BY <1>2, <3>2 DEF RequestShape, UserRow
    <3> HIDE DEF u, row
    <3> QED
      BY <1>1, <3>2, <3>3, <3>4 DEF Users
  <2> QED
    BY <2>1, <2>2
<1>4. UpdateUser(a) => Users' = Users
  <2> SUFFICES ASSUME UpdateUser(a)
               PROVE  Users' = Users
    OBVIOUS
  <2>1. user' = IF req[a].user \in Users THEN [user EXCEPT ![req[a].user].role = req[a].what] ELSE user
    BY DEF UpdateUser
  <2>2. req[a].what \in Role
    BY <1>2 DEF UpdateUser, RequestShape
  <2>3. ASSUME req[a].user \in Users
        PROVE  [user[req[a].user] EXCEPT !.role = req[a].what] \in UserRow
    BY <1>1, <2>2, <2>3 DEF Users, UserRow
  <2> QED
    BY <1>1, <2>1, <2>3 DEF Users
<1>5. DropUser(a) => Users' = Users \ {req[a].user}
  BY <1>1 DEF DropUser, Users
<1> QED
  BY <1>3, <1>4, <1>5

LEMMA FoundedStep ==
    ASSUME "mutual" \notin Overlaps, Base, Allowed, Founded, [Next]_vars
    PROVE  Founded'
<1>s. ASSUME last' = last, user' = user
      PROVE  Founded'
  BY <1>s DEF Founded, Users
<1>1. CASE UNCHANGED vars
  BY <1>1, <1>s DEF vars, tables
<1>2. ASSUME NEW a \in Handlers, Arrive(a)
      PROVE  Founded'
  BY <1>2, <1>s, ArriveBegins
<1>3. ASSUME NEW a \in Handlers, Continue(a)
      PROVE  Founded'
  <2>1. CASE InsertUser(a)
    <3>1. Users' # {}
      BY <2>1, UserRows
    <3> QED
      BY <3>1 DEF Founded
  <2>2. CASE DropUser(a)
    <3>1. req[a].pc = "drop user" /\ last' = last
      BY <2>2 DEF DropUser
    <3>2. req[a].user # req[a].me
      BY <3>1, RequestFacts DEF Base, RequestShape
    <3>3. req[a].me \in Users
      BY <3>1 DEF Allowed
    <3>4. req[a].me \in Users'
      BY <2>2, <3>2, <3>3, UserRows
    <3> QED
      BY <3>4 DEF Founded
  <2>3. CASE UpdateUser(a)
    <3>1. Users' = Users /\ last' = last
      BY <2>3, UserRows DEF UpdateUser
    <3> QED
      BY <3>1 DEF Founded
  <2>4. CASE user' = user /\ ~InsertUser(a)
    <3>1. last'.user = last.user
      BY <1>3, <2>4, TableMoves
    <3> QED
      BY <2>4, <3>1 DEF Founded, Users
  <2> QED
    BY <1>3, <2>1, <2>2, <2>3, <2>4, TableMoves
<1>4. ASSUME NEW c \in Clients, Client(c)
      PROVE  Founded'
  BY <1>4, <1>s, ClientMoves
<1>5. CASE Restart
  BY <1>5, <1>s DEF Restart, tables
<1> QED
  BY <1>1, <1>2, <1>3, <1>4, <1>5 DEF Next

(* Only HasUsers lets a bootstrap go on, and it reads the table itself.    *)
LEMMA FirstLooks ==
    ASSUME Base, Next, NEW a \in Handlers, req[a].pc = "users", req'[a].pc = "name"
    PROVE  Users = {}
<1>1. req[a].op = "bootstrap"
  BY RequestFacts DEF Base, RequestShape
<1>2. ASSUME NEW b \in Handlers, Arrive(b)
      PROVE  FALSE
  BY <1>1, <1>2, ArriveBegins
<1>3. ASSUME NEW b \in Handlers, Continue(b)
      PROVE  Users = {}
  <2>1. b = a
    BY <1>3, ContinueMoves
  <2>2. req'[a] # NoReq
    BY NoReqTyped
  <2> QED
    BY <1>1, <1>3, <2>1, <2>2, ContinueMoves
<1>4. ASSUME NEW c \in Clients, Client(c)
      PROVE  FALSE
  BY <1>4, ClientMoves
<1>5. CASE Restart
  BY <1>5, NoReqTyped DEF Restart
<1> QED
  BY <1>2, <1>3, <1>4, <1>5 DEF Next

(* However many bootstraps, creations, deletions and demotions run at      *)
(* once: none looks at an empty table after the first user, unless an      *)
(* administrator is deleted while he deletes another user.  DeleteUser     *)
(* keeps an administrator from deleting himself, so whoever deletes stays. *)
THEOREM BootstrapClosed ==
    ASSUME "mutual" \notin Overlaps
    PROVE  Spec => BootstrapCloses
<1>1. Init => Founded
  <2> SUFFICES ASSUME Init, Users = {}
               PROVE  last.user = 0
    BY InitTyped DEF Founded, Base, Typed, TablesTyped
  <2>1. Cardinality(Users) = 0
    BY FS_EmptySet
  <2> QED
    BY <2>1 DEF Init
<1>2. Founded /\ Base /\ Allowed /\ [Next]_vars => Founded'
  BY FoundedStep
<1>3. ASSUME Founded, Base, [Next]_vars
      PROVE  [\A a \in Handlers : req[a].pc = "users" /\ req'[a].pc = "name" => last.user = 0]_vars
  <2> SUFFICES ASSUME Next, NEW a \in Handlers, req[a].pc = "users", req'[a].pc = "name"
               PROVE  last.user = 0
    BY <1>3
  <2>1. Users = {}
    BY <1>3, FirstLooks
  <2>2. last.user \in Nat
    BY <1>3 DEF Base, Typed, TablesTyped
  <2> QED
    BY <1>3, <2>1, <2>2 DEF Founded
<1> QED
  BY <1>1, <1>2, <1>3, TypedSpec, AllowedSpec, PTL DEF Spec, BootstrapCloses
-----------------------------------------------------------------------------
(* Tokens name users: DropUser deletes both in one transaction.            *)
TokenInv == \A t \in TokenIds : token[t] # 0 => token[t] \in Users

LEMMA TokenStep ==
    ASSUME "user" \notin Overlaps, Base, Allowed, TokenInv, [Next]_vars
    PROVE  TokenInv'
<1>t. token \in [TokenIds -> 0..MaxUser]
  BY DEF Base, Typed, TablesTyped
<1>k. ASSUME token' = token, Users \subseteq Users'
      PROVE  TokenInv'
  BY <1>k DEF TokenInv
<1>s. ASSUME token' = token, user' = user
      PROVE  TokenInv'
  BY <1>k, <1>s DEF Users
<1>1. CASE UNCHANGED vars
  BY <1>1, <1>s DEF vars, tables
<1>2. ASSUME NEW a \in Handlers, Arrive(a)
      PROVE  TokenInv'
  BY <1>2, <1>s, ArriveBegins
<1>3. ASSUME NEW a \in Handlers, Continue(a)
      PROVE  TokenInv'
  <2>1. CASE DropUser(a)
    <3>1. \/ token' = [t \in TokenIds |-> IF token[t] = req[a].user THEN 0 ELSE token[t]]
          \/ token' = token /\ req[a].user \notin Users
      BY <2>1 DEF DropUser
    <3>2. Users' = Users \ {req[a].user}
      BY <2>1, UserRows
    <3> QED
      BY <3>1, <3>2 DEF TokenInv
  <2>2. CASE InsertToken(a)
    <3>1. req[a].pc = "insert token" /\ user' = user
          /\ token' = [token EXCEPT ![last.token + 1] = req[a].user]
      BY <2>2 DEF InsertToken
    <3>2. req[a].user \in Users
      BY <3>1 DEF Allowed
    <3>3. \A t \in TokenIds : token'[t] = token[t] \/ token'[t] = req[a].user
      BY <1>t, <3>1
    <3> QED
      BY <3>1, <3>2, <3>3 DEF TokenInv, Users
  <2>3. CASE DropToken(a)
    <3>1. \A t \in TokenIds : token'[t] = token[t] \/ token'[t] = 0
      BY <1>t, <2>3 DEF DropToken
    <3>2. user' = user
      BY <2>3 DEF DropToken
    <3> QED
      BY <3>1, <3>2 DEF TokenInv, Users
  <2>4. CASE token' = token /\ ~DropUser(a)
    <3>1. Users \subseteq Users'
      <4>1. CASE user' = user
        BY <4>1 DEF Users
      <4>2. CASE InsertUser(a) \/ UpdateUser(a)
        BY <4>2, UserRows
      <4> QED
        BY <1>3, <2>4, <4>1, <4>2, TableMoves
    <3> QED
      BY <1>k, <2>4, <3>1
  <2> QED
    BY <1>3, <2>1, <2>2, <2>3, <2>4, TableMoves
<1>4. ASSUME NEW c \in Clients, Client(c)
      PROVE  TokenInv'
  BY <1>4, <1>s, ClientMoves
<1>5. CASE Restart
  BY <1>5, <1>s DEF Restart, tables
<1> QED
  BY <1>1, <1>2, <1>3, <1>4, <1>5 DEF Next

LEMMA OneByName ==
    ASSUME "case" \notin Overlaps, Base, Allowed, NEW u \in Users
    PROVE  UserByName(user[u].name) = {u} /\ Min(UserByName(user[u].name)) = u
<1>1. UserByName(user[u].name) = {u}
  BY DEF UserByName, Allowed
<1>2. u \in Nat
  BY DEF Users, UserIds
<1>3. Min({u}) = u
  BY <1>2 DEF Min
<1> QED
  BY <1>1, <1>3

(* A token lets its owner in, unless he is deleted while a token is made   *)
(* for him or a second name differs from his in case only: the lookup by   *)
(* folded name then finds nobody but him.                                  *)
THEOREM TokensAdmit ==
    ASSUME "case" \notin Overlaps, "user" \notin Overlaps
    PROVE  Spec => []TokenAdmits
<1>1. Init => TokenInv
  <2> SUFFICES ASSUME Init
               PROVE  TokenInv
    OBVIOUS
  <2>1. PICK e \in Earlier : user = e.user /\ token = e.token
    BY DEF Init
  <2>2. Consistent(e)
    BY AccessAssumption
  <2> QED
    BY <2>1, <2>2 DEF Consistent, TokenInv, Users
<1>2. TokenInv /\ Base /\ Allowed /\ [Next]_vars => TokenInv'
  BY TokenStep
<1>3. Base /\ Allowed /\ TokenInv => TokenAdmits
  BY OneByName DEF TokenInv, TokenAdmits, Admits
<1> QED
  BY <1>1, <1>2, <1>3, TypedSpec, AllowedSpec, PTL DEF Spec
-----------------------------------------------------------------------------
(* The course of an operation: what each of its steps takes from where.    *)
Course(c, r, x) ==
    \/ x.op = "none" /\ (file' = file \/ Commit(c))
    \/ r.op = "none" /\ x.op # "none" /\ x.pc = "share" /\ file' = file
    \/ /\ r.op # "none" /\ x.op = r.op /\ x.share = r.share
       /\ \/ /\ r.pc = "share" /\ x.pc = "grant" /\ r.share \in Shares /\ x.row = share[r.share]
             /\ x.fs = r.fs /\ x.key = r.key /\ file' = file
          \/ /\ r.pc = "grant" /\ x.pc = "read" /\ r.op = "read" /\ file' = file
          \/ /\ r.pc = "grant" /\ x.pc \in {"create", "key"} /\ r.op # "read" /\ x.fs.row = r.row
             /\ \/ r.op # "patch" /\ x.base = <<>>
                \/ r.op = "patch" /\ file[r.share] # Nil /\ x.base = file[r.share].slice
             /\ r.row.enc => HasKey(r.share)
             /\ x.key = r.key /\ file' = file
          \/ /\ r.pc = "create" /\ x.pc = "key" /\ x.fs = r.fs /\ x.base = r.base /\ x.key = r.key
             /\ file' = [file EXCEPT ![r.share] = [comp |-> r.fs.row.comp, slice |-> <<>>]]
          \/ /\ r.pc = "key" /\ x.fs = r.fs /\ x.base = r.base /\ file' = file
             /\ \/ ~r.fs.row.enc /\ x.pc = "store" /\ x.key = r.key
                \/ r.fs.row.enc /\ x.pc = "seal" /\ x.key = "ring"
          \/ /\ r.pc = "seal" /\ x.pc = "store" /\ x.fs = r.fs /\ x.base = r.base /\ file' = file
             /\ x.key = IF r.key = "ring" THEN "key" ELSE r.key

LEMMA ClientCourse ==
    ASSUME Base, NEW c \in Clients, Client(c)
    PROVE  Course(c, sess[c], sess'[c])
<1> DEFINE r == sess[c]
<1> USE ConstantFacts
<1>r. r \in Session /\ SessionShape(r)
  BY SessionFacts
<1>d. \A x : sess' = [sess EXCEPT ![c] = x] => sess'[c] = x
  BY DEF Base, Typed, SessionsTyped
<1>z. ASSUME NEW u, sess' = [sess EXCEPT ![c] = [NoSess EXCEPT !.user = u]]
      PROVE  sess'[c].op = "none"
  BY <1>d, <1>z DEF NoSess
<1>y. ASSUME Returns(c)
      PROVE  sess'[c].op = "none"
  BY <1>y, <1>z DEF Returns, At
<1>1. CASE \E t \in TokenIds : Connect(c, t)
  <2>1. PICK t \in TokenIds : sess' = [sess EXCEPT ![c].user = token[t]] /\ r.user = 0 /\ file' = file
    BY <1>1 DEF Connect, tables
  <2>2. r.op = "none"
    BY <1>r, <2>1 DEF SessionShape
  <2>3. sess'[c].op = r.op
    BY <1>d, <1>r, <2>1 DEF Session
  <2> QED
    BY <2>1, <2>2, <2>3 DEF Course
<1>2. CASE Disconnect(c)
  <2>1. sess'[c].op = "none" /\ file' = file
    BY <1>2, <1>d DEF Disconnect, NoSess, tables
  <2> QED
    BY <2>1 DEF Course
<1>3. CASE \E op \in {"read", "put", "patch"}, s \in Shares : Begin(c, op, s)
  <2>1. PICK op \in {"read", "put", "patch"}, s \in Shares : Begin(c, op, s)
    BY <1>3
  <2> DEFINE x == [r EXCEPT !.op = op, !.pc = "share", !.share = s]
  <2>2. sess' = [sess EXCEPT ![c] = x] /\ r.op = "none" /\ file' = file
    BY <2>1 DEF Begin, tables
  <2>3. x.op # "none" /\ x.pc = "share"
    BY <1>r DEF Session
  <2> HIDE DEF x
  <2>4. sess'[c] = x
    BY <1>d, <2>2
  <2> QED
    BY <2>2, <2>3, <2>4 DEF Course
<1>4. CASE r.op # "none" /\ FindShare(c)
  <2>1. r.pc = "share" /\ file' = file
    BY <1>4 DEF FindShare, tables
  <2>2. CASE r.share \in Shares
    <3> DEFINE x == [r EXCEPT !.pc = "grant", !.row = share[r.share]]
    <3>1. sess'[c] = x
      BY <1>4, <1>d, <2>2 DEF FindShare, At
    <3>2. x.op = r.op /\ x.share = r.share /\ x.pc = "grant" /\ x.row = share[r.share] /\ x.fs = r.fs
          /\ x.key = r.key
      BY <1>r DEF Session
    <3> HIDE DEF x
    <3> QED
      BY <1>4, <2>1, <2>2, <3>1, <3>2 DEF Course
  <2>3. CASE r.share \notin Shares
    BY <1>4, <1>y, <2>1, <2>3 DEF FindShare, Course
  <2> QED
    BY <2>2, <2>3
<1>5. CASE r.op # "none" /\ FindGrant(c)
  <2> DEFINE p == grant[r.share][r.user]
             fs == MountFor(r.user, r.share, r.row, p)
  <2>1. r.pc = "grant" /\ file' = file
    BY <1>5 DEF FindGrant, tables
  <2>2. \/ Returns(c)
        \/ r.op = "read" /\ At(c, [r EXCEPT !.pc = "read", !.fs = fs, !.row = Nil])
        \/ /\ r.op # "read" /\ (r.op = "patch" => file[r.share] # Nil)
           /\ At(c, Opened(r, fs)) /\ (fs.row.enc => HasKey(r.share))
    BY <1>5 DEF FindGrant, MayWrite
  <2>3. fs.row = r.row
    BY DEF MountFor, SameMount
  <2> HIDE DEF fs, p
  <2>4. CASE Returns(c)
    BY <1>y, <2>1, <2>4 DEF Course
  <2>5. CASE r.op = "read" /\ At(c, [r EXCEPT !.pc = "read", !.fs = fs, !.row = Nil])
    <3> DEFINE x == [r EXCEPT !.pc = "read", !.fs = fs, !.row = Nil]
    <3>1. sess'[c] = x
      BY <1>d, <2>5 DEF At
    <3>2. x.op = r.op /\ x.share = r.share /\ x.pc = "read"
      BY <1>r DEF Session
    <3> HIDE DEF x
    <3> QED
      BY <1>5, <2>1, <2>5, <3>1, <3>2 DEF Course
  <2>6. CASE /\ r.op # "read" /\ (r.op = "patch" => file[r.share] # Nil)
             /\ At(c, Opened(r, fs)) /\ (fs.row.enc => HasKey(r.share))
    <3> DEFINE q == IF r.op = "put" /\ file[r.share] = Nil THEN "create" ELSE "key"
               b == IF r.op = "patch" THEN file[r.share].slice ELSE <<>>
               x == [r EXCEPT !.fs = fs, !.row = Nil, !.pc = q, !.base = b]
    <3>1. sess'[c] = x
      BY <1>d, <2>6 DEF At, Opened
    <3>2. q \in {"create", "key"}
      OBVIOUS
    <3>3. \/ r.op # "patch" /\ b = <<>>
          \/ r.op = "patch" /\ file[r.share] # Nil /\ b = file[r.share].slice
      BY <2>6
    <3> HIDE DEF q, b
    <3>4. x.op = r.op /\ x.share = r.share /\ x.pc = q /\ x.fs = fs /\ x.base = b /\ x.key = r.key
      BY <1>r DEF Session
    <3> HIDE DEF x
    <3> QED
      BY <1>5, <2>1, <2>3, <2>6, <3>1, <3>2, <3>3, <3>4 DEF Course
  <2> QED
    BY <2>2, <2>4, <2>5, <2>6
<1>6. CASE r.op # "none" /\ ReadFile(c)
  BY <1>6, <1>y DEF ReadFile, Course, tables
<1>7. CASE r.op # "none" /\ CreateInode(c)
  <2> DEFINE x == [r EXCEPT !.pc = "key"]
  <2>1. r.pc = "create" /\ file' = [file EXCEPT ![r.share] = [comp |-> r.fs.row.comp, slice |-> <<>>]]
        /\ sess'[c] = x
    BY <1>7, <1>d DEF CreateInode, At
  <2>2. x.op = r.op /\ x.share = r.share /\ x.pc = "key" /\ x.fs = r.fs /\ x.base = r.base /\ x.key = r.key
    BY <1>r DEF Session
  <2> HIDE DEF x
  <2> QED
    BY <1>7, <2>1, <2>2 DEF Course
<1>8. CASE r.op # "none" /\ TakeKey(c)
  <2>1. r.pc = "key" /\ file' = file
    BY <1>8 DEF TakeKey, tables
  <2>2. CASE ~r.fs.row.enc
    <3> DEFINE x == [r EXCEPT !.pc = "store"]
    <3>1. sess'[c] = x
      BY <1>8, <1>d, <2>2 DEF TakeKey, At
    <3>2. x.op = r.op /\ x.share = r.share /\ x.pc = "store" /\ x.fs = r.fs /\ x.base = r.base /\ x.key = r.key
      BY <1>r DEF Session
    <3> HIDE DEF x
    <3> QED
      BY <1>8, <2>1, <2>2, <3>1, <3>2 DEF Course
  <2>3. CASE r.fs.row.enc /\ At(c, [r EXCEPT !.pc = "seal", !.key = "ring"])
    <3> DEFINE x == [r EXCEPT !.pc = "seal", !.key = "ring"]
    <3>1. sess'[c] = x
      BY <1>d, <2>3 DEF At
    <3>2. x.op = r.op /\ x.share = r.share /\ x.pc = "seal" /\ x.fs = r.fs /\ x.base = r.base /\ x.key = "ring"
      BY <1>r DEF Session
    <3> HIDE DEF x
    <3> QED
      BY <1>8, <2>1, <2>3, <3>1, <3>2 DEF Course
  <2>4. CASE Returns(c)
    BY <1>y, <2>1, <2>4 DEF Course
  <2> QED
    BY <1>8, <2>2, <2>3, <2>4 DEF TakeKey
<1>9. CASE r.op # "none" /\ SealSlice(c)
  <2> DEFINE k == IF r.key = "ring" THEN "key" ELSE r.key
             x == [r EXCEPT !.pc = "store", !.key = k]
  <2>1. r.pc = "seal" /\ sess'[c] = x /\ file' = file
    BY <1>9, <1>d DEF SealSlice, At, tables
  <2>2. x.op = r.op /\ x.share = r.share /\ x.pc = "store" /\ x.fs = r.fs /\ x.base = r.base /\ x.key = k
    BY <1>r DEF Session
  <2> HIDE DEF x
  <2> QED
    BY <1>9, <2>1, <2>2 DEF Course
<1>10. CASE Commit(c)
  BY <1>10, <1>y DEF Commit, Course
<1>11. CASE FailOperation(c)
  BY <1>11, <1>z DEF FailOperation, Course, tables
<1> QED
  BY <1>1, <1>2, <1>3, <1>4, <1>5, <1>6, <1>7, <1>8, <1>9, <1>10, <1>11 DEF Client
-----------------------------------------------------------------------------
(* Encodings.  What a write works with agrees with the share for as long   *)
(* as the share is there: the row it read, the ShareFS, the slices it      *)
(* inherits and the key it seals with.                                     *)
Alike(v, w) == v.enc = w.enc /\ v.comp = w.comp
Encoded(w)  == [comp |-> w.comp, seal |-> IF w.enc THEN "key" ELSE "plain"]
FileInv ==
    \A s \in Shares : file[s] # Nil =>
        /\ file[s].comp = share[s].comp
        /\ \A i \in DOMAIN file[s].slice : file[s].slice[i] = Encoded(share[s])
Writes(c, s) == sess[c].op # "read" /\ Working(c) /\ sess[c].share = s
Faithful(x, w) ==
    /\ x.pc = "grant" => Alike(x.row, w)
    /\ x.fs # Nil => Alike(x.fs.row, w)
    /\ x.pc \in {"create", "key", "seal", "store"} =>
            \A i \in DOMAIN x.base : x.base[i] = Encoded(w)
    /\ x.pc = "seal" => w.enc /\ x.key \in {"ring", "key"}
    /\ x.pc = "store" => x.key = Encoded(w).seal
WriteInv == \A c \in Clients, s \in Shares : Writes(c, s) => Faithful(sess[c], share[s])

(* What a step of a request does to a share that is there afterwards.      *)
LEMMA ShareKept ==
    ASSUME "codec" \notin Overlaps, Base, Allowed, NEW a \in Handlers, Continue(a),
           NEW s \in ShareIds, share'[s] # Nil
    PROVE  \/ share[s] # Nil /\ Alike(share'[s], share[s])
           \/ file[s] = Nil /\ \A c \in Clients : ~Writes(c, s)
<1>t. share \in [ShareIds -> ShareRow \cup {Nil}]
  BY DEF Base, Typed, TablesTyped
<1>1. CASE share' = share
  BY <1>1 DEF Alike
<1>2. CASE InsertShare(a)
  <2> DEFINE n == last.share + 1
  <2>1. n \in ShareIds /\ last.share \in Nat
    BY <1>2 DEF InsertShare, Base, Typed, TablesTyped
  <2>2. share' = [share EXCEPT ![n] = [enc |-> req[a].flag, keyed |-> FALSE, comp |-> "none"]]
    BY <1>2 DEF InsertShare
  <2>3. CASE s # n
    BY <1>t, <2>1, <2>2, <2>3 DEF Alike
  <2>4. CASE s = n
    <3>1. file[s] = Nil
      <4>1. ~(s <= last.share)
        BY <2>1, <2>4
      <4> QED
        BY <4>1 DEF Base, Typed, IdsGiven
    <3>2. \A c \in Clients : sess[c].share # s
      <4> SUFFICES ASSUME NEW c \in Clients
                   PROVE  sess[c].share # s
        OBVIOUS
      <4>1. sess[c].share <= last.share
        BY DEF Base, Typed, IdsGiven
      <4>2. ~(n <= last.share)
        BY <2>1
      <4> QED
        BY <2>4, <4>1, <4>2
    <3> QED
      BY <3>1, <3>2 DEF Writes
  <2> QED
    BY <2>3, <2>4
<1>3. CASE SetPassword(a)
  <2> DEFINE i == req[a].share
             row == [share[i] EXCEPT !.keyed = TRUE]
  <2>1. share' = IF i \in Shares THEN [share EXCEPT ![i] = row] ELSE share
    BY <1>3 DEF SetPassword
  <2>2. i \in Shares => row.enc = share[i].enc /\ row.comp = share[i].comp
    BY <1>t DEF Shares, ShareRow
  <2> HIDE DEF row
  <2> QED
    BY <1>t, <2>1, <2>2 DEF Shares, Alike
<1>4. CASE SetShare(a)
  <2>1. req[a].pc = "set"
    BY <1>4 DEF SetShare
  <2>2. file[req[a].share] = Nil /\ \A c \in Clients : ~Writes(c, req[a].share)
    BY <2>1 DEF Allowed, Writes
  <2>3. CASE s = req[a].share
    BY <2>2, <2>3
  <2>4. CASE s # req[a].share
    <3>1. share'[s] = share[s]
      BY <1>4, <1>t, <2>4 DEF SetShare
    <3> QED
      BY <3>1 DEF Alike
  <2> QED
    BY <2>3, <2>4
<1>5. CASE UndoShare(a) \/ DeleteShareMeta(a)
  <2>1. share' = [share EXCEPT ![req[a].share] = Nil]
    BY <1>5 DEF UndoShare, DeleteShareMeta
  <2>2. share'[s] = share[s]
    BY <1>t, <2>1
  <2> QED
    BY <2>2 DEF Alike
<1> QED
  BY <1>1, <1>2, <1>3, <1>4, <1>5, TableMoves

LEMMA EncodedAlike ==
    ASSUME NEW v, NEW w, Alike(v, w)
    PROVE  Encoded(v) = Encoded(w)
  BY DEF Alike, Encoded

LEMMA DecodeRequest ==
    ASSUME "codec" \notin Overlaps, "lock" \notin Overlaps, Base, Allowed, Allowed',
           FileInv, WriteInv, NEW a \in Handlers, Continue(a)
    PROVE  FileInv' /\ WriteInv'
<1>f. file \in [ShareIds -> Version \cup {Nil}]
  BY DEF Base, Typed, TablesTyped
<1>1. \A s \in ShareIds : file'[s] # Nil => file'[s] = file[s]
  <2>1. CASE file' = file
    BY <2>1
  <2>2. CASE PurgeShare(a)
    <3>1. file' = [file EXCEPT ![req[a].share] = Nil]
      BY <2>2 DEF PurgeShare
    <3> QED
      BY <1>f, <3>1
  <2> QED
    BY <2>1, <2>2, TableMoves
<1>2. FileInv'
  <2> SUFFICES ASSUME NEW s \in ShareIds, share'[s] # Nil, file'[s] # Nil
               PROVE  /\ file'[s].comp = share'[s].comp
                      /\ \A i \in DOMAIN file'[s].slice : file'[s].slice[i] = Encoded(share'[s])
    BY DEF FileInv, Shares, Encoded
  <2>1. file'[s] = file[s]
    BY <1>1
  <2>2. share[s] # Nil /\ Alike(share'[s], share[s])
    BY <2>1, ShareKept
  <2>3. Encoded(share'[s]) = Encoded(share[s])
    BY <2>2, EncodedAlike
  <2> QED
    BY <2>1, <2>2, <2>3 DEF FileInv, Shares, Alike
<1>3. WriteInv'
  <2> SUFFICES ASSUME NEW c \in Clients, NEW s \in ShareIds, share'[s] # Nil, Writes(c, s)'
               PROVE  Faithful(sess'[c], share'[s])
    BY DEF WriteInv, Shares, Faithful, Alike, Encoded
  <2> DEFINE r == sess[c]
             x == sess'[c]
             w == share[s]
             v == share'[s]
  <2>1. /\ x.op = r.op /\ x.pc = r.pc /\ x.user = r.user /\ x.share = r.share /\ x.row = r.row
        /\ x.fs = r.fs /\ x.base = r.base
        /\ x.key = r.key \/ (r.key = "ring" /\ x.key \in {"key", "zero"})
    BY RequestSessions
  <2>2. Writes(c, s)
    BY <2>1 DEF Writes, Working
  <2>3. w # Nil /\ Alike(v, w)
    BY <2>2, ShareKept
  <2>4. Encoded(v) = Encoded(w) /\ Faithful(r, w)
    BY <2>2, <2>3, EncodedAlike DEF WriteInv, Shares
  <2>5. x.key # "zero"
    BY DEF Allowed
  <2>6. r.pc = "store" => r.key # "ring"
    BY SessionFacts DEF SessionShape
  <2> HIDE DEF r, x, w, v
  <2>7. Faithful(x, v)
    BY <2>1, <2>3, <2>4, <2>5, <2>6 DEF Faithful, Alike
  <2> QED
    BY <2>7 DEF x, v
<1> QED
  BY <1>2, <1>3

LEMMA DecodeClient ==
    ASSUME Base, Allowed, Allowed', "lock" \notin Overlaps, FileInv, WriteInv,
           NEW c \in Clients, Client(c)
    PROVE  FileInv' /\ WriteInv'
<1> USE ConstantFacts
<1> DEFINE r == sess[c]
           x == sess'[c]
<1>f. file \in [ShareIds -> Version \cup {Nil}]
  BY DEF Base, Typed, TablesTyped
<1>r. r \in Session /\ SessionShape(r) /\ (r.op # "none" => r.share \in ShareIds)
  BY SessionFacts
<1>1. share' = share /\ \A d \in Clients : d # c => sess'[d] = sess[d]
  BY ClientMoves
<1>2. Course(c, r, x)
  BY ClientCourse
<1>w. ASSUME NEW s \in Shares, Writes(c, s)
      PROVE  Faithful(r, share[s])
  BY <1>w DEF WriteInv
<1>3. FileInv'
  <2>1. CASE file' = file
    BY <1>1, <2>1 DEF FileInv, Shares
  <2>o. ASSUME NEW s \in ShareIds, NEW v, file' = [file EXCEPT ![s] = v],
               s \in Shares => v.comp = share[s].comp /\ \A i \in DOMAIN v.slice : v.slice[i] = Encoded(share[s])
        PROVE  FileInv'
    <3> SUFFICES ASSUME NEW i \in Shares, file'[i] # Nil
                 PROVE  /\ file'[i].comp = share[i].comp
                        /\ \A j \in DOMAIN file'[i].slice : file'[i].slice[j] = Encoded(share[i])
      BY <1>1 DEF FileInv, Shares, Encoded
    <3>1. CASE i = s
      <4>1. file'[i] = v
        BY <1>f, <2>o, <3>1
      <4> QED
        BY <2>o, <3>1, <4>1
    <3>2. CASE i # s
      <4>1. file'[i] = file[i]
        BY <1>f, <2>o, <3>2 DEF Shares
      <4> QED
        BY <4>1 DEF FileInv
    <3> QED
      BY <3>1, <3>2
  <2>2. CASE /\ r.op # "none" /\ r.pc = "create"
             /\ file' = [file EXCEPT ![r.share] = [comp |-> r.fs.row.comp, slice |-> <<>>]]
    <3>1. r.fs # Nil /\ r.op # "read" /\ r.share \in ShareIds
      BY <1>r, <2>2 DEF SessionShape
    <3>2. r.share \in Shares => Alike(r.fs.row, share[r.share])
      BY <1>w, <2>2, <3>1 DEF Writes, Working, Faithful
    <3> DEFINE v == [comp |-> r.fs.row.comp, slice |-> <<>>]
    <3>3. v.comp = r.fs.row.comp /\ DOMAIN v.slice = {}
      OBVIOUS
    <3>4. file' = [file EXCEPT ![r.share] = v]
      BY <2>2
    <3> HIDE DEF v
    <3> QED
      BY <2>o, <3>1, <3>2, <3>3, <3>4 DEF Alike
  <2>3. CASE Commit(c)
    <3> DEFINE new == [comp |-> r.fs.row.comp, seal |-> r.key]
               wrote == IF r.op = "put" THEN 1..2 ELSE {1}
               sl == [i \in wrote \cup DOMAIN r.base |-> IF i \in wrote THEN new ELSE r.base[i]]
               v == [comp |-> r.fs.row.comp, slice |-> sl]
    <3>1. r.pc = "store" /\ file' = IF file[r.share] = Nil THEN file ELSE [file EXCEPT ![r.share] = v]
      BY <2>3 DEF Commit
    <3>2. r.fs # Nil /\ r.op \in {"put", "patch"} /\ r.share \in ShareIds
      BY <1>r, <3>1 DEF SessionShape
    <3>3. r.share \in Shares => /\ Alike(r.fs.row, share[r.share])
                                /\ \A i \in DOMAIN r.base : r.base[i] = Encoded(share[r.share])
                                /\ r.key = Encoded(share[r.share]).seal
      BY <1>w, <3>1, <3>2 DEF Writes, Working, Faithful
    <3>4. r.share \in Shares => new = Encoded(share[r.share])
      BY <3>3 DEF Encoded, Alike
    <3> HIDE DEF new, wrote
    <3>5. DOMAIN sl = wrote \cup DOMAIN r.base
          /\ \A i \in DOMAIN sl : sl[i] = new \/ (i \in DOMAIN r.base /\ sl[i] = r.base[i])
      OBVIOUS
    <3> HIDE DEF sl
    <3>6. v.comp = r.fs.row.comp /\ v.slice = sl
      OBVIOUS
    <3> HIDE DEF v
    <3>7. r.share \in Shares => v.comp = share[r.share].comp
             /\ \A i \in DOMAIN v.slice : v.slice[i] = Encoded(share[r.share])
      BY <3>3, <3>4, <3>5, <3>6 DEF Alike
    <3> QED
      BY <2>1, <2>o, <3>1, <3>2, <3>7
  <2> HIDE DEF r, x
  <2> QED
    BY <1>2, <2>1, <2>2, <2>3 DEF Course
<1>4. WriteInv'
  <2> SUFFICES ASSUME NEW d \in Clients, NEW s \in Shares, Writes(d, s)'
               PROVE  Faithful(sess'[d], share[s])
    BY <1>1 DEF WriteInv, Shares, Faithful, Alike, Encoded
  <2>1. CASE d # c
    <3>1. sess'[d] = sess[d]
      BY <1>1, <2>1
    <3> QED
      BY <3>1 DEF WriteInv, Writes, Working
  <2>2. CASE d = c
    <3> DEFINE w == share[s]
    <3> SUFFICES Faithful(x, w)
      BY <2>2
    <3>1. x.op # "read" /\ x.op # "none" /\ x.pc # "share" /\ x.share = s
      BY <2>2 DEF Writes, Working
    <3>2. r.op # "none" /\ x.op = r.op /\ r.share = s
      BY <1>2, <3>1 DEF Course
    <3>3. r.pc # "share" => Faithful(r, w)
      BY <1>w, <3>1, <3>2 DEF Writes, Working
    <3>4. SessionShape(r) /\ SessionShape(sess[c])'
      <4>1. Base'
        BY ClientTyped
      <4> QED
        BY <1>r, <4>1 DEF Base, Typed, SessionsTyped
    <3>5. x.fs # Nil <=> x.pc \in {"read", "create", "key", "seal", "store"}
      BY <3>4 DEF SessionShape
    <3>6. CASE /\ r.pc = "share" /\ x.pc = "grant" /\ x.row = share[r.share]
      BY <3>2, <3>5, <3>6 DEF Faithful, Alike
    <3>7. CASE /\ r.pc = "grant" /\ x.pc \in {"create", "key"} /\ x.fs.row = r.row
               /\ \/ r.op # "patch" /\ x.base = <<>>
                  \/ r.op = "patch" /\ file[r.share] # Nil /\ x.base = file[r.share].slice
      <4>1. Alike(x.fs.row, w)
        BY <3>3, <3>7 DEF Faithful
      <4>2. \A i \in DOMAIN x.base : x.base[i] = Encoded(w)
        <5>1. CASE x.base = <<>>
          <6>1. DOMAIN x.base = {}
            BY <5>1
          <6> QED
            BY <6>1
        <5>2. CASE file[r.share] # Nil /\ x.base = file[r.share].slice
          BY <3>2, <5>2 DEF FileInv
        <5> QED
          BY <3>7, <5>1, <5>2
      <4> HIDE DEF x, w
      <4> QED
        BY <3>7, <4>1, <4>2 DEF Faithful
    <3>8. CASE /\ r.pc = "create" /\ x.pc = "key" /\ x.fs = r.fs /\ x.base = r.base
      BY <3>3, <3>4, <3>8 DEF Faithful, SessionShape
    <3>9. CASE /\ r.pc = "key" /\ x.fs = r.fs /\ x.base = r.base
               /\ \/ ~r.fs.row.enc /\ x.pc = "store" /\ x.key = r.key
                  \/ r.fs.row.enc /\ x.pc = "seal" /\ x.key = "ring"
      <4>1. r.fs # Nil /\ r.key = "plain"
        BY <3>4, <3>9 DEF SessionShape
      <4>2. /\ Alike(r.fs.row, w) /\ \A i \in DOMAIN r.base : r.base[i] = Encoded(w)
        BY <3>3, <3>9, <4>1 DEF Faithful
      <4>3. w.enc = r.fs.row.enc
        BY <4>2 DEF Alike
      <4>4. Encoded(w).seal = IF w.enc THEN "key" ELSE "plain"
        BY DEF Encoded
      <4> HIDE DEF w, x, r
      <4> QED
        BY <3>9, <4>1, <4>2, <4>3, <4>4 DEF Faithful
    <3>10. CASE /\ r.pc = "seal" /\ x.pc = "store" /\ x.fs = r.fs /\ x.base = r.base
                /\ x.key = IF r.key = "ring" THEN "key" ELSE r.key
      <4>1. /\ r.fs # Nil
        BY <3>4, <3>10 DEF SessionShape
      <4>2. /\ Alike(r.fs.row, w) /\ \A i \in DOMAIN r.base : r.base[i] = Encoded(w)
            /\ w.enc /\ r.key \in {"ring", "key"}
        BY <3>3, <3>10, <4>1 DEF Faithful
      <4>3. Encoded(w).seal = "key"
        BY <4>2 DEF Encoded
      <4> HIDE DEF w, x, r
      <4> QED
        BY <3>10, <4>1, <4>2, <4>3 DEF Faithful
    <3> HIDE DEF x, r, w
    <3> QED
      BY <1>2, <3>1, <3>2, <3>6, <3>7, <3>8, <3>9, <3>10 DEF Course
  <2> QED
    BY <2>1, <2>2
<1> QED
  BY <1>3, <1>4

LEMMA DecodeStep ==
    ASSUME "codec" \notin Overlaps, "lock" \notin Overlaps, Base, Allowed, Allowed',
           FileInv, WriteInv, [Next]_vars
    PROVE  FileInv' /\ WriteInv'
<1>s. ASSUME share' = share, file' = file, sess' = sess
      PROVE  FileInv' /\ WriteInv'
  BY <1>s DEF FileInv, WriteInv, Shares, Writes, Working, Faithful, Alike, Encoded
<1>1. CASE UNCHANGED vars
  BY <1>1, <1>s DEF vars, tables
<1>2. ASSUME NEW a \in Handlers, Arrive(a)
      PROVE  FileInv' /\ WriteInv'
  BY <1>2, <1>s, ArriveBegins
<1>3. CASE Restart
  <2>1. share' = share /\ file' = file
    BY <1>3 DEF Restart, tables
  <2>2. \A c \in Clients : sess'[c].op = "none"
    BY <1>3 DEF Restart, NoSess
  <2>3. FileInv'
    BY <2>1 DEF FileInv, Shares
  <2>4. WriteInv'
    BY <2>2 DEF WriteInv, Writes, Working
  <2> QED
    BY <2>3, <2>4
<1>4. ASSUME NEW a \in Handlers, Continue(a)
      PROVE  FileInv' /\ WriteInv'
  BY <1>4, DecodeRequest
<1>5. ASSUME NEW c \in Clients, Client(c)
      PROVE  FileInv' /\ WriteInv'
  BY <1>5, DecodeClient
<1> QED
  BY <1>1, <1>2, <1>3, <1>4, <1>5 DEF Next

(* Whoever may read a file can, unless the compression of a share is       *)
(* changed under its files or its writers, or it is locked while a client  *)
(* holds the bytes of its key.  The deletion of a share does no harm here: *)
(* ids are not given again, so a late write never meets another share.     *)
THEOREM SlicesDecode ==
    ASSUME "codec" \notin Overlaps, "lock" \notin Overlaps
    PROVE  Spec => []SlicesDecodable
<1>1. Init => FileInv /\ WriteInv
  <2> SUFFICES ASSUME Init
               PROVE  FileInv /\ WriteInv
    OBVIOUS
  <2>1. PICK e \in Earlier : share = e.share /\ file = e.file
    BY DEF Init
  <2>2. Consistent(e)
    BY AccessAssumption
  <2>3. FileInv
    BY <2>1, <2>2 DEF Consistent, FileInv, Shares, Encoded
  <2>4. \A c \in Clients : sess[c].op = "none"
    BY DEF Init, NoSess
  <2> QED
    BY <2>3, <2>4 DEF WriteInv, Writes, Working
<1>2. FileInv /\ WriteInv /\ Base /\ Allowed /\ Allowed' /\ [Next]_vars => FileInv' /\ WriteInv'
  BY DecodeStep
<1>3. FileInv => SlicesDecodable
  <2>1. \A w : /\ Encoded(w).comp = w.comp
               /\ Encoded(w).seal = IF w.enc THEN "key" ELSE "plain"
    BY DEF Encoded
  <2> SUFFICES ASSUME FileInv, NEW s \in Shares, file[s] # Nil, NEW i \in DOMAIN file[s].slice
               PROVE  /\ file[s].slice[i].comp = file[s].comp
                      /\ file[s].slice[i].comp = share[s].comp
                      /\ file[s].slice[i].seal = IF share[s].enc THEN "key" ELSE "plain"
    BY DEF SlicesDecodable
  <2>2. file[s].comp = share[s].comp /\ file[s].slice[i] = Encoded(share[s])
    BY DEF FileInv
  <2> QED
    BY <2>1, <2>2
<1> QED
  BY <1>1, <1>2, <1>3, TypedSpec, AllowedSpec, PTL DEF Spec
-----------------------------------------------------------------------------
(* What belongs to a user or a share.  A share that is being used is there *)
(* and one that is being deleted is left alone by all others; a share that *)
(* is encrypted and has no check value yet holds nothing.                  *)
HalfMade(a) == req[a].op = "share" /\ req[a].pc \in {"own", "password", "undo grants", "undo share"}
Storing(c)  == sess[c].pc \in {"create", "key", "seal", "store"}
Owned ==
    /\ \A s \in ShareIds, u \in UserIds : grant[s][u] # Nil => s \in Shares /\ u \in Users
    /\ \A s \in ShareIds : file[s] # Nil => s \in Shares
    /\ \A s \in keyring : s \notin Shares =>
            \E a \in Handlers : req[a].op = "delete" /\ req[a].pc = "lock" /\ req[a].share = s
InUse ==
    /\ \A a \in Handlers : UsesShare(a) => req[a].share \in Shares
    /\ \A c \in Clients : Working(c) => sess[c].share \in Shares
    /\ \A c \in Clients : sess[c].pc = "grant" => sess[c].row.enc = share[sess[c].share].enc
Apart == \A a, b \in Handlers : a # b /\ Creating(a) /\ Creating(b) => req[a].share # req[b].share
Emptied ==
    /\ \A a \in Handlers : HalfMade(a) => ~share[req[a].share].keyed
    /\ \A a \in Handlers : req[a].pc = "undo share" => \A u \in UserIds : grant[req[a].share][u] = Nil
    /\ \A a \in Handlers : req[a].pc = "meta" => file[req[a].share] = Nil
    /\ \A s \in Shares : share[s].enc /\ ~share[s].keyed =>
            file[s] = Nil /\ \A c \in Clients : Storing(c) => sess[c].share # s
OutInv == Owned /\ InUse /\ Apart /\ Emptied

(* The rows of shares and of grants, statement by statement.               *)
LEMMA ShareRows ==
    ASSUME Base, NEW a \in Handlers, Continue(a), NEW s \in ShareIds
    PROVE  /\ share[s] # Nil /\ share'[s] = Nil =>
                (UndoShare(a) \/ DeleteShareMeta(a)) /\ req[a].share = s
           /\ share[s] = Nil /\ share'[s] # Nil =>
                InsertShare(a) /\ s = last.share + 1 /\ ~share'[s].keyed
           /\ share[s] # Nil /\ share'[s] # Nil =>
                /\ share'[s].enc = share[s].enc
                /\ share'[s].keyed = share[s].keyed \/
                        (SetPassword(a) /\ req[a].share = s /\ share'[s].keyed)
           /\ InsertShare(a) => share'[last.share + 1] # Nil /\ req'[a].share = last.share + 1
<1> USE ConstantFacts
<1>t. share \in [ShareIds -> ShareRow \cup {Nil}]
  BY DEF Base, Typed, TablesTyped
<1>1. ASSUME InsertShare(a)
      PROVE  /\ share[s] # Nil => share'[s] = share[s] \/ s = last.share + 1
             /\ share[s] = Nil /\ share'[s] # Nil => s = last.share + 1 /\ ~share'[s].keyed
             /\ share'[last.share + 1] # Nil /\ req'[a].share = last.share + 1
  <2> DEFINE n == last.share + 1
             row == [enc |-> req[a].flag, keyed |-> FALSE, comp |-> "none"]
  <2>1. n \in ShareIds /\ share' = [share EXCEPT ![n] = row]
    BY <1>1 DEF InsertShare
  <2>2. req[a] \in Request /\ req \in [Handlers -> Request]
    BY RequestFacts DEF Base, Typed, RequestsTyped
  <2>3. row \in ShareRow /\ ~row.keyed
    BY <2>2 DEF ShareRow, Request, Codec
  <2>4. req'[a].share = n
    <3> DEFINE x == [req[a] EXCEPT !.pc = "own", !.share = n]
    <3>1. req' = [req EXCEPT ![a] = x]
      BY <1>1, <2>2 DEF InsertShare
    <3>2. x.share = n
      BY <2>2 DEF Request
    <3> HIDE DEF x
    <3> QED
      BY <2>2, <3>1, <3>2
  <2> HIDE DEF n, row
  <2>5. share'[s] = IF s = n THEN row ELSE share[s]
    BY <1>t, <2>1
  <2>6. share'[n] = row
    BY <1>t, <2>1
  <2> QED
    BY <2>3, <2>4, <2>5, <2>6 DEF n
<1>2. InsertShare(a) => share[last.share + 1] = Nil
  <2> SUFFICES ASSUME InsertShare(a)
               PROVE  share[last.share + 1] = Nil
    OBVIOUS
  <2>1. last.share \in Nat /\ last.share + 1 \in ShareIds
    BY DEF InsertShare, Base, Typed, TablesTyped
  <2>2. ~(last.share + 1 <= last.share)
    BY <2>1
  <2> QED
    BY <2>1, <2>2 DEF Base, Typed, IdsGiven
<1>3. CASE InsertShare(a)
  BY <1>1, <1>2, <1>3
<1>4. ASSUME SetPassword(a)
      PROVE  /\ share[s] = Nil <=> share'[s] = Nil
             /\ share[s] # Nil => share'[s].enc = share[s].enc
             /\ share[s] # Nil => share'[s].keyed = share[s].keyed \/ (req[a].share = s /\ share'[s].keyed)
  <2> DEFINE i == req[a].share
             row == [share[i] EXCEPT !.keyed = TRUE]
  <2>1. share' = IF i \in Shares THEN [share EXCEPT ![i] = row] ELSE share
    BY <1>4 DEF SetPassword
  <2>2. i \in Shares => row \in ShareRow /\ row.enc = share[i].enc /\ row.keyed
    BY <1>t DEF Shares, ShareRow
  <2> HIDE DEF row
  <2> QED
    BY <1>t, <2>1, <2>2 DEF Shares
<1>5. ASSUME SetShare(a)
      PROVE  /\ share[s] = Nil <=> share'[s] = Nil
             /\ share[s] # Nil => share'[s].enc = share[s].enc /\ share'[s].keyed = share[s].keyed
  <2> DEFINE i == req[a].share
             row == [share[i] EXCEPT !.comp = req[a].what]
  <2>1. share' = IF i \in Shares THEN [share EXCEPT ![i] = row] ELSE share
    BY <1>5 DEF SetShare
  <2>2. req[a].what \in Codec
    BY <1>5, RequestFacts DEF SetShare, Base, RequestShape
  <2>3. i \in Shares => row \in ShareRow /\ row.enc = share[i].enc /\ row.keyed = share[i].keyed
    BY <1>t, <2>2 DEF Shares, ShareRow
  <2> HIDE DEF row
  <2> QED
    BY <1>t, <2>1, <2>3 DEF Shares
<1>6. ASSUME UndoShare(a) \/ DeleteShareMeta(a)
      PROVE  share'[s] = share[s] \/ (s = req[a].share /\ share'[s] = Nil)
  <2>1. share' = [share EXCEPT ![req[a].share] = Nil]
    BY <1>6 DEF UndoShare, DeleteShareMeta
  <2> QED
    BY <1>t, <2>1
<1>7. ~(InsertShare(a) /\ (share' = share \/ SetPassword(a) \/ SetShare(a) \/ UndoShare(a) \/ DeleteShareMeta(a)))
  <2>1. InsertShare(a) => req[a].pc = "row" /\ share' # share
    BY <1>1, <1>2 DEF InsertShare
  <2> QED
    BY <2>1 DEF SetPassword, SetShare, UndoShare, DeleteShareMeta
<1>8. CASE share' = share \/ SetPassword(a) \/ SetShare(a) \/ UndoShare(a) \/ DeleteShareMeta(a)
  BY <1>4, <1>5, <1>6, <1>7, <1>8
<1> QED
  BY <1>3, <1>8, TableMoves

LEMMA GrantRows ==
    ASSUME Base, NEW a \in Handlers, Continue(a), NEW s \in ShareIds, NEW u \in UserIds,
           grant'[s][u] # Nil
    PROVE  /\ \/ grant[s][u] # Nil /\ grant'[s][u] = grant[s][u]
              \/ GrantCreator(a) /\ s = req[a].share /\ u = req[a].me
              \/ PutGrant(a) /\ s = req[a].share /\ u = req[a].user
           /\ DropUser(a) => u # req[a].user \/ u \notin Users
           /\ DeleteShareMeta(a) \/ UndoGrants(a) => s # req[a].share
<1> USE ConstantFacts
<1>t. TablesTyped /\ grant \in [ShareIds -> [UserIds -> Perm \cup {Nil}]]
  BY DEF Base, Typed, TablesTyped
<1>1. CASE DropUser(a)
  <2>1. \/ grant' = [i \in ShareIds |-> [grant[i] EXCEPT ![req[a].user] = Nil]]
        \/ grant' = grant /\ req[a].user \notin Users
    BY <1>1 DEF DropUser
  <2>2. (u # req[a].user \/ u \notin Users) /\ grant'[s][u] = grant[s][u]
    BY <1>t, <2>1
  <2>3. req[a].pc = "drop user"
    BY <1>1 DEF DropUser
  <2> QED
    BY <2>2, <2>3 DEF DeleteShareMeta, UndoGrants
<1>g. ASSUME NEW v \in 0..MaxUser, NEW i \in 0..MaxShare, NEW p, grant' = [grant EXCEPT ![i][v] = p]
      PROVE  (s = i /\ u = v /\ grant'[s][u] = p) \/ grant'[s][u] = grant[s][u]
  BY <1>t, <1>g
<1>r. req[a].share \in 0..MaxShare /\ req[a].me \in 0..MaxUser /\ req[a].user \in 0..MaxUser
  BY RequestFacts DEF Base, Request
<1>2. CASE GrantCreator(a)
  <2>1. grant' = [grant EXCEPT ![req[a].share][req[a].me] = "admin"] /\ req[a].pc = "own"
    BY <1>2 DEF GrantCreator
  <2> QED
    BY <1>2, <1>g, <1>r, <2>1 DEF DropUser, DeleteShareMeta, UndoGrants
<1>3. CASE PutGrant(a)
  <2>1. grant' = [grant EXCEPT ![req[a].share][req[a].user] = req[a].what] /\ req[a].pc = "put grant"
    BY <1>3 DEF PutGrant
  <2> QED
    BY <1>3, <1>g, <1>r, <2>1 DEF DropUser, DeleteShareMeta, UndoGrants
<1>4. CASE DropGrant(a)
  <2>1. grant' = [grant EXCEPT ![req[a].share][req[a].user] = Nil] /\ req[a].pc = "revoke"
    BY <1>4 DEF DropGrant
  <2> QED
    BY <1>4, <1>g, <1>r, <2>1 DEF DropUser, DeleteShareMeta, UndoGrants
<1>5. CASE UndoGrants(a) \/ DeleteShareMeta(a)
  <2>1. grant' = [grant EXCEPT ![req[a].share] = [v \in UserIds |-> Nil]]
    BY <1>5 DEF UndoGrants, DeleteShareMeta
  <2>2. s # req[a].share /\ grant'[s][u] = grant[s][u]
    BY <1>t, <2>1
  <2> QED
    BY <1>5, <2>2 DEF DropUser, UndoGrants, DeleteShareMeta
<1>6. CASE grant' = grant /\ ~DropUser(a) /\ ~DeleteShareMeta(a) /\ ~UndoGrants(a)
  BY <1>6
<1> QED
  BY <1>1, <1>2, <1>3, <1>4, <1>5, <1>6, TableMoves

(* Who creates a share has created it before, and where he stands.         *)
LEMMA CreatingMoves ==
    ASSUME Base, Base', NEW a \in Handlers, Continue(a), NEW b \in Handlers, Creating(b)'
    PROVE  /\ \/ b = a /\ InsertShare(a) /\ req'[b].share = last.share + 1 /\ req'[b].pc = "own"
              \/ Creating(b) /\ req'[b].share = req[b].share /\ ~(b = a /\ InsertShare(a))
           /\ ~UndoShare(b) \/ b # a
           /\ HalfMade(b)' => (b = a /\ InsertShare(a)) \/ (HalfMade(b) /\ ~(b = a /\ SetPassword(a)))
           /\ req'[b].pc = "undo share" => (b = a /\ UndoGrants(a)) \/ (b # a /\ req[b].pc = "undo share")
<1>1. CASE b # a
  <2>1. req'[b] = req[b]
    BY <1>1, ContinueMoves
  <2> QED
    BY <1>1, <2>1 DEF Creating, HalfMade
<1>2. CASE b = a
  <2>1. req'[a] # NoReq /\ req'[a].op = "share" /\ req'[a].pc # "row"
    BY <1>2, NoReqTyped DEF Creating
  <2>2. /\ req'[a].op = req[a].op
        /\ InsertShare(a) \/ req'[a].share = req[a].share
        /\ req'[a].pc = "own" => InsertShare(a)
        /\ req'[a].pc = "password" => GrantCreator(a)
        /\ req'[a].pc = "undo grants" => SetPasswordFails(a)
        /\ req'[a].pc = "undo share" => UndoGrants(a)
        /\ req'[a].pc = "get" => SetPassword(a)
        /\ req'[a].pc = "unlock" => GetShare(a)
    BY <2>1, ContinueMoves
  <2>3. req'[a].pc \in {"own", "password", "get", "unlock", "undo grants", "undo share"}
    <3>1. RequestShape(req[a])' /\ req'[a] \in Request
      BY DEF Base, Typed, RequestsTyped
    <3> QED
      BY <2>1, <3>1 DEF RequestShape
  <2>4. /\ InsertShare(a) => req[a].pc = "row" /\ req'[a].pc = "own"
        /\ GrantCreator(a) => req[a].pc = "own"
        /\ SetPassword(a) => req[a].pc = "password"
        /\ SetPasswordFails(a) => req[a].pc = "password"
        /\ UndoGrants(a) => req[a].pc = "undo grants"
        /\ GetShare(a) => req[a].pc = "get"
    <3>1. InsertShare(a) => req'[a].pc = "own"
      <4>1. InsertShare(a) => req' = [req EXCEPT ![a] = [req[a] EXCEPT !.pc = "own", !.share = last.share + 1]]
        BY DEF InsertShare, Base, Typed, RequestsTyped
      <4>2. req[a] \in Request /\ a \in DOMAIN req
        BY DEF Base, Typed, RequestsTyped
      <4>3. [req[a] EXCEPT !.pc = "own", !.share = last.share + 1].pc = "own"
        BY <4>2 DEF Request
      <4> QED
        BY <4>1, <4>2, <4>3
    <3> QED
      BY <3>1 DEF InsertShare, GrantCreator, SetPassword, SetPasswordFails, UndoGrants, GetShare
  <2>5. ~UndoShare(a)
    <3>1. UndoShare(a) => req'[a] = NoReq
      BY DEF UndoShare, Answer, Base, Typed, RequestsTyped
    <3> QED
      BY <2>1, <3>1
  <2>6. InsertShare(a) => req'[a].share = last.share + 1
    <3>1. InsertShare(a) => last.share + 1 \in ShareIds
      BY DEF InsertShare
    <3> QED
      BY <3>1, ShareRows
  <2>7. SetPassword(a) => req'[a].pc = "get"
    <3>1. SetPassword(a) => GoTo(a, "get")
      BY DEF SetPassword
    <3>2. req[a] \in Request /\ a \in DOMAIN req
      BY DEF Base, Typed, RequestsTyped
    <3>3. [req[a] EXCEPT !.pc = "get"].pc = "get"
      BY <3>2 DEF Request
    <3>4. GoTo(a, "get") => req'[a] = [req[a] EXCEPT !.pc = "get"]
      BY <3>2 DEF GoTo
    <3> QED
      BY <3>1, <3>3, <3>4
  <2> QED
    BY <1>2, <2>1, <2>2, <2>3, <2>4, <2>5, <2>6, <2>7 DEF Creating, HalfMade
<1> QED
  BY <1>1, <1>2

(* A share that goes was left alone by all others.                         *)
LEMMA ShareLeft ==
    ASSUME "share" \notin Overlaps, Base, Allowed, NEW a \in Handlers, Continue(a),
           NEW s \in ShareIds, share[s] # Nil, share'[s] = Nil
    PROVE  /\ \A b \in Handlers : b # a /\ UsesShare(b) => req[b].share # s
           /\ \A c \in Clients : Working(c) => sess[c].share # s
           /\ req'[a] = NoReq \/ ~UsesShare(a)'
<1>1. (UndoShare(a) \/ DeleteShareMeta(a)) /\ req[a].share = s
  BY ShareRows
<1>2. Deleting(a)
  <2>1. RequestShape(req[a])
    BY RequestFacts DEF Base
  <2> QED
    BY <1>1, <2>1 DEF UndoShare, DeleteShareMeta, Deleting, RequestShape
<1>3. UndoShare(a) => req'[a] = NoReq
  BY DEF UndoShare, Answer, Base, Typed, RequestsTyped
<1>4. DeleteShareMeta(a) => req'[a].op = "delete" /\ req'[a].pc = "lock"
  <2> SUFFICES ASSUME DeleteShareMeta(a)
               PROVE  req'[a].op = "delete" /\ req'[a].pc = "lock"
    OBVIOUS
  <2>1. GoTo(a, "lock") /\ req[a].pc = "meta"
    BY DEF DeleteShareMeta
  <2>2. req[a] \in Request /\ a \in DOMAIN req /\ RequestShape(req[a])
    BY DEF Base, Typed, RequestsTyped
  <2>3. [req[a] EXCEPT !.pc = "lock"].pc = "lock" /\ [req[a] EXCEPT !.pc = "lock"].op = req[a].op
    BY <2>2 DEF Request
  <2>4. req'[a] = [req[a] EXCEPT !.pc = "lock"]
    BY <2>1, <2>2 DEF GoTo
  <2> QED
    BY <2>1, <2>2, <2>3, <2>4 DEF RequestShape
<1> QED
  BY <1>1, <1>2, <1>3, <1>4 DEF Allowed, UsesShare, Creating

LEMMA InUseRequest ==
    ASSUME "share" \notin Overlaps, Base, Base', Allowed, InUse, NEW a \in Handlers, Continue(a)
    PROVE  InUse'
<1>1. ASSUME NEW b \in Handlers, UsesShare(b)'
      PROVE  req'[b].share \in Shares'
  <2>0. req'[b].share \in ShareIds
    <3>1. RequestShape(req[b])' /\ req'[b] \in Request
      BY DEF Base, Typed, RequestsTyped
    <3>2. req'[b].pc \in OnShare
      BY <1>1, <3>1 DEF RequestShape, UsesShare, Creating, OnShare
    <3>3. req'[b].share # 0 /\ req'[b].share \in 0..MaxShare
      BY <3>1, <3>2 DEF RequestShape, Request
    <3> QED
      BY <3>3, ConstantFacts DEF ShareIds
  <2>k. ASSUME req[b].share \in Shares, req'[b].share = req[b].share, b = a \/ UsesShare(b)
        PROVE  req'[b].share \in Shares'
    <3> SUFFICES ASSUME share'[req[b].share] = Nil
                 PROVE  FALSE
      BY <2>0, <2>k DEF Shares
    <3>1. b = a
      BY <2>0, <2>k, ShareLeft DEF Shares
    <3>2. UsesShare(a)' => req'[a] # NoReq
      BY NoReqTyped DEF UsesShare, Creating
    <3> QED
      BY <1>1, <2>0, <2>k, <3>1, <3>2, ShareLeft DEF Shares
  <2>1. CASE b # a
    <3>1. req'[b] = req[b]
      BY <2>1, ContinueMoves
    <3>2. UsesShare(b)
      BY <1>1, <3>1 DEF UsesShare, Creating
    <3> QED
      BY <2>k, <3>1, <3>2 DEF InUse
  <2>2. CASE b = a
    <3>1. req'[a] # NoReq
      BY <1>1, <2>2, NoReqTyped DEF UsesShare, Creating
    <3>2. CASE Creating(a)'
      <4>1. CASE InsertShare(a)
        <5>1. last.share + 1 \in ShareIds
          BY <4>1 DEF InsertShare
        <5> QED
          BY <2>2, <4>1, <5>1, ShareRows DEF Shares
      <4>2. CASE Creating(a) /\ req'[a].share = req[a].share
        BY <2>2, <2>k, <4>2 DEF InUse, UsesShare
      <4> QED
        BY <3>2, <4>1, <4>2, CreatingMoves
    <3>3. CASE ~Creating(a)'
      <4>1. req'[a].pc \in {"get user", "put grant", "set", "unlock"}
        BY <1>1, <2>2, <3>3 DEF UsesShare
      <4>2. /\ req'[a].op = req[a].op
            /\ InsertShare(a) \/ req'[a].share = req[a].share
            /\ req'[a].pc = "get user" => GetShare(a) /\ req[a].share \in Shares
            /\ req'[a].pc = "set" => GetShare(a) /\ req[a].share \in Shares
            /\ req'[a].pc = "unlock" => GetShare(a) /\ req[a].share \in Shares
            /\ req'[a].pc = "put grant" => GetUser(a) /\ req[a].user \in Users
        BY <3>1, ContinueMoves
      <4>3. GetUser(a) => UsesShare(a)
        BY DEF GetUser, UsesShare
      <4>4. req[a].share \in Shares
        BY <4>1, <4>2, <4>3 DEF InUse
      <4>5. ~InsertShare(a)
        BY <4>1, <4>2 DEF InsertShare, GetShare, GetUser
      <4> QED
        BY <2>2, <2>k, <4>2, <4>4, <4>5
    <3> QED
      BY <3>2, <3>3
  <2> QED
    BY <2>1, <2>2
<1>2. ASSUME NEW c \in Clients
      PROVE  /\ sess'[c].op = sess[c].op /\ sess'[c].pc = sess[c].pc /\ sess'[c].share = sess[c].share
             /\ sess'[c].row = sess[c].row
  BY RequestSessions
<1>3. ASSUME NEW c \in Clients, Working(c)
      PROVE  sess[c].share \in Shares /\ sess[c].share \in Shares'
  BY <1>3, ShareLeft DEF InUse, Shares
<1>4. ASSUME NEW c \in Clients, sess'[c].pc = "grant"
      PROVE  sess'[c].row.enc = share'[sess'[c].share].enc
  <2>1. SessionShape(sess[c])
    BY SessionFacts
  <2>2. Working(c) /\ sess[c].pc = "grant"
    BY <1>2, <1>4, <2>1 DEF SessionShape, Working
  <2>3. sess[c].share \in ShareIds /\ share[sess[c].share] # Nil /\ share'[sess[c].share] # Nil
    BY <1>3, <2>2 DEF Shares
  <2>4. share'[sess[c].share].enc = share[sess[c].share].enc
    BY <2>3, ShareRows
  <2> QED
    BY <1>2, <2>2, <2>4 DEF InUse
<1>5. \A c \in Clients : Working(c)' => sess'[c].share \in Shares'
  BY <1>2, <1>3 DEF Working
<1> QED
  BY <1>1, <1>4, <1>5 DEF InUse

LEMMA ApartRequest ==
    ASSUME Base, Base', Apart, NEW a \in Handlers, Continue(a)
    PROVE  Apart'
<1> SUFFICES ASSUME NEW b \in Handlers, NEW d \in Handlers, b # d, Creating(b)', Creating(d)'
             PROVE  req'[b].share # req'[d].share
  BY DEF Apart, Creating
<1>1. ASSUME NEW e \in Handlers, Creating(e)
      PROVE  req[e].share \in Nat /\ req[e].share <= last.share
  <2>1. req[e].pc \in OnShare /\ req[e].share \in 0..MaxShare
    BY <1>1, RequestFacts DEF Base, Creating, RequestShape, OnShare, Request
  <2> QED
    BY <2>1, ConstantFacts DEF Base, Typed, IdsGiven
<1>2. last.share \in Nat
  BY DEF Base, Typed, TablesTyped
<1>3. \A i \in Nat : i <= last.share => i # last.share + 1
  BY <1>2
<1>4. /\ \/ b = a /\ InsertShare(a) /\ req'[b].share = last.share + 1
         \/ Creating(b) /\ req'[b].share = req[b].share /\ ~(b = a /\ InsertShare(a))
      /\ \/ d = a /\ InsertShare(a) /\ req'[d].share = last.share + 1
         \/ Creating(d) /\ req'[d].share = req[d].share /\ ~(d = a /\ InsertShare(a))
  BY CreatingMoves
<1> QED
  BY <1>1, <1>3, <1>4 DEF Apart

LEMMA HalfMadeFacts ==
    ASSUME Base, InUse, Emptied, NEW a \in Handlers, HalfMade(a)
    PROVE  /\ Creating(a) /\ req[a].share \in Shares /\ ~share[req[a].share].keyed
           /\ req[a].flag => share[req[a].share].enc
<1>1. Creating(a)
  BY DEF HalfMade, Creating
<1>2. req[a].share \in Shares
  BY <1>1 DEF InUse, UsesShare
<1> QED
  BY <1>1, <1>2 DEF Emptied, Base, Typed, Checked

LEMMA EmptiedRequest ==
    ASSUME "share" \notin Overlaps, Base, Base', Allowed, Owned, InUse, InUse', Apart, Emptied,
           NEW a \in Handlers, Continue(a)
    PROVE  Emptied'
<1>f. file \in [ShareIds -> Version \cup {Nil}] /\ file' \in [ShareIds -> Version \cup {Nil}]
  BY DEF Base, Typed, TablesTyped
<1>p. \A s \in ShareIds : file[s] = Nil => file'[s] = Nil
  <2>1. CASE file' = file
    BY <2>1
  <2>2. CASE PurgeShare(a)
    <3>1. file' = [file EXCEPT ![req[a].share] = Nil]
      BY <2>2 DEF PurgeShare
    <3> QED
      BY <1>f, <3>1
  <2> QED
    BY <2>1, <2>2, TableMoves
<1>1. ASSUME NEW b \in Handlers, HalfMade(b)'
      PROVE  ~share'[req'[b].share].keyed
  <2>1. Creating(b)'
    BY <1>1 DEF HalfMade, Creating
  <2>2. CASE b = a /\ InsertShare(a)
    <3>1. last.share + 1 \in ShareIds
      BY <2>2 DEF InsertShare
    <3>2. share[last.share + 1] = Nil
      <4>1. last.share \in Nat
        BY DEF Base, Typed, TablesTyped
      <4>2. ~(last.share + 1 <= last.share)
        BY <4>1
      <4> QED
        BY <3>1, <4>2 DEF Base, Typed, IdsGiven
    <3> QED
      BY <2>2, <3>1, <3>2, ShareRows
  <2>3. CASE HalfMade(b) /\ ~(b = a /\ SetPassword(a)) /\ ~(b = a /\ InsertShare(a))
    <3>1. Creating(b) /\ req[b].share \in Shares /\ ~share[req[b].share].keyed
      BY <2>3, HalfMadeFacts
    <3>2. req'[b].share = req[b].share
      BY <2>1, <2>3, CreatingMoves
    <3>3. req'[b].share \in Shares'
      BY <2>1 DEF InUse, UsesShare
    <3>4. CASE SetPassword(a) /\ req[a].share = req[b].share
      <4>1. HalfMade(a)
        <5>1. req[a].pc = "password"
          BY <3>4 DEF SetPassword
        <5> QED
          BY <5>1, RequestFacts DEF Base, RequestShape, HalfMade
      <4> QED
        BY <2>3, <3>1, <3>4, <4>1 DEF Apart, HalfMade, Creating
    <3>5. CASE ~(SetPassword(a) /\ req[a].share = req[b].share)
      BY <3>1, <3>2, <3>3, <3>5, ShareRows DEF Shares
    <3> QED
      BY <3>4, <3>5
  <2> QED
    BY <1>1, <2>1, <2>2, <2>3, CreatingMoves
<1>2. ASSUME NEW b \in Handlers, req'[b].pc = "undo share", NEW u \in UserIds
      PROVE  grant'[req'[b].share][u] = Nil
  <2>1. Creating(b)'
    <3>1. RequestShape(req[b])'
      BY DEF Base, Typed, RequestsTyped
    <3> QED
      BY <1>2, <3>1 DEF RequestShape, Creating
  <2>2. req'[b].share \in Shares' /\ req'[b].share \in ShareIds
    BY <2>1 DEF InUse, UsesShare, Shares
  <2> SUFFICES ASSUME grant'[req'[b].share][u] # Nil
               PROVE  FALSE
    OBVIOUS
  <2>3. Creating(b) /\ req'[b].share = req[b].share
    BY <1>2, <2>1, CreatingMoves
  <2>4. CASE b = a /\ UndoGrants(a)
    BY <2>2, <2>3, <2>4, GrantRows
  <2>5. CASE b # a /\ req[b].pc = "undo share"
    <3>1. grant[req[b].share][u] = Nil
      BY <2>5 DEF Emptied
    <3>2. (GrantCreator(a) \/ PutGrant(a)) /\ req[a].share = req[b].share
      BY <2>2, <2>3, <3>1, GrantRows
    <3>3. GrantCreator(a) => UsesShare(a)
      <4>1. GrantCreator(a) => req[a].pc = "own"
        BY DEF GrantCreator
      <4>2. RequestShape(req[a])
        BY RequestFacts DEF Base
      <4> QED
        BY <4>1, <4>2 DEF RequestShape, UsesShare, Creating
    <3>4. PutGrant(a) => UsesShare(a)
      BY DEF PutGrant, UsesShare
    <3>5. Deleting(b)
      BY <2>5 DEF Deleting
    <3> QED
      BY <2>5, <3>2, <3>3, <3>4, <3>5 DEF Allowed
  <2> QED
    BY <1>2, <2>1, <2>4, <2>5, CreatingMoves
<1>3. ASSUME NEW b \in Handlers, req'[b].pc = "meta"
      PROVE  file'[req'[b].share] = Nil
  <2>1. req'[b].share \in ShareIds
    <3>1. RequestShape(req[b])' /\ req'[b].share \in 0..MaxShare
      BY DEF Base, Typed, RequestsTyped, Request
    <3>2. req'[b].share # 0
      BY <1>3, <3>1 DEF RequestShape, OnShare
    <3> QED
      BY <3>1, <3>2, ConstantFacts DEF ShareIds
  <2>2. CASE b # a
    <3>1. req'[b] = req[b]
      BY <2>2, ContinueMoves
    <3> QED
      BY <1>3, <1>p, <2>1, <3>1 DEF Emptied
  <2>3. CASE b = a
    <3>1. req'[a] # NoReq
      BY <1>3, <2>3, NoReqTyped DEF OnShare
    <3>2. PurgeShare(a) /\ (InsertShare(a) \/ req'[a].share = req[a].share)
      BY <1>3, <2>3, <3>1, ContinueMoves
    <3>3. req'[a].share = req[a].share /\ file' = [file EXCEPT ![req[a].share] = Nil]
      BY <3>2 DEF PurgeShare, InsertShare
    <3> QED
      BY <1>f, <2>1, <2>3, <3>3
  <2> QED
    BY <2>2, <2>3
<1>4. ASSUME NEW s \in ShareIds, share'[s] # Nil, share'[s].enc, ~share'[s].keyed
      PROVE  file'[s] = Nil /\ \A c \in Clients : Storing(c)' => sess'[c].share # s
  <2>1. \A c \in Clients : Storing(c)' => Storing(c) /\ sess'[c].share = sess[c].share
    BY RequestSessions DEF Storing
  <2>2. \A c \in Clients : Storing(c) => Working(c)
    <3> SUFFICES ASSUME NEW c \in Clients, Storing(c)
                 PROVE  Working(c)
      OBVIOUS
    <3>1. SessionShape(sess[c])
      BY SessionFacts
    <3> QED
      BY <3>1 DEF SessionShape, Storing, Working
  <2>3. CASE share[s] = Nil
    <3>1. file[s] = Nil
      BY <2>3 DEF Owned, Shares
    <3>2. \A c \in Clients : Storing(c) => sess[c].share # s
      BY <2>2, <2>3 DEF InUse, Shares
    <3> QED
      BY <1>p, <2>1, <3>1, <3>2
  <2>4. CASE share[s] # Nil
    <3>1. share[s].enc /\ ~share[s].keyed
      BY <1>4, <2>4, ShareRows
    <3>2. file[s] = Nil /\ \A c \in Clients : Storing(c) => sess[c].share # s
      BY <2>4, <3>1 DEF Emptied, Shares
    <3> QED
      BY <1>p, <2>1, <3>2
  <2> QED
    BY <2>3, <2>4
<1>5. \A b \in Handlers : HalfMade(b)' => ~share'[req'[b].share].keyed
  BY <1>1
<1> QED
  BY <1>2, <1>3, <1>4, <1>5 DEF Emptied, Shares

LEMMA OwnedRequest ==
    ASSUME "share" \notin Overlaps, "user" \notin Overlaps,
           Base, Base', Allowed, Owned, InUse, Emptied, NEW a \in Handlers, Continue(a)
    PROVE  Owned'
<1>r. req[a] \in Request /\ RequestShape(req[a])
  BY RequestFacts DEF Base
<1>u. ASSUME NEW s \in ShareIds, share[s] # Nil, share'[s] = Nil
      PROVE  /\ s = req[a].share
             /\ \/ UndoShare(a) /\ share[s].enc /\ ~share[s].keyed
                \/ DeleteShareMeta(a) /\ req[a].op = "delete"
  <2>1. (UndoShare(a) \/ DeleteShareMeta(a)) /\ req[a].share = s
    BY <1>u, ShareRows
  <2>2. CASE UndoShare(a)
    <3>1. HalfMade(a) /\ req[a].flag
      BY <1>r, <2>2 DEF UndoShare, RequestShape, HalfMade
    <3> QED
      BY <2>1, <2>2, <3>1, HalfMadeFacts
  <2>3. CASE DeleteShareMeta(a)
    BY <1>r, <2>1, <2>3 DEF DeleteShareMeta, RequestShape
  <2> QED
    BY <2>1, <2>2, <2>3
<1>1. ASSUME NEW s \in ShareIds, NEW u \in UserIds, grant'[s][u] # Nil
      PROVE  share'[s] # Nil /\ user'[u] # Nil
  <2>1. CASE grant[s][u] # Nil /\ grant'[s][u] = grant[s][u]
    <3>1. share[s] # Nil /\ u \in Users
      BY <2>1 DEF Owned, Shares
    <3>2. share'[s] # Nil
      <4> SUFFICES ASSUME share'[s] = Nil
                   PROVE  FALSE
        OBVIOUS
      <4>1. CASE UndoShare(a) /\ s = req[a].share
        BY <2>1, <4>1 DEF UndoShare, Emptied
      <4>2. CASE DeleteShareMeta(a) /\ s = req[a].share
        BY <1>1, <4>2, GrantRows
      <4> QED
        BY <1>u, <3>1, <4>1, <4>2
    <3>3. u \in Users'
      <4>1. CASE user' = user
        BY <3>1, <4>1 DEF Users
      <4>2. CASE InsertUser(a) \/ UpdateUser(a)
        BY <3>1, <4>2, UserRows
      <4>3. CASE DropUser(a)
        <5>1. u # req[a].user
          BY <1>1, <3>1, <4>3, GrantRows
        <5> QED
          BY <3>1, <4>3, <5>1, UserRows
      <4> QED
        BY <4>1, <4>2, <4>3, TableMoves
    <3> QED
      BY <3>2, <3>3 DEF Users
  <2>2. CASE GrantCreator(a) /\ s = req[a].share /\ u = req[a].me
    <3>1. share' = share /\ user' = user /\ req[a].pc = "own"
      BY <2>2 DEF GrantCreator
    <3>2. UsesShare(a) /\ req[a].me # 0
      BY <1>r, <3>1 DEF RequestShape, UsesShare, Creating
    <3>3. req[a].me \in Users
      BY <3>1 DEF Allowed
    <3> QED
      BY <2>2, <3>1, <3>2, <3>3 DEF InUse, Shares, Users
  <2>3. CASE PutGrant(a) /\ s = req[a].share /\ u = req[a].user
    <3>1. share' = share /\ user' = user /\ req[a].pc = "put grant"
      BY <2>3 DEF PutGrant
    <3>2. UsesShare(a) /\ req[a].user \in Users
      BY <3>1 DEF UsesShare, Allowed
    <3> QED
      BY <2>3, <3>1, <3>2 DEF InUse, Shares, Users
  <2> QED
    BY <1>1, <2>1, <2>2, <2>3, GrantRows
<1>2. ASSUME NEW s \in ShareIds, file'[s] # Nil
      PROVE  share'[s] # Nil
  <2>1. file[s] # Nil
    <3>1. CASE PurgeShare(a)
      <4>1. file' = [file EXCEPT ![req[a].share] = Nil] /\ file \in [ShareIds -> Version \cup {Nil}]
        BY <3>1 DEF PurgeShare, Base, Typed, TablesTyped
      <4> QED
        BY <1>2, <4>1
    <3> QED
      BY <1>2, <3>1, TableMoves
  <2>2. share[s] # Nil
    BY <2>1 DEF Owned, Shares
  <2>3. ASSUME share'[s] = Nil
        PROVE  FALSE
    <3>1. CASE share[s].enc /\ ~share[s].keyed
      BY <2>1, <2>2, <3>1 DEF Emptied, Shares
    <3>2. CASE DeleteShareMeta(a) /\ s = req[a].share
      BY <2>1, <3>2 DEF DeleteShareMeta, Emptied
    <3> QED
      BY <1>u, <2>2, <2>3, <3>1, <3>2
  <2> QED
    BY <2>3
<1>3. ASSUME NEW s \in keyring', share'[s] = Nil, s \in ShareIds
      PROVE  \E b \in Handlers : req'[b].op = "delete" /\ req'[b].pc = "lock" /\ req'[b].share = s
  <2>1. s \in keyring
    <3>1. CASE KeySet(a)
      <4>1. keyring' = keyring \cup {req[a].share} /\ share' = share /\ req[a].pc = "unlock"
        BY <3>1 DEF KeySet, tables
      <4>2. req[a].share \in Shares
        BY <4>1 DEF InUse, UsesShare
      <4> QED
        BY <1>3, <4>1, <4>2 DEF Shares
    <3>2. CASE KeyDelete(a)
      BY <3>2 DEF KeyDelete
    <3> QED
      BY <3>1, <3>2, TableMoves
  <2>2. CASE share[s] # Nil
    <3>1. share[s].keyed
      BY <2>1, <2>2 DEF Base, Typed, Checked
    <3>2. DeleteShareMeta(a) /\ req[a].op = "delete" /\ s = req[a].share
      BY <1>3, <1>u, <2>2, <3>1
    <3>3. GoTo(a, "lock")
      BY <3>2 DEF DeleteShareMeta
    <3>4. a \in DOMAIN req
      BY DEF Base, Typed, RequestsTyped
    <3>5. req'[a] = [req[a] EXCEPT !.pc = "lock"]
      BY <3>3, <3>4 DEF GoTo
    <3>6. [req[a] EXCEPT !.pc = "lock"].pc = "lock" /\ [req[a] EXCEPT !.pc = "lock"].op = req[a].op
          /\ [req[a] EXCEPT !.pc = "lock"].share = req[a].share
      BY <1>r DEF Request
    <3> QED
      BY <3>2, <3>5, <3>6
  <2>3. CASE share[s] = Nil
    <3>1. PICK b \in Handlers : req[b].op = "delete" /\ req[b].pc = "lock" /\ req[b].share = s
      BY <1>3, <2>1, <2>3 DEF Owned, Shares
    <3>2. b # a
      <4> SUFFICES ASSUME b = a
                   PROVE  FALSE
        OBVIOUS
      <4>1. req[a].pc = "lock" /\ req[a].share = s
        BY <3>1
      <4>2. KeyDelete(a)
        BY <4>1 DEF Continue, HasUsers, UsernameTaken, InsertUser, DropUser, UpdateUser, RequireUser,
           InsertToken, DropToken, InsertShare, GrantCreator, SetPassword, SetPasswordFails, UndoGrants,
           UndoShare, GetShare, GetUser, PutGrant, DropGrant, SetShare, KeySet, CountFiles, PurgeShare,
           DeleteShareMeta, FailRequest
      <4>3. keyring' = keyring \ {s}
        BY <4>1, <4>2 DEF KeyDelete
      <4> QED
        BY <1>3, <4>3
    <3>3. req'[b] = req[b]
      BY <3>2, ContinueMoves
    <3> QED
      BY <3>1, <3>3
  <2> QED
    BY <2>2, <2>3
<1>4. keyring' \subseteq ShareIds
  BY DEF Base, Typed, MemoryTyped
<1> QED
  BY <1>1, <1>2, <1>3, <1>4 DEF Owned, Shares, Users

LEMMA OutClient ==
    ASSUME "share" \notin Overlaps, Base, Base', Allowed, OutInv, NEW c \in Clients, Client(c)
    PROVE  OutInv'
<1> USE ConstantFacts
<1> DEFINE r == sess[c]
           x == sess'[c]
<1>1. /\ user' = user /\ share' = share /\ grant' = grant /\ keyring' = keyring /\ req' = req
      /\ \A d \in Clients : d # c => sess'[d] = sess[d]
  BY ClientMoves
<1>2. Course(c, r, x)
  BY ClientCourse
<1>r. SessionShape(r) /\ r.share \in 0..MaxShare /\ (r.op # "none" => r.share \in ShareIds)
  BY SessionFacts
<1>f. file \in [ShareIds -> Version \cup {Nil}]
  BY DEF Base, Typed, TablesTyped
<1>w. Working(c) => r.share \in Shares
  BY DEF OutInv, InUse
<1>s. Storing(c) => Working(c)
  BY <1>r DEF Storing, Working, SessionShape
<1>3. file' = file \/ (Storing(c) /\ \E v : file' = [file EXCEPT ![r.share] = v])
  <2>1. Commit(c) => Storing(c) /\ (file' = file \/ \E v : file' = [file EXCEPT ![r.share] = v])
    BY DEF Commit, Storing
  <2>2. r.pc = "create" => Storing(c)
    BY DEF Storing
  <2> HIDE DEF r, x
  <2> QED
    BY <1>2, <2>1, <2>2 DEF Course
<1>4. \A s \in ShareIds : file'[s] = file[s] \/ (Storing(c) /\ s = r.share)
  BY <1>3, <1>f
<1>5. Owned'
  <2>1. \A s \in ShareIds : file'[s] # Nil => s \in Shares
    BY <1>4, <1>s, <1>w DEF OutInv, Owned
  <2> QED
    BY <1>1, <2>1 DEF OutInv, Owned, Shares, Users
<1>6. Working(c)' => r.op # "none" /\ x.op = r.op /\ x.share = r.share
  <2>1. Working(c)' => x.op # "none" /\ x.pc # "share"
    BY DEF Working
  <2> HIDE DEF r, x
  <2> QED
    BY <1>2, <2>1 DEF Course
<1>7. x.pc = "grant" => Working(c)'
  <2>1. SessionShape(sess[c])'
    BY DEF Base, Typed, SessionsTyped
  <2> QED
    BY <2>1 DEF SessionShape, Working
<1>8. Working(c)' => /\ x.share \in Shares
                     /\ x.pc = "grant" => x.row.enc = share[x.share].enc
  <2> SUFFICES ASSUME Working(c)'
               PROVE  x.share \in Shares /\ (x.pc = "grant" => x.row.enc = share[x.share].enc)
    OBVIOUS
  <2>1. x.op # "none" /\ x.pc # "share" /\ x.share = r.share /\ r.op # "none"
    BY <1>6 DEF Working
  <2>2. r.pc # "share" => Working(c)
    BY <2>1 DEF Working
  <2> HIDE DEF r, x
  <2>3. \/ r.pc = "share" /\ x.pc = "grant" /\ r.share \in Shares /\ x.row = share[r.share]
        \/ r.pc # "share" /\ x.pc # "grant"
    BY <1>2, <2>1 DEF Course
  <2> QED
    BY <1>w, <2>1, <2>2, <2>3
<1>9. InUse'
  <2>1. \A d \in Clients : Working(d)' => sess'[d].share \in Shares'
    <3> SUFFICES ASSUME NEW d \in Clients, Working(d)'
                 PROVE  sess'[d].share \in Shares
      BY <1>1 DEF Shares
    <3>1. CASE d = c
      BY <1>8, <3>1
    <3>2. CASE d # c
      <4>1. sess'[d] = sess[d]
        BY <1>1, <3>2
      <4> QED
        BY <4>1 DEF OutInv, InUse, Working
    <3> QED
      BY <3>1, <3>2
  <2>2. \A d \in Clients : sess'[d].pc = "grant" => sess'[d].row.enc = share'[sess'[d].share].enc
    <3> SUFFICES ASSUME NEW d \in Clients, sess'[d].pc = "grant"
                 PROVE  sess'[d].row.enc = share[sess'[d].share].enc
      BY <1>1
    <3>1. CASE d = c
      BY <1>7, <1>8, <3>1
    <3>2. CASE d # c
      <4>1. sess'[d] = sess[d]
        BY <1>1, <3>2
      <4> QED
        BY <4>1 DEF OutInv, InUse
    <3> QED
      BY <3>1, <3>2
  <2>3. \A a \in Handlers : UsesShare(a)' => req'[a].share \in Shares'
    BY <1>1 DEF OutInv, InUse, UsesShare, Creating, Shares
  <2> QED
    BY <2>1, <2>2, <2>3 DEF InUse
<1>10. Apart'
  BY <1>1 DEF OutInv, Apart, Creating
<1>11. Emptied'
  <2>1. \A a \in Handlers : HalfMade(a)' => ~share'[req'[a].share].keyed
    BY <1>1 DEF OutInv, Emptied, HalfMade
  <2>2. \A a \in Handlers : req'[a].pc = "undo share" => \A u \in UserIds : grant'[req'[a].share][u] = Nil
    BY <1>1 DEF OutInv, Emptied
  <2>3. \A a \in Handlers : req'[a].pc = "meta" => file'[req'[a].share] = Nil
    <3> SUFFICES ASSUME NEW a \in Handlers, req[a].pc = "meta"
                 PROVE  file'[req[a].share] = Nil
      BY <1>1
    <3>1. file[req[a].share] = Nil
      BY DEF OutInv, Emptied
    <3>2. RequestShape(req[a]) /\ (req[a].pc \in OnShare => req[a].share \in ShareIds)
      BY RequestFacts DEF Base
    <3>3. Deleting(a) /\ req[a].share \in ShareIds
      BY <3>2 DEF RequestShape, Deleting, OnShare
    <3>4. ~(Working(c) /\ r.share = req[a].share)
      BY <3>3 DEF Allowed
    <3> QED
      BY <1>4, <1>s, <3>1, <3>3, <3>4
  <2>4. ASSUME NEW s \in Shares, share[s].enc, ~share[s].keyed
        PROVE  file'[s] = Nil /\ \A d \in Clients : Storing(d)' => sess'[d].share # s
    <3>1. file[s] = Nil /\ \A d \in Clients : Storing(d) => sess[d].share # s
      BY <2>4 DEF OutInv, Emptied
    <3>2. file'[s] = Nil
      BY <1>4, <3>1 DEF Shares
    <3>3. Storing(c)' => x.share # s
      <4> SUFFICES ASSUME Storing(c)', x.share = s
                   PROVE  FALSE
        OBVIOUS
      <4>1. SessionShape(sess[c])'
        BY DEF Base, Typed, SessionsTyped
      <4>2. x.op # "none" /\ x.pc \in {"create", "key", "seal", "store"}
        BY <4>1 DEF SessionShape, Storing
      <4>3. r.op # "none" /\ r.share = s
        BY <1>6, <4>2 DEF Working
      <4>4. r.pc \in {"create", "key", "seal", "store"} \/ (r.pc = "grant" /\ (r.row.enc => HasKey(r.share)))
        <5> HIDE DEF r, x
        <5> QED
          BY <1>2, <4>2, <4>3 DEF Course
      <4>5. r.pc = "grant"
        BY <3>1, <4>3, <4>4 DEF Storing
      <4>6. r.row.enc = share[s].enc
        BY <4>3, <4>5 DEF OutInv, InUse
      <4>7. s \in keyring
        BY <2>4, <4>3, <4>4, <4>5, <4>6 DEF HasKey
      <4> QED
        BY <2>4, <4>7 DEF Base, Typed, Checked, Shares
    <3>4. \A d \in Clients : Storing(d)' => sess'[d].share # s
      <4> SUFFICES ASSUME NEW d \in Clients, d # c, Storing(d)'
                   PROVE  sess'[d].share # s
        BY <3>3
      <4>1. sess'[d] = sess[d]
        BY <1>1
      <4> QED
        BY <3>1, <4>1 DEF Storing
    <3> QED
      BY <3>2, <3>4
  <2>5. Shares' = Shares
    BY <1>1 DEF Shares
  <2> QED
    BY <1>1, <2>1, <2>2, <2>3, <2>4, <2>5 DEF Emptied
<1> QED
  BY <1>5, <1>9, <1>10, <1>11 DEF OutInv

LEMMA OutArrive ==
    ASSUME Base, OutInv, NEW a \in Handlers, Arrive(a)
    PROVE  OutInv'
<1>1. UNCHANGED <<user, share, grant, file, keyring, sess>> /\ \A b \in Handlers : b # a => req'[b] = req[b]
  BY ArriveBegins
<1>2. /\ req'[a].pc \in {"users", "name", "drop user", "role", "owner", "revoke token", "row", "get", "revoke"}
      /\ req'[a].op = "share" => req'[a].pc = "row"
      /\ req[a].op = "none"
  BY ArriveBegins
<1>3. ~UsesShare(a)' /\ ~Creating(a)' /\ ~HalfMade(a)'
  BY <1>2 DEF UsesShare, Creating, HalfMade
<1>4. ASSUME NEW b \in Handlers
      PROVE  /\ UsesShare(b)' => UsesShare(b) /\ b # a
             /\ Creating(b)' => Creating(b) /\ b # a
             /\ HalfMade(b)' => HalfMade(b) /\ b # a
             /\ req'[b].pc \in {"undo share", "meta"} => b # a
  BY <1>1, <1>2, <1>3 DEF UsesShare, Creating, HalfMade
<1>5. Shares' = Shares /\ Users' = Users
  BY <1>1 DEF Shares, Users
<1>6. Owned'
  <2>1. \A b \in Handlers : req[b].op = "delete" => req'[b] = req[b]
    BY <1>1, <1>2
  <2> QED
    BY <1>1, <1>5, <2>1 DEF OutInv, Owned
<1>7. InUse'
  BY <1>1, <1>4, <1>5 DEF OutInv, InUse, Working
<1>8. Apart'
  BY <1>1, <1>4 DEF OutInv, Apart
<1>9. Emptied'
  <2>1. \A b \in Handlers : HalfMade(b)' => ~share'[req'[b].share].keyed
    <3> SUFFICES ASSUME NEW b \in Handlers, HalfMade(b)'
                 PROVE  ~share[req'[b].share].keyed
      BY <1>1
    <3>1. HalfMade(b) /\ req'[b] = req[b]
      BY <1>1, <1>4
    <3> QED
      BY <3>1 DEF OutInv, Emptied
  <2>2. ASSUME NEW b \in Handlers, req'[b].pc \in {"undo share", "meta"}
        PROVE  req'[b] = req[b]
    BY <1>1, <1>4, <2>2
  <2>3. \A b \in Handlers : req'[b].pc = "undo share" => \A u \in UserIds : grant'[req'[b].share][u] = Nil
    <3> SUFFICES ASSUME NEW b \in Handlers, req'[b].pc = "undo share", NEW u \in UserIds
                 PROVE  grant[req'[b].share][u] = Nil
      BY <1>1
    <3>1. req'[b] = req[b]
      BY <2>2
    <3>2. req[b].pc = "undo share"
      BY <3>1
    <3>3. \A v \in UserIds : grant[req[b].share][v] = Nil
      BY <3>2 DEF OutInv, Emptied
    <3> QED
      BY <3>1, <3>3
  <2>4. \A b \in Handlers : req'[b].pc = "meta" => file'[req'[b].share] = Nil
    <3> SUFFICES ASSUME NEW b \in Handlers, req'[b].pc = "meta"
                 PROVE  file[req'[b].share] = Nil
      BY <1>1
    <3> QED
      BY <2>2 DEF OutInv, Emptied
  <2>5. \A s \in Shares : share[s].enc /\ ~share[s].keyed =>
            file[s] = Nil /\ \A c \in Clients : Storing(c) => sess[c].share # s
    BY DEF OutInv, Emptied
  <2>6. \A c \in Clients : Storing(c)' <=> Storing(c)
    BY <1>1 DEF Storing
  <2>7. \A s \in Shares' : share'[s].enc /\ ~share'[s].keyed =>
            file'[s] = Nil /\ \A c \in Clients : Storing(c)' => sess'[c].share # s
    BY <1>1, <1>5, <2>5, <2>6
  <2> QED
    BY <2>1, <2>3, <2>4, <2>7 DEF Emptied
<1> QED
  BY <1>6, <1>7, <1>8, <1>9 DEF OutInv

LEMMA OutStep ==
    ASSUME "share" \notin Overlaps, "user" \notin Overlaps,
           Base, Base', Allowed, OutInv, [Next]_vars
    PROVE  OutInv'
<1>1. CASE UNCHANGED vars
  <2>1. UNCHANGED <<user, share, grant, file, keyring, sess, req>>
    BY <1>1 DEF vars, tables, memory
  <2>2. Owned' /\ InUse'
    BY <2>1 DEF OutInv, Owned, InUse, Working, UsesShare, Creating, Shares, Users
  <2>3. Apart' /\ Emptied'
    BY <2>1 DEF OutInv, Apart, Creating, Emptied, HalfMade, Storing, Shares
  <2> QED
    BY <2>2, <2>3 DEF OutInv
<1>2. ASSUME NEW a \in Handlers, Continue(a)
      PROVE  OutInv'
  <2>1. Owned /\ InUse /\ Apart /\ Emptied
    BY DEF OutInv
  <2>2. InUse'
    BY <1>2, <2>1, InUseRequest
  <2>3. Apart'
    BY <1>2, <2>1, ApartRequest
  <2>4. Emptied'
    BY <1>2, <2>1, <2>2, EmptiedRequest
  <2>5. Owned'
    BY <1>2, <2>1, OwnedRequest
  <2> QED
    BY <2>2, <2>3, <2>4, <2>5 DEF OutInv
<1>3. CASE Restart
  <2>1. UNCHANGED <<user, share, grant, file>> /\ keyring' = {}
    BY <1>3 DEF Restart, tables
  <2>2. \A a \in Handlers : req'[a] = NoReq
    BY <1>3 DEF Restart
  <2>3. \A c \in Clients : sess'[c].op = "none" /\ sess'[c].pc = "none"
    BY <1>3 DEF Restart, NoSess
  <2>4. NoReq.op = "none" /\ NoReq.pc = "none"
    BY NoReqTyped
  <2>5. Shares' = Shares /\ Users' = Users
    BY <2>1 DEF Shares, Users
  <2>6. Owned'
    BY <2>1, <2>5 DEF OutInv, Owned
  <2>7. InUse' /\ Apart'
    BY <2>2, <2>3, <2>4 DEF InUse, Apart, UsesShare, Creating, Working
  <2>8. Emptied'
    BY <2>1, <2>2, <2>3, <2>4, <2>5 DEF OutInv, Emptied, HalfMade, Storing
  <2> QED
    BY <2>6, <2>7, <2>8 DEF OutInv
<1>4. ASSUME NEW a \in Handlers, Arrive(a)
      PROVE  OutInv'
  BY <1>4, OutArrive
<1>5. ASSUME NEW c \in Clients, Client(c)
      PROVE  OutInv'
  BY <1>5, OutClient
<1> QED
  BY <1>1, <1>2, <1>3, <1>4, <1>5 DEF Next

(* What belongs to a user or a share goes with it, unless one of the two   *)
(* goes while a request or a client uses it: DeleteShare purges the files  *)
(* before it drops the grants and the row, takes the key last, and the     *)
(* creation that fails takes the grant back before the row.                *)
THEOREM NothingLeft ==
    ASSUME "share" \notin Overlaps, "user" \notin Overlaps
    PROVE  Spec => []NothingOutlives
<1>1. Init => OutInv
  <2> SUFFICES ASSUME Init
               PROVE  OutInv
    OBVIOUS
  <2>1. PICK e \in Earlier : user = e.user /\ share = e.share /\ grant = e.grant /\ file = e.file
    BY DEF Init
  <2>2. Consistent(e)
    BY AccessAssumption
  <2>3. \A a \in Handlers : req[a] = NoReq
    BY DEF Init
  <2>4. \A c \in Clients : sess[c].op = "none" /\ sess[c].pc = "none"
    BY DEF Init, NoSess
  <2>5. NoReq.op = "none" /\ NoReq.pc = "none"
    BY NoReqTyped
  <2>6. keyring = {}
    BY DEF Init
  <2>7. Owned
    BY <2>1, <2>2, <2>6 DEF Consistent, Owned, Shares, Users
  <2>8. InUse /\ Apart
    BY <2>3, <2>4, <2>5 DEF InUse, Apart, UsesShare, Creating, Working
  <2>9. Emptied
    <3>1. \A s \in Shares : share[s].enc <=> share[s].keyed
      BY <2>1, <2>2 DEF Consistent, Shares
    <3> QED
      BY <2>3, <2>5, <3>1 DEF Emptied, HalfMade
  <2> QED
    BY <2>7, <2>8, <2>9 DEF OutInv
<1>2. OutInv /\ Base /\ Base' /\ Allowed /\ [Next]_vars => OutInv'
  BY OutStep
<1>3. Base /\ OutInv => NothingOutlives
  BY DEF Base, Typed, MemoryTyped, OutInv, Owned, NothingOutlives, Deleting
<1> QED
  BY <1>1, <1>2, <1>3, TypedSpec, AllowedSpec, PTL DEF Spec
-----------------------------------------------------------------------------
(* A half share is being made, or its creation was cut short; and it is    *)
(* empty, with no client on its way to a first file: who writes had found  *)
(* a key, and a key needs a check value.                                   *)
Half(s)  == share[s].enc /\ ~share[s].keyed
HalfMaker == \A s \in Shares : Half(s) =>
                s \in cut \/ \E a \in Handlers : HalfMade(a) /\ req[a].share = s
HalfEmpty == \A s \in Shares : Half(s) =>
                file[s] = Nil /\ \A c \in Clients : Storing(c) => sess[c].share # s
RowKnown == \A c \in Clients : sess[c].pc = "grant" /\ sess[c].share \in Shares =>
                sess[c].row.enc = share[sess[c].share].enc
HalfInv  == HalfMaker /\ HalfEmpty /\ RowKnown

(* The request that makes an encrypted share goes on until the check value *)
(* is set or the row is gone, or it is cut short.                          *)
LEMMA HalfMadeStays ==
    ASSUME Base, Base', NEW a \in Handlers, Continue(a), HalfMade(a),
           req[a].share \in Shares', share'[req[a].share].enc, ~share'[req[a].share].keyed
    PROVE  \/ HalfMade(a)' /\ req'[a].share = req[a].share
           \/ a \in Interrupted
<1> DEFINE s == req[a].share
<1>t. /\ req \in [Handlers -> Request] /\ share \in [ShareIds -> ShareRow \cup {Nil}]
      /\ faults \in Nat /\ share' \in [ShareIds -> ShareRow \cup {Nil}]
  BY DEF Base, Typed, RequestsTyped, TablesTyped
<1>1. Creating(a) /\ req[a].op = "share"
  BY DEF HalfMade, Creating
<1>2. req[a].pc \in {"own", "password", "undo grants", "undo share"}
  BY DEF HalfMade
<1>3. s \in ShareIds
  BY DEF Shares
<1>4. CASE req[a].pc = "own"
  <2>1. GrantCreator(a) \/ FailRequest(a)
    BY <1>4 DEF Continue, HasUsers, UsernameTaken, InsertUser, DropUser, UpdateUser, RequireUser,
         InsertToken, DropToken, InsertShare, SetPassword, SetPasswordFails, UndoGrants, UndoShare,
         GetShare, GetUser, PutGrant, DropGrant, SetShare, KeySet, KeyDelete, CountFiles, PurgeShare,
         DeleteShareMeta
  <2>2. CASE FailRequest(a)
    <3>1. req'[a] = NoReq
      BY <1>t, <2>2 DEF FailRequest, Answer
    <3>2. faults' = faults + 1
      BY <2>2 DEF FailRequest
    <3>3. faults' # faults
      BY <3>2, <1>t
    <3> QED
      BY <1>1, <3>1, <3>3 DEF Interrupted
  <2>3. CASE GrantCreator(a)
    <3>1. share' = share
      BY <2>3 DEF GrantCreator
    <3>2. req[a].flag
      BY <1>1, <1>3, <3>1 DEF Base, Typed, Checked, Shares
    <3>3. req' = [req EXCEPT ![a].pc = "password"]
      BY <2>3, <3>2 DEF GrantCreator, GoTo
    <3>4. req'[a].pc = "password" /\ req'[a].op = req[a].op /\ req'[a].share = req[a].share
      BY <1>t, <3>3 DEF Request
    <3> QED
      BY <1>1, <3>4 DEF HalfMade
  <2> QED
    BY <2>1, <2>2, <2>3
<1>5. CASE req[a].pc = "password"
  <2>1. SetPassword(a) \/ SetPasswordFails(a)
    BY <1>5 DEF Continue, HasUsers, UsernameTaken, InsertUser, DropUser, UpdateUser, RequireUser,
         InsertToken, DropToken, InsertShare, GrantCreator, UndoGrants, UndoShare,
         GetShare, GetUser, PutGrant, DropGrant, SetShare, KeySet, KeyDelete, CountFiles, PurgeShare,
         DeleteShareMeta, FailRequest
  <2>2. ~SetPassword(a)
    <3> SUFFICES ASSUME SetPassword(a)
                 PROVE  FALSE
      OBVIOUS
    <3>1. share' = IF s \in Shares THEN [share EXCEPT ![s].keyed = TRUE] ELSE share
      BY DEF SetPassword
    <3>2. s \in Shares
      BY <1>3, <3>1 DEF Shares
    <3>3. share[s] \in ShareRow
      BY <1>t, <1>3, <3>2 DEF Shares
    <3>4. share'[s].keyed
      BY <1>t, <1>3, <3>1, <3>2, <3>3 DEF ShareRow
    <3> QED
      BY <3>4
  <2>3. req' = [req EXCEPT ![a].pc = "undo grants"]
    BY <2>1, <2>2 DEF SetPasswordFails, GoTo
  <2>4. req'[a].pc = "undo grants" /\ req'[a].op = req[a].op /\ req'[a].share = req[a].share
    BY <1>t, <2>3 DEF Request
  <2> QED
    BY <1>1, <2>4 DEF HalfMade
<1>6. CASE req[a].pc = "undo grants"
  <2>1. UndoGrants(a)
    BY <1>6 DEF Continue, HasUsers, UsernameTaken, InsertUser, DropUser, UpdateUser, RequireUser,
         InsertToken, DropToken, InsertShare, GrantCreator, SetPassword, SetPasswordFails, UndoShare,
         GetShare, GetUser, PutGrant, DropGrant, SetShare, KeySet, KeyDelete, CountFiles, PurgeShare,
         DeleteShareMeta, FailRequest
  <2>2. req' = [req EXCEPT ![a].pc = "undo share"]
    BY <2>1 DEF UndoGrants, GoTo
  <2>3. req'[a].pc = "undo share" /\ req'[a].op = req[a].op /\ req'[a].share = req[a].share
    BY <1>t, <2>2 DEF Request
  <2> QED
    BY <1>1, <2>3 DEF HalfMade
<1>7. CASE req[a].pc = "undo share"
  <2>1. UndoShare(a)
    BY <1>7 DEF Continue, HasUsers, UsernameTaken, InsertUser, DropUser, UpdateUser, RequireUser,
         InsertToken, DropToken, InsertShare, GrantCreator, SetPassword, SetPasswordFails, UndoGrants,
         GetShare, GetUser, PutGrant, DropGrant, SetShare, KeySet, KeyDelete, CountFiles, PurgeShare,
         DeleteShareMeta, FailRequest
  <2>2. share' = [share EXCEPT ![s] = Nil]
    BY <2>1 DEF UndoShare
  <2> QED
    BY <1>t, <1>3, <2>2 DEF Shares
<1> QED
  BY <1>2, <1>4, <1>5, <1>6, <1>7

LEMMA CutGrows ==
    ASSUME Remember
    PROVE  cut \subseteq cut' /\ \A a \in Interrupted : req[a].share \in cut'
  BY DEF Remember

LEMMA HalfRequest ==
    ASSUME Base, Base', HalfMaker, Remember, NEW a \in Handlers, Continue(a)
    PROVE  HalfMaker'
<1> SUFFICES ASSUME NEW s \in Shares', Half(s)', s \notin cut'
             PROVE  \E b \in Handlers : HalfMade(b)' /\ req'[b].share = s
  BY DEF HalfMaker
<1>1. s \in ShareIds /\ share'[s] # Nil /\ share'[s].enc /\ ~share'[s].keyed
  BY DEF Shares, Half
<1>2. CASE share[s] = Nil
  <2>1. InsertShare(a) /\ s = last.share + 1
    BY <1>1, <1>2, ShareRows
  <2>2. req[a].pc = "row" /\ req' = [req EXCEPT ![a].pc = "own", ![a].share = s]
    BY <2>1 DEF InsertShare
  <2>3. req \in [Handlers -> Request] /\ RequestShape(req[a])
    BY DEF Base, Typed, RequestsTyped
  <2>4. req'[a].pc = "own" /\ req'[a].share = s /\ req'[a].op = req[a].op
    BY <2>2, <2>3 DEF Request
  <2>5. req[a].op = "share"
    BY <2>2, <2>3 DEF RequestShape
  <2> QED
    BY <2>4, <2>5 DEF HalfMade
<1>3. CASE share[s] # Nil
  <2>1. share[s].enc /\ ~share[s].keyed
    BY <1>1, <1>3, ShareRows
  <2>2. s \notin cut
    BY CutGrows
  <2>3. PICK b \in Handlers : HalfMade(b) /\ req[b].share = s
    BY <1>1, <1>3, <2>1, <2>2 DEF HalfMaker, Half, Shares
  <2>4. CASE b = a
    <3>1. (HalfMade(a)' /\ req'[a].share = s) \/ a \in Interrupted
      BY <1>1, <2>3, <2>4, HalfMadeStays
    <3>2. a \notin Interrupted
      BY <2>3, <2>4, CutGrows
    <3> QED
      BY <3>1, <3>2
  <2>5. CASE b # a
    <3>1. req'[b] = req[b]
      BY <2>5, ContinueMoves
    <3> QED
      BY <2>3, <3>1 DEF HalfMade
  <2> QED
    BY <2>4, <2>5
<1> QED
  BY <1>2, <1>3

(* A request writes no file, and a share it makes has a new id.            *)
LEMMA HalfEmptyRequest ==
    ASSUME Base, Base', HalfEmpty, RowKnown, NEW a \in Handlers, Continue(a)
    PROVE  HalfEmpty' /\ RowKnown'
<1>f. file \in [ShareIds -> Version \cup {Nil}]
  BY DEF Base, Typed, TablesTyped
<1>p. \A s \in ShareIds : file[s] = Nil => file'[s] = Nil
  <2>1. CASE file' = file
    BY <2>1
  <2>2. CASE PurgeShare(a)
    <3>1. file' = [file EXCEPT ![req[a].share] = Nil]
      BY <2>2 DEF PurgeShare
    <3> QED
      BY <1>f, <3>1
  <2> QED
    BY <2>1, <2>2, TableMoves
<1>q. \A c \in Clients : /\ sess'[c].pc = sess[c].pc /\ sess'[c].share = sess[c].share
                         /\ sess'[c].row = sess[c].row
  BY RequestSessions
<1>n. ASSUME NEW s \in ShareIds, share[s] = Nil, share'[s] # Nil
      PROVE  file[s] = Nil /\ \A c \in Clients : sess[c].share # s
  <2>1. s = last.share + 1
    BY <1>n, ShareRows
  <2>2. last.share \in Nat /\ ~(s <= last.share)
    <3>1. last.share \in Nat
      BY DEF Base, Typed, TablesTyped
    <3> QED
      BY <2>1, <3>1
  <2>3. file[s] = Nil
    BY <2>2 DEF Base, Typed, IdsGiven
  <2>4. \A c \in Clients : sess[c].share <= last.share
    BY DEF Base, Typed, IdsGiven
  <2> QED
    BY <2>2, <2>3, <2>4
<1>1. HalfEmpty'
  <2> SUFFICES ASSUME NEW s \in ShareIds, share'[s] # Nil, Half(s)'
               PROVE  file'[s] = Nil /\ \A c \in Clients : Storing(c)' => sess'[c].share # s
    BY DEF HalfEmpty, Shares
  <2>1. file[s] = Nil /\ \A c \in Clients : Storing(c) => sess[c].share # s
    <3>1. CASE share[s] = Nil
      BY <1>n, <3>1
    <3>2. CASE share[s] # Nil
      <4>1. Half(s)
        BY <3>2, ShareRows DEF Half
      <4> QED
        BY <3>2, <4>1 DEF HalfEmpty, Shares
    <3> QED
      BY <3>1, <3>2
  <2> QED
    BY <1>p, <1>q, <2>1 DEF Storing
<1>2. RowKnown'
  <2> SUFFICES ASSUME NEW c \in Clients, sess'[c].pc = "grant", sess'[c].share \in Shares'
               PROVE  sess'[c].row.enc = share'[sess'[c].share].enc
    BY DEF RowKnown
  <2> DEFINE s == sess[c].share
  <2>1. s \in ShareIds /\ share'[s] # Nil /\ sess[c].pc = "grant"
    BY <1>q DEF Shares
  <2>2. share[s] # Nil
    BY <1>n, <2>1
  <2>3. sess[c].row.enc = share[s].enc
    BY <2>1, <2>2 DEF RowKnown, Shares
  <2>4. share'[s].enc = share[s].enc
    BY <2>1, <2>2, ShareRows
  <2> QED
    BY <1>q, <2>3, <2>4
<1> QED
  BY <1>1, <1>2

(* A client that goes on to store has found the key of an encrypted share. *)
LEMMA HalfEmptyClient ==
    ASSUME Base, Base', HalfEmpty, RowKnown, NEW c \in Clients, Client(c)
    PROVE  HalfEmpty' /\ RowKnown'
<1> USE ConstantFacts
<1> DEFINE r == sess[c]
           x == sess'[c]
<1>1. share' = share /\ \A d \in Clients : d # c => sess'[d] = sess[d]
  BY ClientMoves
<1>2. Course(c, r, x)
  BY ClientCourse
<1>r. SessionShape(r) /\ SessionShape(x)
  BY SessionFacts DEF Base, Typed, SessionsTyped
<1>f. file \in [ShareIds -> Version \cup {Nil}]
  BY DEF Base, Typed, TablesTyped
<1>3. file' = file \/ (Storing(c) /\ \E v : file' = [file EXCEPT ![r.share] = v])
  <2>1. Commit(c) => Storing(c) /\ (file' = file \/ \E v : file' = [file EXCEPT ![r.share] = v])
    BY DEF Commit, Storing
  <2>2. r.pc = "create" => Storing(c)
    BY DEF Storing
  <2> HIDE DEF r, x
  <2> QED
    BY <1>2, <2>1, <2>2 DEF Course
<1>4. \A s \in ShareIds : file'[s] = file[s] \/ (Storing(c) /\ s = r.share)
  BY <1>3, <1>f
<1>5. ASSUME x.pc \in {"grant", "create", "key", "seal", "store"}
      PROVE  r.op # "none" /\ x.op # "none" /\ x.share = r.share
  <2>1. x.op # "none" /\ x.pc # "share"
    BY <1>r, <1>5 DEF SessionShape
  <2> HIDE DEF r, x
  <2> QED
    BY <1>2, <2>1 DEF Course
<1>6. ASSUME NEW s \in Shares, Half(s)
      PROVE  file'[s] = Nil /\ \A d \in Clients : Storing(d)' => sess'[d].share # s
  <2>1. file[s] = Nil /\ \A d \in Clients : Storing(d) => sess[d].share # s
    BY <1>6 DEF HalfEmpty
  <2>2. file'[s] = Nil
    BY <1>4, <2>1 DEF Shares
  <2>3. Storing(c)' => x.share # s
    <3> SUFFICES ASSUME Storing(c)', x.share = s
                 PROVE  FALSE
      OBVIOUS
    <3>1. x.pc \in {"create", "key", "seal", "store"}
      BY DEF Storing
    <3>2. r.op # "none" /\ x.op # "none" /\ r.share = s
      BY <1>5, <3>1
    <3>3. r.pc \in {"create", "key", "seal", "store"} \/ (r.pc = "grant" /\ (r.row.enc => HasKey(r.share)))
      <4> HIDE DEF r, x
      <4> QED
        BY <1>2, <3>1, <3>2 DEF Course
    <3>4. r.pc = "grant"
      BY <2>1, <3>2, <3>3 DEF Storing
    <3>5. r.row.enc = share[s].enc
      BY <3>2, <3>4 DEF RowKnown
    <3>6. s \in keyring
      BY <1>6, <3>2, <3>3, <3>4, <3>5 DEF HasKey, Half
    <3> QED
      BY <1>6, <3>6 DEF Base, Typed, Checked, Shares, Half
  <2>4. \A d \in Clients : Storing(d)' => sess'[d].share # s
    <3> SUFFICES ASSUME NEW d \in Clients, d # c, Storing(d)'
                 PROVE  sess'[d].share # s
      BY <2>3
    <3>1. sess'[d] = sess[d]
      BY <1>1
    <3> QED
      BY <2>1, <3>1 DEF Storing
  <2> QED
    BY <2>2, <2>4
<1>7. HalfEmpty'
  BY <1>1, <1>6 DEF HalfEmpty, Half, Shares
<1>8. ASSUME x.pc = "grant", x.share \in Shares
      PROVE  x.row.enc = share[x.share].enc
  <2>1. r.op # "none" /\ x.op # "none" /\ x.share = r.share
    BY <1>5, <1>8
  <2> HIDE DEF r, x
  <2>2. x.row = share[r.share]
    BY <1>2, <1>8, <2>1 DEF Course
  <2> QED
    BY <2>1, <2>2
<1>9. RowKnown'
  <2> SUFFICES ASSUME NEW d \in Clients, sess'[d].pc = "grant", sess'[d].share \in Shares
               PROVE  sess'[d].row.enc = share[sess'[d].share].enc
    BY <1>1 DEF RowKnown, Shares
  <2>1. CASE d = c
    BY <1>8, <2>1
  <2>2. CASE d # c
    <3>1. sess'[d] = sess[d]
      BY <1>1, <2>2
    <3> QED
      BY <3>1 DEF RowKnown
  <2> QED
    BY <2>1, <2>2
<1> QED
  BY <1>7, <1>9

LEMMA HalfStep ==
    ASSUME Base, Base', HalfInv, [Next]_vars
    PROVE  HalfInv'
<1>1. CASE UNCHANGED vars
  <2>1. UNCHANGED <<share, file, sess, req, cut>>
    BY <1>1 DEF vars, tables
  <2>2. HalfMaker'
    BY <2>1 DEF HalfInv, HalfMaker, HalfMade, Half, Shares
  <2> QED
    BY <2>1, <2>2 DEF HalfInv, HalfEmpty, RowKnown, Storing, Half, Shares
<1>2. ASSUME NEW a \in Handlers, Arrive(a), Remember
      PROVE  HalfInv'
  <2>1. UNCHANGED <<share, file, sess>> /\ req[a].op = "none" /\ \A b \in Handlers : b # a => req'[b] = req[b]
    BY <1>2, ArriveBegins
  <2>2. \A b \in Handlers : HalfMade(b) => HalfMade(b)' /\ req'[b].share = req[b].share
    BY <2>1 DEF HalfMade
  <2>3. HalfMaker'
    BY <1>2, <2>1, <2>2, CutGrows DEF HalfInv, HalfMaker, Half, Shares
  <2> QED
    BY <2>1, <2>3 DEF HalfInv, HalfEmpty, RowKnown, Storing, Half, Shares
<1>3. ASSUME NEW a \in Handlers, Continue(a), Remember
      PROVE  HalfInv'
  BY <1>3, HalfRequest, HalfEmptyRequest DEF HalfInv
<1>4. ASSUME NEW c \in Clients, Client(c), Remember
      PROVE  HalfInv'
  <2>1. share' = share /\ req' = req
    BY <1>4, ClientMoves
  <2>2. HalfMaker'
    BY <1>4, <2>1, CutGrows DEF HalfInv, HalfMaker, HalfMade, Half, Shares
  <2> QED
    BY <1>4, <2>2, HalfEmptyClient DEF HalfInv
<1>5. ASSUME Restart, Remember
      PROVE  HalfInv'
  <2>1. share' = share /\ file' = file
    BY <1>5 DEF Restart, tables
  <2>2. \A a \in Handlers : req'[a] = NoReq
    BY <1>5 DEF Restart
  <2>3. faults' # faults
    BY <1>5 DEF Restart, Base
  <2>4. \A a \in Handlers : HalfMade(a) => a \in Interrupted
    BY <2>2, <2>3 DEF Interrupted, HalfMade, Creating
  <2>5. HalfMaker'
    BY <1>5, <2>1, <2>4, CutGrows DEF HalfInv, HalfMaker, Half, Shares
  <2>6. \A c \in Clients : sess'[c].pc = "none"
    BY <1>5 DEF Restart, NoSess
  <2> QED
    BY <2>1, <2>5, <2>6 DEF HalfInv, HalfEmpty, RowKnown, Storing, Half, Shares
<1> QED
  BY <1>1, <1>2, <1>3, <1>4, <1>5 DEF Next

(* Whatever races and whatever fails: an encrypted share without a check   *)
(* value is being made, or a crash or a failing statement ended its        *)
(* creation, and then nobody can unlock it and nothing was stored in it.   *)
THEOREM HalfSharesUnused == Spec => []HalfShareUnused
<1>1. Init => HalfInv
  <2> SUFFICES ASSUME Init
               PROVE  HalfInv
    OBVIOUS
  <2>1. PICK e \in Earlier : share = e.share
    BY DEF Init
  <2>2. Consistent(e)
    BY AccessAssumption
  <2>3. \A s \in Shares : ~Half(s)
    BY <2>1, <2>2 DEF Consistent, Shares, Half
  <2>4. \A c \in Clients : sess[c].pc = "none"
    BY DEF Init, NoSess
  <2> QED
    BY <2>3, <2>4 DEF HalfInv, HalfMaker, HalfEmpty, RowKnown
<1>2. HalfInv /\ Base /\ Base' /\ [Next]_vars => HalfInv'
  BY HalfStep
<1>3. HalfInv /\ Base => HalfShareUnused
  <2> SUFFICES ASSUME HalfInv, Base, NEW s \in Shares, Half(s)
               PROVE  /\ s \in cut \/ \E a \in Handlers : Creating(a) /\ req[a].share = s
                      /\ s \notin keyring /\ file[s] = Nil
    BY DEF HalfShareUnused, Half
  <2>1. s \in cut \/ \E a \in Handlers : Creating(a) /\ req[a].share = s
    BY DEF HalfInv, HalfMaker, HalfMade, Creating
  <2>2. s \notin keyring
    BY DEF Base, Typed, Checked, Shares, Half
  <2> QED
    BY <2>1, <2>2 DEF HalfInv, HalfEmpty
<1> QED
  BY <1>1, <1>2, <1>3, TypedSpec, PTL DEF Spec
=============================================================================

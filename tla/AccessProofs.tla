----------------------------- MODULE AccessProofs ------------------------------
(***************************************************************************)
(* Theorems about Access, for every value of its constants.                *)
(***************************************************************************)
EXTENDS Access, FiniteSetTheorems, TLAPS

(* The kinds of request and operation, and what each has filled in where   *)
(* it stands.                                                              *)
ReqOp == {"none", "bootstrap", "user", "drop user", "role", "token", "revoke token", "share",
          "grant", "update", "unlock", "lock", "delete", "revoke"}
OnUser  == {"drop user", "role", "owner", "insert token", "get user", "put grant", "revoke"}
OnShare == {"own", "password", "undo grants", "undo share", "get", "get user", "put grant",
            "set", "unlock", "lock", "count", "purge", "meta", "revoke"}
ReqPc == {"none", "users", "name", "insert user", "revoke token", "row"} \cup OnUser \cup OnShare
Request == [op : ReqOp, pc : ReqPc, me : 0..MaxUser, user : 0..MaxUser, share : 0..MaxShare,
            token : 0..MaxToken, name : Names \cup {Nil},
            what : Role \cup Perm \cup Codec \cup {Nil}, flag : BOOLEAN]
RequestShape(x) ==
    /\ x.op = "none" <=> x.pc = "none"
    /\ x.pc = "users" => x.op = "bootstrap"
    /\ x.pc \in {"users", "name", "insert user"} =>
            x.op \in {"bootstrap", "user"} /\ x.name \in Names /\ x.what \in Role
    /\ x.op = "user" => x.me # 0
    /\ x.pc \in OnUser \/ x.op = "grant" => x.user # 0
    /\ x.pc = "drop user" => x.me # 0 /\ x.user # x.me
    /\ x.pc = "role" => x.what \in Role
    /\ x.pc = "revoke token" => x.token # 0
    /\ x.pc \in {"row", "own", "password", "undo grants", "undo share"} => x.op = "share"
    /\ x.op = "share" => x.me # 0 /\
            x.pc \in {"row", "own", "password", "get", "unlock", "undo grants", "undo share"}
    /\ x.pc \in {"password", "undo grants", "undo share"} => x.flag
    /\ x.pc \in OnShare => x.share # 0
    /\ x.op = "grant" => x.what \in Perm
    /\ x.pc = "put grant" => x.op = "grant"
    /\ x.pc = "get user" => x.op = "grant"
    /\ x.op = "update" => x.what \in Codec
    /\ x.pc = "set" => x.op = "update"
    /\ x.pc \in {"count", "purge", "meta"} => x.op = "delete"

SessPc  == {"none", "share", "grant", "read", "create", "key", "seal", "store"}
Session == [user : 0..MaxUser, op : {"none", "read", "put", "patch"}, pc : SessPc,
            share : 0..MaxShare, row : ShareRow \cup {Nil}, fs : ShareFS \cup {Nil},
            base : Slices \cup {Nil}, key : {"plain", "ring", "key", "zero"}]
SessionShape(x) ==
    /\ x.op = "none" <=> x.pc = "none"
    /\ x.op # "none" => x.user # 0 /\ x.share # 0
    /\ x.pc = "grant" => x.row # Nil
    /\ x.fs # Nil <=> x.pc \in {"read", "create", "key", "seal", "store"}
    /\ x.pc \in {"create", "key", "seal", "store"} => x.op \in {"put", "patch"} /\ x.base # Nil
    /\ x.pc \notin {"seal", "store"} => x.key = "plain"
    /\ x.pc = "seal" => x.key # "plain"
    /\ x.pc = "store" => x.key # "ring"

TablesTyped ==
    /\ user \in [UserIds -> UserRow \cup {Nil}]
    /\ token \in [TokenIds -> 0..MaxUser]
    /\ share \in [ShareIds -> ShareRow \cup {Nil}]
    /\ grant \in [ShareIds -> [UserIds -> Perm \cup {Nil}]]
    /\ file \in [ShareIds -> Version \cup {Nil}]
    /\ last \in [user : 0..MaxUser, share : 0..MaxShare, token : 0..MaxToken]
MemoryTyped ==
    /\ keyring \subseteq ShareIds
    /\ mount \in [UserIds -> [ShareIds -> ShareFS \cup {Nil}]]
RequestsTyped == req \in [Handlers -> Request] /\ \A a \in Handlers : RequestShape(req[a])
SessionsTyped == sess \in [Clients -> Session] /\ \A c \in Clients : SessionShape(sess[c])

(* An id that was not given yet names nothing, neither a row nor what a    *)
(* request or a client still holds.                                        *)
IdsGiven ==
    /\ \A u \in UserIds : user[u] # Nil => u <= last.user
    /\ \A s \in ShareIds : share[s] # Nil \/ file[s] # Nil \/ s \in keyring => s <= last.share
    /\ \A a \in Handlers : req[a].pc \in OnShare => req[a].share <= last.share
    /\ \A c \in Clients : sess[c].share <= last.share

(* Whether a share is encrypted is settled with its row; the check value   *)
(* comes later, from the request that creates it and from no other.        *)
Checked ==
    /\ \A s \in ShareIds : share[s] # Nil /\ share[s].keyed => share[s].enc
    /\ \A s \in keyring : share[s] # Nil => share[s].keyed
    /\ \A a \in Handlers : req[a].pc = "unlock" /\ req[a].share \in Shares =>
            share[req[a].share].keyed
    /\ \A a \in Handlers : Creating(a) /\ req[a].share \in Shares =>
            share[req[a].share].enc = req[a].flag
Typed == TablesTyped /\ MemoryTyped /\ RequestsTyped /\ SessionsTyped /\ IdsGiven /\ Checked
Base == Typed /\ faults \in Nat
-----------------------------------------------------------------------------
LEMMA ConstantFacts ==
    /\ MaxUser \in Nat /\ MaxShare \in Nat /\ MaxToken \in Nat /\ Granted \subseteq Perm
    /\ Nil \notin UserRow /\ Nil \notin ShareRow /\ Nil \notin Perm /\ Nil \notin Version
    /\ Nil \notin ShareFS /\ Nil \notin Slices
  BY AccessAssumption, SentinelAssumption

LEMMA NoSlices == <<>> \in Slices
<1>1. {} \in SUBSET (1..2)
  OBVIOUS
<1>2. <<>> \in [{} -> Slice]
  OBVIOUS
<1> QED
  BY <1>1, <1>2 DEF Slices

LEMMA NoReqTyped == NoReq \in Request /\ RequestShape(NoReq) /\ NoReq.pc = "none" /\ NoReq.op = "none"
  BY ConstantFacts DEF NoReq, Request, ReqOp, ReqPc, RequestShape, OnUser, OnShare

LEMMA NoSessTyped ==
    ASSUME NEW u \in 0..MaxUser
    PROVE  LET x == [NoSess EXCEPT !.user = u] IN
           /\ x \in Session /\ SessionShape(x) /\ x.op = "none" /\ x.pc = "none" /\ x.share = 0
           /\ x.fs = Nil /\ x.user = u
  BY ConstantFacts DEF NoSess, Session, SessPc, SessionShape

LEMMA InitTyped == Init => Base
<1> SUFFICES ASSUME Init
             PROVE  Base
  OBVIOUS
<1> USE ConstantFacts
<1>1. PICK e \in Earlier : /\ user = e.user /\ token = e.token /\ share = e.share
                           /\ grant = e.grant /\ file = e.file
  BY DEF Init
<1>2. Consistent(e)
  BY AccessAssumption
<1>3. /\ user \in [UserIds -> UserRow \cup {Nil}] /\ token \in [TokenIds -> 0..MaxUser]
      /\ share \in [ShareIds -> ShareRow \cup {Nil}]
      /\ grant \in [ShareIds -> [UserIds -> Perm \cup {Nil}]]
      /\ file \in [ShareIds -> Version \cup {Nil}]
      /\ \A s \in Shares : share[s].enc <=> share[s].keyed
      /\ \A s \in ShareIds : file[s] # Nil => s \in Shares
  BY <1>1, <1>2 DEF Consistent, Shares
<1>4. PICK u \in 0..MaxUser : Users = 1..u
  BY <1>1, <1>2 DEF Consistent, Users
<1>5. PICK s \in 0..MaxShare : Shares = 1..s
  BY <1>1, <1>2 DEF Consistent, Shares
<1>6. PICK t \in 0..MaxToken : {i \in TokenIds : token[i] # 0} = 1..t
  BY <1>1, <1>2 DEF Consistent
<1>7. last = [user |-> u, share |-> s, token |-> t]
  <2>1. \A n \in Nat : Cardinality(1..n) = n
    <3> SUFFICES ASSUME NEW n \in Nat
                 PROVE  Cardinality(1..n) = n
      OBVIOUS
    <3>1. Cardinality(1..n) = IF 1 > n THEN 0 ELSE n - 1 + 1
      BY FS_Interval
    <3> QED
      BY <3>1
  <2>2. u \in Nat /\ s \in Nat /\ t \in Nat
    OBVIOUS
  <2>3. Cardinality(Users) = u /\ Cardinality(Shares) = s
    BY <1>4, <1>5, <2>1, <2>2
  <2>4. Cardinality({i \in TokenIds : token[i] # 0}) = t
    BY <1>6, <2>1, <2>2, Zenon
  <2> QED
    BY <2>3, <2>4, Zenon DEF Init
<1>8. faults \in Nat
  BY DEF Init
<1>9. TablesTyped /\ MemoryTyped
  BY <1>3, <1>7, <1>8 DEF Init, TablesTyped, MemoryTyped
<1>10. \A a \in Handlers : req[a] = NoReq
  BY DEF Init
<1>11. RequestsTyped
  BY <1>10, NoReqTyped DEF Init, RequestsTyped
<1>12. \A c \in Clients : sess[c] = [NoSess EXCEPT !.user = 0]
  BY DEF Init, NoSess
<1>13. SessionsTyped
  BY <1>12, NoSessTyped DEF Init, SessionsTyped
<1>14. IdsGiven
  <2>1. \A i \in UserIds : user[i] # Nil => i <= last.user
    BY <1>4, <1>7 DEF Users
  <2>2. \A i \in ShareIds : share[i] # Nil \/ file[i] # Nil \/ i \in keyring => i <= last.share
    BY <1>3, <1>5, <1>7 DEF Shares, Init
  <2>3. \A a \in Handlers : req[a].pc \notin OnShare
    BY <1>10, NoReqTyped DEF OnShare
  <2>4. \A c \in Clients : sess[c].share <= last.share
    <3>1. \A c \in Clients : sess[c].share = 0
      BY <1>12 DEF NoSess
    <3> QED
      BY <1>7, <3>1
  <2> QED
    BY <2>1, <2>2, <2>3, <2>4 DEF IdsGiven
<1>15. Checked
  BY <1>3, <1>10, NoReqTyped DEF Checked, Init, Shares, Creating
<1> QED
  BY <1>8, <1>9, <1>11, <1>13, <1>14, <1>15 DEF Base, Typed
-----------------------------------------------------------------------------
(* A step of one request that gives no new share.                          *)
LEMMA RequestStep ==
    ASSUME RequestsTyped, NEW a \in Handlers, NEW x \in Request, RequestShape(x),
           req' = [req EXCEPT ![a] = x]
    PROVE  /\ RequestsTyped'
           /\ \A b \in Handlers : req'[b] = IF b = a THEN x ELSE req[b]
<1>1. /\ req' \in [Handlers -> Request]
      /\ \A b \in Handlers : req'[b] = IF b = a THEN x ELSE req[b]
  BY DEF RequestsTyped
<1>2. ASSUME NEW b \in Handlers
      PROVE  RequestShape(req[b])'
  <2>1. CASE b = a
    BY <1>1, <2>1 DEF RequestShape
  <2>2. CASE b # a
    BY <1>1, <2>2 DEF RequestsTyped, RequestShape
  <2> QED
    BY <2>1, <2>2
<1> QED
  BY <1>1, <1>2 DEF RequestsTyped

LEMMA RequestKeeps ==
    ASSUME Base, NEW a \in Handlers, NEW x \in Request, RequestShape(x),
           req' = [req EXCEPT ![a] = x], faults' \in Nat,
           TablesTyped', MemoryTyped', SessionsTyped',
           \A c \in Clients : sess'[c].share = sess[c].share,
           last.user <= last'.user, last'.share = last.share,
           \A u \in UserIds : user'[u] # Nil => user[u] # Nil \/ u <= last'.user,
           \A s \in ShareIds : share'[s] # Nil =>
                /\ share[s] # Nil /\ share'[s].enc = share[s].enc
                /\ share[s].keyed => share'[s].keyed
                /\ share'[s].keyed => share[s].enc,
           \A s \in ShareIds : file'[s] # Nil => file[s] # Nil,
           \A s \in keyring' : s \in keyring \/
                (s <= last.share /\ (share[s] # Nil => share[s].keyed)),
           x.pc \in OnShare => x.share <= last.share,
           x.pc = "unlock" /\ share'[x.share] # Nil => share'[x.share].keyed,
           x.op = "share" /\ x.pc # "row" =>
                /\ req[a].op = "share" /\ req[a].pc # "row"
                /\ x.share = req[a].share /\ x.flag = req[a].flag
    PROVE  Base'
<1> USE ConstantFacts
<1>1. RequestsTyped' /\ \A b \in Handlers : req'[b] = IF b = a THEN x ELSE req[b]
  BY RequestStep DEF Base, Typed
<1>2. \A b \in Handlers : /\ req[b] \in Request /\ RequestShape(req[b])
                          /\ req[b].pc \in OnShare => req[b].share \in ShareIds
                          /\ Creating(b) => req[b].pc \in OnShare
  <2> TAKE b \in Handlers
  <2>1. req[b] \in Request /\ RequestShape(req[b])
    BY DEF Base, Typed, RequestsTyped
  <2>2. req[b].pc \in OnShare => req[b].share \in ShareIds
    <3>1. req[b].share \in 0..MaxShare /\ (req[b].pc \in OnShare => req[b].share # 0)
      BY <2>1 DEF RequestShape, Request
    <3> QED
      BY <3>1 DEF ShareIds
  <2>3. Creating(b) => req[b].pc \in OnShare
    BY <2>1 DEF RequestShape, Creating, OnShare
  <2> QED
    BY <2>1, <2>2, <2>3
<1>3. /\ last \in [user : 0..MaxUser, share : 0..MaxShare, token : 0..MaxToken]
      /\ last' \in [user : 0..MaxUser, share : 0..MaxShare, token : 0..MaxToken]
  BY DEF Base, Typed, TablesTyped
<1>4. IdsGiven'
  <2>1. \A u \in UserIds : user'[u] # Nil => u <= last'.user
    BY <1>3 DEF Base, Typed, IdsGiven, UserIds
  <2>2. \A s \in ShareIds : share'[s] # Nil \/ file'[s] # Nil \/ s \in keyring' => s <= last'.share
    BY <1>3 DEF Base, Typed, IdsGiven
  <2>3. \A b \in Handlers : req'[b].pc \in OnShare => req'[b].share <= last'.share
    BY <1>1, <1>2, <1>3 DEF Base, Typed, IdsGiven
  <2>4. \A c \in Clients : sess'[c].share <= last'.share
    BY DEF Base, Typed, IdsGiven
  <2> QED
    BY <2>1, <2>2, <2>3, <2>4 DEF IdsGiven
<1>5. Checked'
  <2>1. \A s \in ShareIds : share'[s] # Nil /\ share'[s].keyed => share'[s].enc
    BY DEF Base, Typed, Checked
  <2>2. \A s \in keyring' : share'[s] # Nil => share'[s].keyed
    BY DEF Base, Typed, Checked, MemoryTyped
  <2>3. \A b \in Handlers : req'[b].pc = "unlock" /\ req'[b].share \in Shares' =>
            share'[req'[b].share].keyed
    <3> SUFFICES ASSUME NEW b \in Handlers, req'[b].pc = "unlock", req'[b].share \in Shares'
                 PROVE  share'[req'[b].share].keyed
      OBVIOUS
    <3>1. CASE b = a
      BY <1>1, <3>1 DEF Shares
    <3>2. CASE b # a
      <4>1. req'[b] = req[b] /\ req[b].share \in ShareIds /\ share'[req[b].share] # Nil
        BY <1>1, <3>2 DEF Shares
      <4>2. share[req[b].share].keyed
        BY <4>1 DEF Base, Typed, Checked, Shares
      <4> QED
        BY <4>1, <4>2
    <3> QED
      BY <3>1, <3>2
  <2>4. \A b \in Handlers : Creating(b)' /\ req'[b].share \in Shares' =>
            share'[req'[b].share].enc = req'[b].flag
    <3> SUFFICES ASSUME NEW b \in Handlers, Creating(b)', req'[b].share \in Shares'
                 PROVE  share'[req'[b].share].enc = req'[b].flag
      OBVIOUS
    <3>1. Creating(b) /\ req'[b].share = req[b].share /\ req'[b].flag = req[b].flag
      BY <1>1 DEF Creating
    <3> QED
      BY <3>1 DEF Base, Typed, Checked, Shares
  <2> QED
    BY <2>1, <2>2, <2>3, <2>4 DEF Checked, Shares
<1> QED
  BY <1>1, <1>4, <1>5 DEF Base, Typed

(* ... that changes no table at all.                                       *)
LEMMA RequestMoves ==
    ASSUME Base, NEW a \in Handlers, NEW x \in Request, RequestShape(x),
           req' = [req EXCEPT ![a] = x], faults' \in Nat, UNCHANGED <<tables, memory, sess>>,
           x.pc \in OnShare => x.share <= last.share,
           x.pc = "unlock" /\ x.share \in Shares => share[x.share].keyed,
           x.op = "share" /\ x.pc # "row" =>
                /\ req[a].op = "share" /\ req[a].pc # "row"
                /\ x.share = req[a].share /\ x.flag = req[a].flag
    PROVE  Base'
<1> USE ConstantFacts
<1>1. /\ UNCHANGED <<user, token, share, grant, file, last, keyring, mount, sess>>
  BY DEF tables, memory
<1>2. TablesTyped' /\ MemoryTyped' /\ SessionsTyped'
  BY <1>1 DEF Base, Typed, TablesTyped, MemoryTyped, SessionsTyped, SessionShape
<1>3. last.user <= last'.user
  BY <1>1 DEF Base, Typed, TablesTyped
<1>4. x.pc = "unlock" => x.share \in ShareIds
  BY DEF RequestShape, OnShare, Request, ShareIds
<1>5. \A s \in ShareIds : share[s] # Nil => (share[s].keyed => share[s].enc)
  BY DEF Base, Typed, Checked
<1> QED
  BY <1>1, <1>2, <1>3, <1>4, <1>5, RequestKeeps DEF Shares

LEMMA ArriveTyped ==
    ASSUME Base, NEW a \in Handlers, Arrive(a)
    PROVE  Base'
<1> USE ConstantFacts
<1>i. /\ \A u \in Users : u \in 0..MaxUser /\ u # 0
      /\ \A u \in Admins : u \in 0..MaxUser /\ u # 0
      /\ \A s \in Shares : s \in 0..MaxShare /\ s # 0 /\ s <= last.share
      /\ \A t \in TokenIds : t \in 0..MaxToken /\ t # 0
  BY DEF Users, Admins, Shares, Base, Typed, IdsGiven, UserIds, ShareIds, TokenIds
<1>v. /\ Role \subseteq Role \cup Perm \cup Codec \cup {Nil}
      /\ Codec \subseteq Role \cup Perm \cup Codec \cup {Nil}
      /\ Granted \subseteq Role \cup Perm \cup Codec \cup {Nil}
  OBVIOUS
<1>s. ASSUME NEW x \in Request, RequestShape(x), Start(a, x),
             x.pc \in OnShare => x.share \in Shares,
             x.pc # "unlock", x.op = "share" => x.pc = "row"
      PROVE  Base'
  <2>1. req' = [req EXCEPT ![a] = x] /\ UNCHANGED <<tables, memory, sess, faults>>
    BY <1>s DEF Start
  <2>2. faults' \in Nat
    BY <2>1 DEF Base
  <2> QED
    BY <1>s, <1>i, <2>1, <2>2, RequestMoves
<1>1. ASSUME NEW n \in Names, Bootstrap(a, n)
      PROVE  Base'
  <2> DEFINE x == [NoReq EXCEPT !.op = "bootstrap", !.pc = "users", !.name = n, !.what = "admin"]
  <2>1. /\ x.op = "bootstrap" /\ x.pc = "users" /\ x.me = 0 /\ x.user = 0 /\ x.share = 0
        /\ x.token = 0 /\ x.name = n /\ x.what = "admin" /\ x.flag = FALSE
    BY DEF NoReq
  <2>2. "bootstrap" \in ReqOp /\ "users" \in ReqPc /\ "admin" \in Role
    BY DEF ReqOp, ReqPc, OnUser, OnShare, Role
  <2>3. x \in Request
    BY <1>i, <1>v, <2>2, NoReqTyped DEF Request
  <2>4. Start(a, x)
    BY <1>1 DEF Bootstrap
  <2>5. RequestShape(x)
    BY <1>i, <1>1, <2>1 DEF RequestShape, OnUser, OnShare, Role, Bootstrap
  <2> HIDE DEF x
  <2> QED
    BY <1>s, <2>1, <2>3, <2>4, <2>5 DEF OnShare
<1>2. ASSUME NEW u \in Users, CreateToken(a, u)
      PROVE  Base'
  <2> DEFINE x == [NoReq EXCEPT !.op = "token", !.pc = "owner", !.user = u]
  <2>1. /\ x.op = "token" /\ x.pc = "owner" /\ x.me = 0 /\ x.user = u /\ x.share = 0
        /\ x.token = 0 /\ x.name = Nil /\ x.what = Nil /\ x.flag = FALSE
    BY DEF NoReq
  <2>2. "token" \in ReqOp /\ "owner" \in ReqPc
    BY DEF ReqOp, ReqPc, OnUser, OnShare, Role
  <2>3. x \in Request
    BY <1>i, <1>v, <2>2, NoReqTyped DEF Request
  <2>4. Start(a, x)
    BY <1>2 DEF CreateToken
  <2>5. RequestShape(x)
    BY <1>i, <1>2, <2>1 DEF RequestShape, OnUser, OnShare, CreateToken
  <2> HIDE DEF x
  <2> QED
    BY <1>s, <2>1, <2>3, <2>4, <2>5 DEF OnShare
<1>3. ASSUME NEW t \in TokenIds, RevokeToken(a, t)
      PROVE  Base'
  <2> DEFINE x == [NoReq EXCEPT !.op = "revoke token", !.pc = "revoke token", !.token = t]
  <2>1. /\ x.op = "revoke token" /\ x.pc = "revoke token" /\ x.me = 0 /\ x.user = 0 /\ x.share = 0
        /\ x.token = t /\ x.name = Nil /\ x.what = Nil /\ x.flag = FALSE
    BY DEF NoReq
  <2>2. "revoke token" \in ReqOp /\ "revoke token" \in ReqPc
    BY DEF ReqOp, ReqPc, OnUser, OnShare, Role
  <2>3. x \in Request
    BY <1>i, <1>v, <2>2, NoReqTyped DEF Request
  <2>4. Start(a, x)
    BY <1>3 DEF RevokeToken
  <2>5. RequestShape(x)
    BY <1>i, <1>3, <2>1 DEF RequestShape, OnUser, OnShare, RevokeToken
  <2> HIDE DEF x
  <2> QED
    BY <1>s, <2>1, <2>3, <2>4, <2>5 DEF OnShare
<1>4. ASSUME NEW me \in Admins, NEW n \in Names, NEW r \in Role, CreateUser(a, me, n, r)
      PROVE  Base'
  <2> DEFINE x == [NoReq EXCEPT !.op = "user", !.pc = "name", !.me = me, !.name = n, !.what = r]
  <2>1. /\ x.op = "user" /\ x.pc = "name" /\ x.me = me /\ x.user = 0 /\ x.share = 0
        /\ x.token = 0 /\ x.name = n /\ x.what = r /\ x.flag = FALSE
    BY DEF NoReq
  <2>2. "user" \in ReqOp /\ "name" \in ReqPc
    BY DEF ReqOp, ReqPc, OnUser, OnShare, Role
  <2>3. x \in Request
    BY <1>i, <1>v, <2>2, NoReqTyped DEF Request
  <2>4. Start(a, x)
    BY <1>4 DEF CreateUser
  <2>5. RequestShape(x)
    BY <1>i, <1>4, <2>1 DEF RequestShape, OnUser, OnShare, CreateUser
  <2> HIDE DEF x
  <2> QED
    BY <1>s, <2>1, <2>3, <2>4, <2>5 DEF OnShare
<1>5. ASSUME NEW me \in Admins, NEW u \in Users, DeleteUser(a, me, u)
      PROVE  Base'
  <2> DEFINE x == [NoReq EXCEPT !.op = "drop user", !.pc = "drop user", !.me = me, !.user = u]
  <2>1. /\ x.op = "drop user" /\ x.pc = "drop user" /\ x.me = me /\ x.user = u /\ x.share = 0
        /\ x.token = 0 /\ x.name = Nil /\ x.what = Nil /\ x.flag = FALSE
    BY DEF NoReq
  <2>2. "drop user" \in ReqOp /\ "drop user" \in ReqPc
    BY DEF ReqOp, ReqPc, OnUser, OnShare, Role
  <2>3. x \in Request
    BY <1>i, <1>v, <2>2, NoReqTyped DEF Request
  <2>4. Start(a, x)
    BY <1>5 DEF DeleteUser
  <2>5. RequestShape(x)
    BY <1>i, <1>5, <2>1 DEF RequestShape, OnUser, OnShare, DeleteUser
  <2> HIDE DEF x
  <2> QED
    BY <1>s, <2>1, <2>3, <2>4, <2>5 DEF OnShare
<1>6. ASSUME NEW me \in Admins, NEW u \in Users, NEW r \in Role, SetRole(a, me, u, r)
      PROVE  Base'
  <2> DEFINE x == [NoReq EXCEPT !.op = "role", !.pc = "role", !.me = me, !.user = u, !.what = r]
  <2>1. /\ x.op = "role" /\ x.pc = "role" /\ x.me = me /\ x.user = u /\ x.share = 0
        /\ x.token = 0 /\ x.name = Nil /\ x.what = r /\ x.flag = FALSE
    BY DEF NoReq
  <2>2. "role" \in ReqOp /\ "role" \in ReqPc
    BY DEF ReqOp, ReqPc, OnUser, OnShare, Role
  <2>3. x \in Request
    BY <1>i, <1>v, <2>2, NoReqTyped DEF Request
  <2>4. Start(a, x)
    BY <1>6 DEF SetRole
  <2>5. RequestShape(x)
    BY <1>i, <1>6, <2>1 DEF RequestShape, OnUser, OnShare, SetRole
  <2> HIDE DEF x
  <2> QED
    BY <1>s, <2>1, <2>3, <2>4, <2>5 DEF OnShare
<1>7. ASSUME NEW me \in Admins, NEW enc \in BOOLEAN, CreateShare(a, me, enc)
      PROVE  Base'
  <2> DEFINE x == [NoReq EXCEPT !.op = "share", !.pc = "row", !.me = me, !.flag = enc]
  <2>1. /\ x.op = "share" /\ x.pc = "row" /\ x.me = me /\ x.user = 0 /\ x.share = 0
        /\ x.token = 0 /\ x.name = Nil /\ x.what = Nil /\ x.flag = enc
    BY DEF NoReq
  <2>2. "share" \in ReqOp /\ "row" \in ReqPc
    BY DEF ReqOp, ReqPc, OnUser, OnShare, Role
  <2>3. x \in Request
    BY <1>i, <1>v, <2>2, NoReqTyped DEF Request
  <2>4. Start(a, x)
    BY <1>7 DEF CreateShare
  <2>5. RequestShape(x)
    BY <1>i, <1>7, <2>1 DEF RequestShape, OnUser, OnShare, CreateShare
  <2> HIDE DEF x
  <2> QED
    BY <1>s, <2>1, <2>3, <2>4, <2>5 DEF OnShare
<1>8. ASSUME NEW me \in Admins, NEW s \in Shares, Unlock(a, me, s)
      PROVE  Base'
  <2> DEFINE x == [NoReq EXCEPT !.op = "unlock", !.pc = "get", !.me = me, !.share = s]
  <2>1. /\ x.op = "unlock" /\ x.pc = "get" /\ x.me = me /\ x.user = 0 /\ x.share = s
        /\ x.token = 0 /\ x.name = Nil /\ x.what = Nil /\ x.flag = FALSE
    BY DEF NoReq
  <2>2. "unlock" \in ReqOp /\ "get" \in ReqPc
    BY DEF ReqOp, ReqPc, OnUser, OnShare, Role
  <2>3. x \in Request
    BY <1>i, <1>v, <2>2, NoReqTyped DEF Request
  <2>4. Start(a, x)
    BY <1>8 DEF Unlock
  <2>5. RequestShape(x)
    BY <1>i, <1>8, <2>1 DEF RequestShape, OnUser, OnShare, Unlock
  <2> HIDE DEF x
  <2> QED
    BY <1>s, <2>1, <2>3, <2>4, <2>5 DEF OnShare
<1>9. ASSUME NEW me \in Admins, NEW s \in Shares, Lock(a, me, s)
      PROVE  Base'
  <2> DEFINE x == [NoReq EXCEPT !.op = "lock", !.pc = "get", !.me = me, !.share = s]
  <2>1. /\ x.op = "lock" /\ x.pc = "get" /\ x.me = me /\ x.user = 0 /\ x.share = s
        /\ x.token = 0 /\ x.name = Nil /\ x.what = Nil /\ x.flag = FALSE
    BY DEF NoReq
  <2>2. "lock" \in ReqOp /\ "get" \in ReqPc
    BY DEF ReqOp, ReqPc, OnUser, OnShare, Role
  <2>3. x \in Request
    BY <1>i, <1>v, <2>2, NoReqTyped DEF Request
  <2>4. Start(a, x)
    BY <1>9 DEF Lock
  <2>5. RequestShape(x)
    BY <1>i, <1>9, <2>1 DEF RequestShape, OnUser, OnShare, Lock
  <2> HIDE DEF x
  <2> QED
    BY <1>s, <2>1, <2>3, <2>4, <2>5 DEF OnShare
<1>10. ASSUME NEW me \in Admins, NEW s \in Shares, NEW f \in BOOLEAN, DeleteShare(a, me, s, f)
      PROVE  Base'
  <2> DEFINE x == [NoReq EXCEPT !.op = "delete", !.pc = "get", !.me = me, !.share = s, !.flag = f]
  <2>1. /\ x.op = "delete" /\ x.pc = "get" /\ x.me = me /\ x.user = 0 /\ x.share = s
        /\ x.token = 0 /\ x.name = Nil /\ x.what = Nil /\ x.flag = f
    BY DEF NoReq
  <2>2. "delete" \in ReqOp /\ "get" \in ReqPc
    BY DEF ReqOp, ReqPc, OnUser, OnShare, Role
  <2>3. x \in Request
    BY <1>i, <1>v, <2>2, NoReqTyped DEF Request
  <2>4. Start(a, x)
    BY <1>10 DEF DeleteShare
  <2>5. RequestShape(x)
    BY <1>i, <1>10, <2>1 DEF RequestShape, OnUser, OnShare, DeleteShare
  <2> HIDE DEF x
  <2> QED
    BY <1>s, <2>1, <2>3, <2>4, <2>5 DEF OnShare
<1>11. ASSUME NEW me \in Admins, NEW s \in Shares, NEW z \in Codec, UpdateShare(a, me, s, z)
      PROVE  Base'
  <2> DEFINE x == [NoReq EXCEPT !.op = "update", !.pc = "get", !.me = me, !.share = s, !.what = z]
  <2>1. /\ x.op = "update" /\ x.pc = "get" /\ x.me = me /\ x.user = 0 /\ x.share = s
        /\ x.token = 0 /\ x.name = Nil /\ x.what = z /\ x.flag = FALSE
    BY DEF NoReq
  <2>2. "update" \in ReqOp /\ "get" \in ReqPc
    BY DEF ReqOp, ReqPc, OnUser, OnShare, Role
  <2>3. x \in Request
    BY <1>i, <1>v, <2>2, NoReqTyped DEF Request
  <2>4. Start(a, x)
    BY <1>11 DEF UpdateShare
  <2>5. RequestShape(x)
    BY <1>i, <1>11, <2>1 DEF RequestShape, OnUser, OnShare, UpdateShare
  <2> HIDE DEF x
  <2> QED
    BY <1>s, <2>1, <2>3, <2>4, <2>5 DEF OnShare
<1>12. ASSUME NEW me \in Admins, NEW s \in Shares, NEW u \in Users, Revoke(a, me, s, u)
      PROVE  Base'
  <2> DEFINE x == [NoReq EXCEPT !.op = "revoke", !.pc = "revoke", !.me = me, !.share = s, !.user = u]
  <2>1. /\ x.op = "revoke" /\ x.pc = "revoke" /\ x.me = me /\ x.user = u /\ x.share = s
        /\ x.token = 0 /\ x.name = Nil /\ x.what = Nil /\ x.flag = FALSE
    BY DEF NoReq
  <2>2. "revoke" \in ReqOp /\ "revoke" \in ReqPc
    BY DEF ReqOp, ReqPc, OnUser, OnShare, Role
  <2>3. x \in Request
    BY <1>i, <1>v, <2>2, NoReqTyped DEF Request
  <2>4. Start(a, x)
    BY <1>12 DEF Revoke
  <2>5. RequestShape(x)
    BY <1>i, <1>12, <2>1 DEF RequestShape, OnUser, OnShare, Revoke
  <2> HIDE DEF x
  <2> QED
    BY <1>s, <2>1, <2>3, <2>4, <2>5 DEF OnShare
<1>13. ASSUME NEW me \in Admins, NEW s \in Shares, NEW u \in Users, NEW p \in Granted, Grant(a, me, s, u, p)
      PROVE  Base'
  <2> DEFINE x == [NoReq EXCEPT !.op = "grant", !.pc = "get", !.me = me, !.share = s, !.user = u, !.what = p]
  <2>1. /\ x.op = "grant" /\ x.pc = "get" /\ x.me = me /\ x.user = u /\ x.share = s
        /\ x.token = 0 /\ x.name = Nil /\ x.what = p /\ x.flag = FALSE
    BY DEF NoReq
  <2>2. "grant" \in ReqOp /\ "get" \in ReqPc
    BY DEF ReqOp, ReqPc, OnUser, OnShare, Role
  <2>3. x \in Request
    BY <1>i, <1>v, <2>2, NoReqTyped DEF Request
  <2>4. Start(a, x)
    BY <1>13 DEF Grant
  <2>5. RequestShape(x)
    BY <1>i, <1>13, <2>1 DEF RequestShape, OnUser, OnShare, Grant
  <2> HIDE DEF x
  <2> QED
    BY <1>s, <2>1, <2>3, <2>4, <2>5 DEF OnShare
<1> QED
  BY <1>1, <1>2, <1>3, <1>4, <1>5, <1>6, <1>7, <1>8, <1>9, <1>10, <1>11, <1>12, <1>13, Zenon DEF Arrive

LEMMA Advanced ==
    ASSUME RequestsTyped, NEW a \in Handlers, NEW pc \in ReqPc
    PROVE  LET x == [req[a] EXCEPT !.pc = pc] IN
           /\ x \in Request /\ x.pc = pc /\ x.op = req[a].op /\ x.me = req[a].me
           /\ x.user = req[a].user /\ x.share = req[a].share /\ x.token = req[a].token
           /\ x.name = req[a].name /\ x.what = req[a].what /\ x.flag = req[a].flag
           /\ GoTo(a, pc) => req' = [req EXCEPT ![a] = x]
<1>1. req[a] \in Request
  BY DEF RequestsTyped
<1> QED
  BY <1>1 DEF Request, GoTo

LEMMA AnswerTyped ==
    ASSUME Base, NEW a \in Handlers, Answer(a), UNCHANGED <<tables, memory, sess>>, faults' \in Nat
    PROVE  Base'
  BY NoReqTyped, RequestMoves DEF Answer, OnShare

LEMMA GoToTyped ==
    ASSUME Base, NEW a \in Handlers, NEW pc \in ReqPc, GoTo(a, pc),
           UNCHANGED <<tables, memory, sess>>, faults' \in Nat,
           RequestShape([req[a] EXCEPT !.pc = pc]),
           pc \in OnShare => req[a].pc \in OnShare,
           req[a].op = "share" => req[a].pc # "row",
           pc = "unlock" /\ req[a].share \in Shares => share[req[a].share].keyed
    PROVE  Base'
<1> DEFINE x == [req[a] EXCEPT !.pc = pc]
<1>1. /\ x \in Request /\ x.pc = pc /\ x.share = req[a].share /\ x.op = req[a].op
      /\ x.flag = req[a].flag /\ req' = [req EXCEPT ![a] = x] /\ RequestShape(x)
  BY Advanced DEF Base, Typed
<1>2. req[a].pc \in OnShare => req[a].share <= last.share
  BY DEF Base, Typed, IdsGiven
<1> HIDE DEF x
<1> QED
  BY <1>1, <1>2, RequestMoves

LEMMA MoveTyped ==
    ASSUME Base, NEW a \in Handlers,
           \/ HasUsers(a) \/ UsernameTaken(a) \/ RequireUser(a) \/ GetShare(a) \/ GetUser(a)
           \/ CountFiles(a) \/ SetPasswordFails(a) \/ FailRequest(a)
    PROVE  Base'
<1> DEFINE x(pc) == [req[a] EXCEPT !.pc = pc]
<1>r. req[a] \in Request /\ RequestShape(req[a]) /\ faults \in Nat
  BY DEF Base, Typed, RequestsTyped
<1>p. /\ "name" \in ReqPc /\ "insert user" \in ReqPc /\ "insert token" \in ReqPc
      /\ "get user" \in ReqPc /\ "put grant" \in ReqPc /\ "set" \in ReqPc /\ "lock" \in ReqPc
      /\ "count" \in ReqPc /\ "unlock" \in ReqPc /\ "purge" \in ReqPc /\ "undo grants" \in ReqPc
  BY DEF ReqPc, OnUser, OnShare
<1>x. \A pc \in ReqPc :
        /\ x(pc).pc = pc /\ x(pc).op = req[a].op /\ x(pc).me = req[a].me
        /\ x(pc).user = req[a].user /\ x(pc).share = req[a].share /\ x(pc).token = req[a].token
        /\ x(pc).name = req[a].name /\ x(pc).what = req[a].what /\ x(pc).flag = req[a].flag
  BY Advanced DEF Base, Typed
<1> HIDE DEF x
<1>g. ASSUME NEW pc \in ReqPc, GoTo(a, pc), UNCHANGED <<tables, memory, sess>>, faults' \in Nat,
             RequestShape(x(pc)), pc \in OnShare => req[a].pc \in OnShare,
             req[a].op = "share" => req[a].pc # "row",
             pc = "unlock" /\ req[a].share \in Shares => share[req[a].share].keyed
      PROVE  Base'
  BY <1>g, GoToTyped DEF x
<1>1. CASE HasUsers(a)
  <2>1. RequestShape(x("name")) /\ req[a].op # "share"
    BY <1>r, <1>p, <1>x, <1>1 DEF HasUsers, RequestShape, OnUser, OnShare
  <2> QED
    BY <1>g, <1>r, <1>p, <1>1, <2>1, AnswerTyped DEF HasUsers, Ask, OnShare
<1>2. CASE UsernameTaken(a)
  <2>1. RequestShape(x("insert user")) /\ req[a].op # "share"
    BY <1>r, <1>p, <1>x, <1>2 DEF UsernameTaken, RequestShape, OnUser, OnShare
  <2> QED
    BY <1>g, <1>r, <1>p, <1>2, <2>1, AnswerTyped DEF UsernameTaken, Ask, OnShare
<1>3. CASE RequireUser(a)
  <2>1. RequestShape(x("insert token")) /\ req[a].op # "share"
    BY <1>r, <1>p, <1>x, <1>3 DEF RequireUser, RequestShape, OnUser, OnShare
  <2> QED
    BY <1>g, <1>r, <1>p, <1>3, <2>1, AnswerTyped DEF RequireUser, Ask, OnShare
<1>4. CASE GetShare(a)
  <2>0. req[a].pc = "get" /\ req[a].pc \in OnShare
    BY <1>4 DEF GetShare, OnShare
  <2>1. CASE req[a].op = "grant"
    <3>1. RequestShape(x("get user"))
      BY <1>r, <1>p, <1>x, <2>0, <2>1 DEF RequestShape, OnUser, OnShare
    <3> QED
      BY <1>g, <1>r, <1>p, <1>4, <2>0, <2>1, <3>1, AnswerTyped DEF GetShare, Ask
  <2>2. CASE req[a].op = "update"
    <3>1. RequestShape(x("set"))
      BY <1>r, <1>p, <1>x, <2>0, <2>2 DEF RequestShape, OnUser, OnShare
    <3> QED
      BY <1>g, <1>r, <1>p, <1>4, <2>0, <2>2, <3>1, AnswerTyped DEF GetShare, Ask
  <2>3. CASE req[a].op = "lock"
    <3>1. RequestShape(x("lock"))
      BY <1>r, <1>p, <1>x, <2>0, <2>3 DEF RequestShape, OnUser, OnShare
    <3> QED
      BY <1>g, <1>r, <1>p, <1>4, <2>0, <2>3, <3>1, AnswerTyped DEF GetShare, Ask
  <2>4. CASE req[a].op = "delete"
    <3>1. RequestShape(x("count"))
      BY <1>r, <1>p, <1>x, <2>0, <2>4 DEF RequestShape, OnUser, OnShare
    <3> QED
      BY <1>g, <1>r, <1>p, <1>4, <2>0, <2>4, <3>1, AnswerTyped DEF GetShare, Ask
  <2>5. CASE req[a].op \notin {"grant", "update", "lock", "delete"}
    <3>1. RequestShape(x("unlock"))
      BY <1>r, <1>p, <1>x, <2>0, <2>5 DEF RequestShape, OnUser, OnShare
    <3> QED
      BY <1>g, <1>r, <1>p, <1>4, <2>0, <2>5, <3>1, AnswerTyped DEF GetShare, Ask
  <2> QED
    BY <2>1, <2>2, <2>3, <2>4, <2>5
<1>5. CASE GetUser(a)
  <2>1. RequestShape(x("put grant")) /\ req[a].pc \in OnShare /\ req[a].op # "share"
    BY <1>r, <1>p, <1>x, <1>5 DEF GetUser, RequestShape, OnUser, OnShare
  <2> QED
    BY <1>g, <1>r, <1>p, <1>5, <2>1, AnswerTyped DEF GetUser, Ask
<1>6. CASE CountFiles(a)
  <2>1. RequestShape(x("purge")) /\ req[a].pc \in OnShare /\ req[a].op # "share"
    BY <1>r, <1>p, <1>x, <1>6 DEF CountFiles, RequestShape, OnUser, OnShare
  <2> QED
    BY <1>g, <1>r, <1>p, <1>6, <2>1, AnswerTyped DEF CountFiles, Ask
<1>7. CASE SetPasswordFails(a)
  <2>1. RequestShape(x("undo grants")) /\ req[a].pc \in OnShare /\ req[a].pc # "row"
    BY <1>r, <1>p, <1>x, <1>7 DEF SetPasswordFails, RequestShape, OnUser, OnShare
  <2>2. GoTo(a, "undo grants") /\ UNCHANGED <<tables, memory, sess>>
    BY <1>7 DEF SetPasswordFails
  <2>3. faults' \in Nat
    <3>1. faults' = faults + 1
      BY <1>7 DEF SetPasswordFails
    <3> QED
      BY <1>r, <3>1
  <2> QED
    BY <1>g, <1>p, <2>1, <2>2, <2>3
<1>8. CASE FailRequest(a)
  <2>1. Answer(a) /\ UNCHANGED <<tables, memory, sess>>
    BY <1>8 DEF FailRequest
  <2>2. faults' \in Nat
    <3>1. faults' = faults + 1
      BY <1>8 DEF FailRequest
    <3> QED
      BY <1>r, <3>1
  <2> QED
    BY <2>1, <2>2, AnswerTyped
<1> QED
  BY <1>1, <1>2, <1>3, <1>4, <1>5, <1>6, <1>7, <1>8

(* What a request has filled in when it comes to a step.                   *)
LEMMA RequestFacts ==
    ASSUME Typed, NEW a \in Handlers
    PROVE  /\ req[a] \in Request /\ RequestShape(req[a])
           /\ req[a].pc \in OnUser => req[a].user \in UserIds
           /\ req[a].pc \in OnShare => req[a].share \in ShareIds /\ req[a].share <= last.share
           /\ req[a].op = "share" => req[a].me \in UserIds
           /\ req[a].pc = "revoke token" => req[a].token \in TokenIds
<1>1. req[a] \in Request /\ RequestShape(req[a])
  BY DEF Typed, RequestsTyped
<1>2. /\ req[a].user \in 0..MaxUser /\ req[a].share \in 0..MaxShare /\ req[a].me \in 0..MaxUser
      /\ req[a].token \in 0..MaxToken
  BY <1>1 DEF Request
<1>3. /\ req[a].pc \in OnUser => req[a].user # 0
      /\ req[a].pc \in OnShare => req[a].share # 0
      /\ req[a].op = "share" => req[a].me # 0
      /\ req[a].pc = "revoke token" => req[a].token # 0
  BY <1>1 DEF RequestShape
<1>4. req[a].pc \in OnShare => req[a].share <= last.share
  BY DEF Typed, IdsGiven
<1>5. /\ \A i \in 0..MaxUser : i # 0 => i \in UserIds
      /\ \A i \in 0..MaxShare : i # 0 => i \in ShareIds
      /\ \A i \in 0..MaxToken : i # 0 => i \in TokenIds
  BY ConstantFacts DEF UserIds, ShareIds, TokenIds
<1> QED
  BY <1>1, <1>2, <1>3, <1>4, <1>5

LEMMA GrantSet ==
    ASSUME TablesTyped, NEW s \in ShareIds, NEW u \in UserIds, NEW p \in Perm \cup {Nil},
           grant' = [grant EXCEPT ![s][u] = p]
    PROVE  /\ grant' \in [ShareIds -> [UserIds -> Perm \cup {Nil}]]
           /\ \A t \in ShareIds, v \in UserIds :
                grant'[t][v] = IF t = s /\ v = u THEN p ELSE grant[t][v]
<1>1. grant \in [ShareIds -> [UserIds -> Perm \cup {Nil}]]
  BY DEF TablesTyped
<1>2. [grant[s] EXCEPT ![u] = p] \in [UserIds -> Perm \cup {Nil}]
  BY <1>1
<1>3. grant' = [grant EXCEPT ![s] = [grant[s] EXCEPT ![u] = p]]
  BY <1>1
<1> QED
  BY <1>1, <1>2, <1>3

LEMMA GrantsCleared ==
    ASSUME TablesTyped, NEW s \in ShareIds,
           grant' = [grant EXCEPT ![s] = [u \in UserIds |-> Nil]]
    PROVE  /\ grant' \in [ShareIds -> [UserIds -> Perm \cup {Nil}]]
           /\ \A t \in ShareIds, v \in UserIds :
                grant'[t][v] = IF t = s THEN Nil ELSE grant[t][v]
  BY DEF TablesTyped

(* A request that is answered with a change of the tables that gives no    *)
(* new share.                                                              *)
LEMMA AnswerKeeps ==
    ASSUME Base, NEW a \in Handlers, Answer(a), faults' = faults,
           TablesTyped', MemoryTyped', SessionsTyped',
           \A c \in Clients : sess'[c].share = sess[c].share,
           last.user <= last'.user, last'.share = last.share,
           \A u \in UserIds : user'[u] # Nil => user[u] # Nil \/ u <= last'.user,
           \A s \in ShareIds : share'[s] # Nil =>
                /\ share[s] # Nil /\ share'[s].enc = share[s].enc
                /\ share[s].keyed <=> share'[s].keyed,
           \A s \in ShareIds : file'[s] # Nil => file[s] # Nil,
           \A s \in keyring' : s \in keyring \/
                (s <= last.share /\ (share[s] # Nil => share[s].keyed))
    PROVE  Base'
<1>1. req' = [req EXCEPT ![a] = NoReq] /\ faults' \in Nat
  BY DEF Answer, Base
<1>2. \A s \in ShareIds : share[s] # Nil => (share[s].keyed => share[s].enc)
  BY DEF Base, Typed, Checked
<1>3. NoReq.pc \notin OnShare /\ NoReq.pc # "unlock" /\ NoReq.op # "share"
  BY NoReqTyped DEF OnShare
<1> QED
  BY <1>1, <1>2, <1>3, NoReqTyped, RequestKeeps

LEMMA UserStepTyped ==
    ASSUME Base, NEW a \in Handlers,
           \/ InsertUser(a) \/ DropUser(a) \/ UpdateUser(a) \/ InsertToken(a) \/ DropToken(a)
           \/ DropGrant(a) \/ PutGrant(a)
    PROVE  Base'
<1> USE ConstantFacts
<1>t. /\ TablesTyped /\ MemoryTyped /\ SessionsTyped
      /\ user \in [UserIds -> UserRow \cup {Nil}] /\ token \in [TokenIds -> 0..MaxUser]
      /\ grant \in [ShareIds -> [UserIds -> Perm \cup {Nil}]]
      /\ last \in [user : 0..MaxUser, share : 0..MaxShare, token : 0..MaxToken]
  BY DEF Base, Typed, TablesTyped
<1>l. /\ last.user \in 0..MaxUser /\ last.token \in 0..MaxToken
      /\ last.user <= last.user
  BY <1>t
<1>r. /\ req[a] \in Request /\ RequestShape(req[a])
      /\ req[a].pc \in OnUser => req[a].user \in UserIds
      /\ req[a].pc \in OnShare => req[a].share \in ShareIds
      /\ req[a].pc = "revoke token" => req[a].token \in TokenIds
  BY RequestFacts DEF Base
<1>s. ASSUME UNCHANGED <<sess, keyring, mount>>
      PROVE  /\ MemoryTyped' /\ SessionsTyped'
             /\ \A c \in Clients : sess'[c].share = sess[c].share
             /\ keyring' = keyring
  BY <1>s, <1>t DEF MemoryTyped, SessionsTyped, SessionShape
<1>k. ASSUME Answer(a), faults' = faults, TablesTyped', UNCHANGED <<sess, keyring, mount, share, file>>,
             last.user <= last'.user, last'.share = last.share,
             \A u \in UserIds : user'[u] # Nil => user[u] # Nil \/ u <= last'.user
      PROVE  Base'
  BY <1>k, <1>s, AnswerKeeps
<1>1. CASE InsertUser(a)
  <2>1. /\ req[a].pc = "insert user" /\ Answer(a) /\ UNCHANGED <<token, share, grant, file, faults>>
        /\ UNCHANGED <<sess, keyring, mount>>
    BY <1>1 DEF InsertUser, memory
  <2>2. CASE UNCHANGED <<user, last>>
    <3>1. TablesTyped'
      BY <1>t, <2>1, <2>2 DEF TablesTyped
    <3> QED
      BY <1>k, <1>l, <2>1, <2>2, <3>1
  <2>3. CASE ~UNCHANGED <<user, last>>
    <3> DEFINE r == [name |-> req[a].name, role |-> req[a].what]
               n == last.user + 1
    <3>1. /\ last.user < MaxUser /\ last' = [last EXCEPT !.user = n]
          /\ user' = [user EXCEPT ![n] = r]
      BY <1>1, <2>3 DEF InsertUser
    <3>2. r \in UserRow /\ n \in UserIds
      <4>1. req[a].name \in Names /\ req[a].what \in Role
        BY <1>r, <2>1 DEF RequestShape
      <4>2. n \in UserIds
        BY <1>l, <3>1 DEF UserIds
      <4> QED
        BY <4>1, <4>2 DEF UserRow
    <3>3. user' \in [UserIds -> UserRow \cup {Nil}]
      BY <1>t, <3>1, <3>2
    <3>4. /\ last' \in [user : 0..MaxUser, share : 0..MaxShare, token : 0..MaxToken]
          /\ last'.user = n /\ last'.share = last.share /\ last.user <= n
      BY <1>t, <3>1
    <3>6. TablesTyped'
      BY <1>t, <2>1, <3>3, <3>4 DEF TablesTyped
    <3>7. \A u \in UserIds : user'[u] # Nil => user[u] # Nil \/ u <= last'.user
      BY <1>t, <3>1, <3>2, <3>4 DEF UserIds
    <3> QED
      BY <1>k, <2>1, <3>4, <3>6, <3>7
  <2> QED
    BY <2>2, <2>3
<1>2. CASE DropUser(a)
  <2>1. /\ Answer(a) /\ UNCHANGED <<share, file, last, faults, sess, keyring, mount>>
    BY <1>2 DEF DropUser, memory
  <2>2. /\ user' \in [UserIds -> UserRow \cup {Nil}]
        /\ \A u \in UserIds : user'[u] # Nil => user[u] # Nil
    BY <1>2, <1>r, <1>t DEF DropUser, OnUser
  <2>3. token' \in [TokenIds -> 0..MaxUser]
    <3>1. \/ token' = [i \in TokenIds |-> IF token[i] = req[a].user THEN 0 ELSE token[i]]
          \/ token' = token
      BY <1>2 DEF DropUser
    <3> QED
      BY <1>t, <3>1
  <2>4. grant' \in [ShareIds -> [UserIds -> Perm \cup {Nil}]]
    <3>1. \A s \in ShareIds : [grant[s] EXCEPT ![req[a].user] = Nil] \in [UserIds -> Perm \cup {Nil}]
      BY <1>t
    <3>2. \/ grant' = [s \in ShareIds |-> [grant[s] EXCEPT ![req[a].user] = Nil]]
          \/ grant' = grant
      BY <1>2 DEF DropUser
    <3> QED
      BY <1>t, <3>1, <3>2
  <2>5. TablesTyped'
    BY <1>t, <2>1, <2>2, <2>3, <2>4 DEF TablesTyped
  <2> QED
    BY <1>k, <1>l, <2>1, <2>2, <2>5
<1>3. CASE UpdateUser(a)
  <2>1. /\ Answer(a) /\ UNCHANGED <<token, share, grant, file, last, faults, sess, keyring, mount>>
        /\ req[a].pc = "role"
    BY <1>3 DEF UpdateUser, memory
  <2>2. req[a].what \in Role /\ req[a].user \in UserIds
    BY <1>r, <2>1 DEF RequestShape, OnUser
  <2>3. req[a].user \in Users =>
            /\ user[req[a].user] \in UserRow
            /\ [user[req[a].user] EXCEPT !.role = req[a].what] \in UserRow
    BY <1>t, <2>2 DEF Users, UserRow
  <2>4. /\ user' \in [UserIds -> UserRow \cup {Nil}]
        /\ \A u \in UserIds : user'[u] # Nil => user[u] # Nil
    BY <1>3, <1>t, <2>2, <2>3 DEF UpdateUser, Users
  <2>5. TablesTyped'
    BY <1>t, <2>1, <2>4 DEF TablesTyped
  <2> QED
    BY <1>k, <1>l, <2>1, <2>4, <2>5
<1>4. CASE InsertToken(a)
  <2>1. /\ Answer(a) /\ UNCHANGED <<user, share, grant, file, faults, sess, keyring, mount>>
        /\ req[a].pc = "insert token" /\ last.token < MaxToken
        /\ last' = [last EXCEPT !.token = last.token + 1]
        /\ token' = [token EXCEPT ![last.token + 1] = req[a].user]
    BY <1>4 DEF InsertToken, memory
  <2>2. req[a].user \in 0..MaxUser
    BY <1>r, <2>1 DEF Request
  <2>3. token' \in [TokenIds -> 0..MaxUser]
    BY <1>t, <2>1, <2>2
  <2>4. /\ last' \in [user : 0..MaxUser, share : 0..MaxShare, token : 0..MaxToken]
        /\ last'.user = last.user /\ last'.share = last.share
    <3> DEFINE n == last.token + 1
    <3>0. last.token < MaxToken
      BY <2>1
    <3>1. n \in 0..MaxToken
      BY <1>l, <3>0
    <3>2. last' = [last EXCEPT !.token = n]
      BY <2>1
    <3> HIDE DEF n
    <3> QED
      BY <1>t, <3>1, <3>2
  <2>5. TablesTyped'
    BY <1>t, <2>1, <2>3, <2>4 DEF TablesTyped
  <2> QED
    BY <1>k, <1>l, <2>1, <2>4, <2>5
<1>5. CASE DropToken(a)
  <2>1. /\ Answer(a) /\ UNCHANGED <<user, share, grant, file, last, faults, sess, keyring, mount>>
        /\ token' = [token EXCEPT ![req[a].token] = 0]
    BY <1>5 DEF DropToken, memory
  <2>2. token' \in [TokenIds -> 0..MaxUser]
    <3>1. 0 \in 0..MaxUser
      OBVIOUS
    <3> QED
      BY <1>t, <2>1, <3>1
  <2>3. TablesTyped'
    BY <1>t, <2>1, <2>2 DEF TablesTyped
  <2> QED
    BY <1>k, <1>l, <2>1, <2>3
<1>6. CASE DropGrant(a) \/ PutGrant(a)
  <2>1. /\ Answer(a) /\ UNCHANGED <<user, token, share, file, last, faults, sess, keyring, mount>>
        /\ req[a].pc \in {"revoke", "put grant"}
    BY <1>6 DEF DropGrant, PutGrant, memory
  <2>2. req[a].share \in ShareIds /\ req[a].user \in UserIds
    BY <1>r, <2>1 DEF OnShare, OnUser
  <2>3. PutGrant(a) => req[a].what \in Perm
    BY <1>r DEF PutGrant, RequestShape
  <2>4. \E p \in Perm \cup {Nil} : grant' = [grant EXCEPT ![req[a].share][req[a].user] = p]
    BY <1>6, <2>3 DEF DropGrant, PutGrant
  <2>5. grant' \in [ShareIds -> [UserIds -> Perm \cup {Nil}]]
    BY <1>t, <2>2, <2>4, GrantSet
  <2>6. TablesTyped'
    BY <1>t, <2>1, <2>5 DEF TablesTyped
  <2> QED
    BY <1>k, <1>l, <2>1, <2>6
<1> QED
  BY <1>1, <1>2, <1>3, <1>4, <1>5, <1>6

LEMMA InsertShareTyped ==
    ASSUME Base, NEW a \in Handlers, InsertShare(a)
    PROVE  Base'
<1> USE ConstantFacts
<1> DEFINE s == last.share + 1
           row == [enc |-> req[a].flag, keyed |-> FALSE, comp |-> "none"]
           x == [req[a] EXCEPT !.pc = "own", !.share = s]
<1>1. /\ req[a].pc = "row" /\ s \in ShareIds /\ last' = [last EXCEPT !.share = s]
      /\ share' = [share EXCEPT ![s] = row] /\ req' = [req EXCEPT ![a].pc = "own", ![a].share = s]
      /\ UNCHANGED <<user, token, grant, file, keyring, mount, sess, faults>>
  BY DEF InsertShare, memory
<1>2. /\ req[a] \in Request /\ RequestShape(req[a]) /\ req[a].op = "share"
      /\ req \in [Handlers -> Request]
  BY <1>1, RequestFacts DEF RequestShape, Base, Typed, RequestsTyped
<1>3. last \in [user : 0..MaxUser, share : 0..MaxShare, token : 0..MaxToken] /\ last.share \in Nat
  BY DEF Base, Typed, TablesTyped
<1>4. /\ last.share < s /\ s \in 0..MaxShare /\ s # 0
  BY <1>1, <1>3 DEF ShareIds
<1> HIDE DEF s
<1>5. /\ last' \in [user : 0..MaxUser, share : 0..MaxShare, token : 0..MaxToken]
      /\ last'.share = s /\ last'.user = last.user
  BY <1>1, <1>3, <1>4
<1>6. row \in ShareRow /\ row.enc = req[a].flag /\ row.keyed = FALSE
  BY <1>2 DEF Request, ShareRow, Codec
<1> HIDE DEF row
<1>7. /\ share' \in [ShareIds -> ShareRow \cup {Nil}]
      /\ \A i \in ShareIds : share'[i] = IF i = s THEN row ELSE share[i]
  BY <1>1, <1>6 DEF Base, Typed, TablesTyped
<1>8. /\ x \in Request /\ x.pc = "own" /\ x.share = s /\ x.op = "share" /\ x.flag = req[a].flag
      /\ x.me = req[a].me
  <2>1. "own" \in ReqPc
    BY DEF ReqPc, OnShare
  <2> QED
    BY <1>2, <1>4, <2>1 DEF Request
<1>9. req' = [req EXCEPT ![a] = x]
  BY <1>1, <1>2
<1>10. RequestShape(x)
  BY <1>2, <1>4, <1>8 DEF RequestShape, OnUser, OnShare
<1> HIDE DEF x
<1>11. RequestsTyped' /\ \A b \in Handlers : req'[b] = IF b = a THEN x ELSE req[b]
  BY <1>8, <1>9, <1>10, RequestStep DEF Base, Typed
<1>12. TablesTyped' /\ MemoryTyped' /\ SessionsTyped' /\ faults' \in Nat
  BY <1>1, <1>5, <1>7 DEF Base, Typed, TablesTyped, MemoryTyped, SessionsTyped, SessionShape
<1>13. \A b \in Handlers : req[b].pc \in OnShare => req[b].share \in ShareIds /\ req[b].share <= last.share
  BY RequestFacts DEF Base
<1>14. \A i \in Nat : i <= last.share => i <= s /\ i # s
  BY <1>3, <1>4
<1>15. IdsGiven'
  <2>1. \A u \in UserIds : user'[u] # Nil => u <= last'.user
    BY <1>1, <1>5 DEF Base, Typed, IdsGiven
  <2>2. \A i \in ShareIds : share'[i] # Nil \/ file'[i] # Nil \/ i \in keyring' => i <= last'.share
    <3> SUFFICES ASSUME NEW i \in ShareIds, share'[i] # Nil \/ file'[i] # Nil \/ i \in keyring', i # s
                 PROVE  i <= s
      BY <1>4, <1>5
    <3>1. i <= last.share
      BY <1>1, <1>7 DEF Base, Typed, IdsGiven
    <3>2. i \in Nat
      BY DEF ShareIds
    <3> QED
      BY <1>14, <3>1, <3>2
  <2>3. \A b \in Handlers : req'[b].pc \in OnShare => req'[b].share <= last'.share
    <3> SUFFICES ASSUME NEW b \in Handlers, req'[b].pc \in OnShare
                 PROVE  req'[b].share <= s
      BY <1>5
    <3>1. CASE b = a
      BY <1>4, <1>8, <1>11, <3>1
    <3>2. CASE b # a
      <4>1. req'[b].share = req[b].share /\ req[b].share \in Nat /\ req[b].share <= last.share
        BY <1>11, <1>13, <3>2 DEF ShareIds
      <4> QED
        BY <1>14, <4>1
    <3> QED
      BY <3>1, <3>2
  <2>4. \A c \in Clients : sess'[c].share <= last'.share
    <3> SUFFICES ASSUME NEW c \in Clients
                 PROVE  sess[c].share <= s
      BY <1>1, <1>5
    <3>1. sess[c].share \in Nat /\ sess[c].share <= last.share
      BY DEF Base, Typed, IdsGiven, SessionsTyped, Session
    <3> QED
      BY <1>14, <3>1
  <2> QED
    BY <2>1, <2>2, <2>3, <2>4 DEF IdsGiven
<1>16. \A b \in Handlers : req[b].pc \in OnShare => req[b].share # s /\ req[b].share \in ShareIds
  BY <1>13, <1>14 DEF ShareIds
<1>17. \A i \in keyring : i # s /\ i \in ShareIds
  <2>1. \A i \in keyring : i \in ShareIds
    BY DEF Base, Typed, MemoryTyped
  <2>2. \A i \in keyring : i <= last.share
    BY <2>1 DEF Base, Typed, IdsGiven
  <2> QED
    BY <1>14, <2>1, <2>2 DEF ShareIds
<1>18. Checked'
  <2>1. \A i \in ShareIds : share'[i] # Nil /\ share'[i].keyed => share'[i].enc
    BY <1>6, <1>7 DEF Base, Typed, Checked
  <2>2. \A i \in keyring' : share'[i] # Nil => share'[i].keyed
    BY <1>1, <1>7, <1>17 DEF Base, Typed, Checked
  <2>3. \A b \in Handlers : req'[b].pc = "unlock" /\ req'[b].share \in Shares' =>
            share'[req'[b].share].keyed
    <3> SUFFICES ASSUME NEW b \in Handlers, req'[b].pc = "unlock", req'[b].share \in Shares'
                 PROVE  share'[req'[b].share].keyed
      OBVIOUS
    <3>1. b # a
      BY <1>8, <1>11
    <3>2. req'[b] = req[b] /\ req[b].pc \in OnShare
      BY <1>11, <3>1 DEF OnShare
    <3> QED
      BY <1>7, <1>16, <3>2 DEF Base, Typed, Checked, Shares
  <2>4. \A b \in Handlers : Creating(b)' /\ req'[b].share \in Shares' =>
            share'[req'[b].share].enc = req'[b].flag
    <3> SUFFICES ASSUME NEW b \in Handlers, Creating(b)', req'[b].share \in Shares'
                 PROVE  share'[req'[b].share].enc = req'[b].flag
      OBVIOUS
    <3>1. CASE b = a
      BY <1>1, <1>6, <1>7, <1>8, <1>11, <3>1
    <3>2. CASE b # a
      <4>1. req'[b] = req[b] /\ Creating(b)
        BY <1>11, <3>2 DEF Creating
      <4>2. req[b].pc \in OnShare
        BY <4>1, RequestFacts DEF Base, RequestShape, Creating, OnShare
      <4> QED
        BY <1>7, <1>16, <4>1, <4>2 DEF Base, Typed, Checked, Shares
    <3> QED
      BY <3>1, <3>2
  <2> QED
    BY <2>1, <2>2, <2>3, <2>4 DEF Checked, Shares
<1> QED
  BY <1>11, <1>12, <1>15, <1>18 DEF Base, Typed

LEMMA ShareStepTyped ==
    ASSUME Base, NEW a \in Handlers,
           \/ GrantCreator(a) \/ SetPassword(a) \/ UndoGrants(a) \/ UndoShare(a) \/ SetShare(a)
           \/ KeySet(a) \/ KeyDelete(a) \/ PurgeShare(a) \/ DeleteShareMeta(a)
    PROVE  Base'
<1> USE ConstantFacts
<1> DEFINE s == req[a].share
           x(pc) == [req[a] EXCEPT !.pc = pc]
<1>t. /\ TablesTyped /\ MemoryTyped /\ SessionsTyped /\ RequestsTyped
      /\ share \in [ShareIds -> ShareRow \cup {Nil}] /\ file \in [ShareIds -> Version \cup {Nil}]
  BY DEF Base, Typed, TablesTyped
<1>l. last.user <= last.user
  BY DEF Base, Typed, TablesTyped
<1>p. /\ "password" \in ReqPc /\ "get" \in ReqPc /\ "undo share" \in ReqPc /\ "meta" \in ReqPc
      /\ "lock" \in ReqPc
  BY DEF ReqPc, OnShare
<1>r. /\ req[a] \in Request /\ RequestShape(req[a])
      /\ req[a].pc \in OnShare => s \in ShareIds /\ s <= last.share
      /\ req[a].op = "share" => req[a].me \in UserIds
  BY RequestFacts DEF Base
<1>o. req[a].pc \in OnShare
  BY DEF OnShare, GrantCreator, SetPassword, UndoGrants, UndoShare, SetShare, KeySet, KeyDelete,
     PurgeShare, DeleteShareMeta
<1>x. \A pc \in ReqPc :
        /\ x(pc) \in Request /\ x(pc).pc = pc /\ x(pc).op = req[a].op /\ x(pc).me = req[a].me
        /\ x(pc).user = req[a].user /\ x(pc).share = s /\ x(pc).token = req[a].token
        /\ x(pc).name = req[a].name /\ x(pc).what = req[a].what /\ x(pc).flag = req[a].flag
        /\ GoTo(a, pc) => req' = [req EXCEPT ![a] = x(pc)]
  BY <1>t, Advanced
<1> HIDE DEF x
<1>c. \A i \in ShareIds : share[i] # Nil /\ share[i].keyed => share[i].enc
  BY DEF Base, Typed, Checked
<1>m. ASSUME UNCHANGED <<sess, keyring, mount>>
      PROVE  /\ MemoryTyped' /\ SessionsTyped'
             /\ \A c \in Clients : sess'[c].share = sess[c].share
             /\ keyring' = keyring
  BY <1>m, <1>t DEF MemoryTyped, SessionsTyped, SessionShape
(* The request goes on with the tables changed.                            *)
<1>g. ASSUME NEW pc \in ReqPc, GoTo(a, pc), pc # "unlock", RequestShape(x(pc)),
             req[a].op = "share" => req[a].pc # "row",
             TablesTyped', UNCHANGED <<user, last, sess, keyring, mount, faults>>,
             \A i \in ShareIds : share'[i] # Nil =>
                /\ share[i] # Nil /\ share'[i].enc = share[i].enc
                /\ share[i].keyed => share'[i].keyed
                /\ share'[i].keyed => share[i].enc,
             \A i \in ShareIds : file'[i] # Nil => file[i] # Nil
      PROVE  Base'
  <2>1. req' = [req EXCEPT ![a] = x(pc)] /\ faults' \in Nat
    BY <1>g, <1>x DEF Base
  <2>2. /\ MemoryTyped' /\ SessionsTyped' /\ keyring' = keyring
        /\ \A c \in Clients : sess'[c].share = sess[c].share
    BY <1>g, <1>m
  <2>3. last' = last /\ user' = user
    BY <1>g
  <2>4. /\ x(pc) \in Request /\ x(pc).pc = pc /\ x(pc).op = req[a].op /\ x(pc).share = s
        /\ x(pc).flag = req[a].flag
    BY <1>g, <1>x
  <2>5. s <= last.share
    BY <1>o, <1>r
  <2> HIDE DEF s
  <2> QED
    BY <1>g, <1>l, <2>1, <2>2, <2>3, <2>4, <2>5, RequestKeeps DEF s
<1>k. ASSUME Answer(a), TablesTyped', UNCHANGED <<user, last, sess, keyring, mount, faults>>,
             \A i \in ShareIds : share'[i] # Nil =>
                /\ share[i] # Nil /\ share'[i].enc = share[i].enc
                /\ share[i].keyed <=> share'[i].keyed,
             \A i \in ShareIds : file'[i] # Nil => file[i] # Nil
      PROVE  Base'
  BY <1>k, <1>l, <1>m, AnswerKeeps
<1>1. CASE GrantCreator(a)
  <2>1. /\ req[a].pc = "own" /\ grant' = [grant EXCEPT ![s][req[a].me] = "admin"]
        /\ UNCHANGED <<user, token, share, file, last, sess, keyring, mount, faults>>
        /\ IF req[a].flag THEN GoTo(a, "password") ELSE Answer(a)
    BY <1>1 DEF GrantCreator, memory
  <2>2. req[a].op = "share"
    BY <1>r, <2>1 DEF RequestShape
  <2>3. TablesTyped'
    <3>1. grant' \in [ShareIds -> [UserIds -> Perm \cup {Nil}]]
      BY <1>o, <1>r, <1>t, <2>1, <2>2, GrantSet DEF Perm
    <3> QED
      BY <1>t, <2>1, <3>1 DEF TablesTyped
  <2>4. req[a].flag => RequestShape(x("password"))
    BY <1>p, <1>r, <1>x, <2>1 DEF RequestShape, OnUser, OnShare
  <2> QED
    BY <1>c, <1>g, <1>k, <1>p, <2>1, <2>3, <2>4
<1>2. CASE SetPassword(a)
  <2>1. /\ req[a].pc = "password" /\ GoTo(a, "get")
        /\ share' = IF s \in Shares THEN [share EXCEPT ![s].keyed = TRUE] ELSE share
        /\ UNCHANGED <<user, token, grant, file, last, sess, keyring, mount, faults>>
    BY <1>2 DEF SetPassword, memory
  <2>2. RequestShape(x("get")) /\ req[a].flag /\ Creating(a)
    BY <1>p, <1>r, <1>x, <2>1 DEF RequestShape, OnUser, OnShare, Creating
  <2>3. s \in Shares => share[s].enc
    BY <2>2 DEF Base, Typed, Checked
  <2>4. s \in Shares => share[s] \in ShareRow /\ [share[s] EXCEPT !.keyed = TRUE] \in ShareRow
    BY <1>t DEF Shares, ShareRow
  <2>5. /\ share' \in [ShareIds -> ShareRow \cup {Nil}]
        /\ \A i \in ShareIds : share'[i] = IF i = s /\ i \in Shares THEN [share[s] EXCEPT !.keyed = TRUE] ELSE share[i]
    BY <1>t, <2>1, <2>4 DEF Shares
  <2>6. TablesTyped'
    BY <1>t, <2>1, <2>5 DEF TablesTyped
  <2>7. \A i \in ShareIds : share'[i] # Nil =>
                /\ share[i] # Nil /\ share'[i].enc = share[i].enc
                /\ share[i].keyed => share'[i].keyed
                /\ share'[i].keyed => share[i].enc
    BY <1>c, <2>3, <2>4, <2>5 DEF ShareRow, Shares
  <2> QED
    BY <1>g, <1>p, <2>1, <2>2, <2>6, <2>7
<1>3. CASE UndoGrants(a)
  <2>1. /\ req[a].pc = "undo grants" /\ GoTo(a, "undo share")
        /\ grant' = [grant EXCEPT ![s] = [u \in UserIds |-> Nil]]
        /\ UNCHANGED <<user, token, share, file, last, sess, keyring, mount, faults>>
    BY <1>3 DEF UndoGrants, memory
  <2>2. RequestShape(x("undo share"))
    BY <1>p, <1>r, <1>x, <2>1 DEF RequestShape, OnUser, OnShare
  <2>3. TablesTyped'
    <3>1. grant' \in [ShareIds -> [UserIds -> Perm \cup {Nil}]]
      BY <1>o, <1>r, <1>t, <2>1, GrantsCleared
    <3> QED
      BY <1>t, <2>1, <3>1 DEF TablesTyped
  <2> QED
    BY <1>c, <1>g, <1>p, <2>1, <2>2, <2>3
<1>4. CASE UndoShare(a)
  <2>1. /\ Answer(a) /\ share' = [share EXCEPT ![s] = Nil]
        /\ UNCHANGED <<user, token, grant, file, last, sess, keyring, mount, faults>>
    BY <1>4 DEF UndoShare, memory
  <2>2. TablesTyped'
    BY <1>t, <2>1 DEF TablesTyped
  <2>3. \A i \in ShareIds : share'[i] # Nil => share'[i] = share[i]
    BY <1>t, <2>1
  <2> QED
    BY <1>k, <2>1, <2>2, <2>3
<1>5. CASE SetShare(a)
  <2>1. /\ req[a].pc = "set" /\ Answer(a)
        /\ share' = IF s \in Shares THEN [share EXCEPT ![s].comp = req[a].what] ELSE share
        /\ UNCHANGED <<user, token, grant, file, last, sess, keyring, mount, faults>>
    BY <1>5 DEF SetShare, memory
  <2>2. req[a].what \in Codec
    BY <1>r, <2>1 DEF RequestShape
  <2> DEFINE row == [share[s] EXCEPT !.comp = req[a].what]
  <2>3. s \in Shares => share[s] \in ShareRow /\ row \in ShareRow /\ row.enc = share[s].enc /\ row.keyed = share[s].keyed
    BY <1>t, <2>2 DEF Shares, ShareRow
  <2>4. \A i \in ShareIds : share'[i] = IF i = s /\ i \in Shares THEN row ELSE share[i]
    BY <1>t, <2>1 DEF Shares
  <2> HIDE DEF row
  <2>5. share' \in [ShareIds -> ShareRow \cup {Nil}]
    BY <1>t, <2>1, <2>3 DEF Shares, row
  <2>6. TablesTyped'
    BY <1>t, <2>1, <2>5 DEF TablesTyped
  <2>7. \A i \in ShareIds : share'[i] # Nil =>
                /\ share[i] # Nil /\ share'[i].enc = share[i].enc
                /\ share[i].keyed <=> share'[i].keyed
    BY <2>3, <2>4 DEF Shares
  <2> QED
    BY <1>k, <2>1, <2>6, <2>7
<1>6. CASE KeySet(a) \/ KeyDelete(a)
  <2>1. /\ Answer(a) /\ UNCHANGED <<user, token, share, grant, file, last, mount, faults>>
        /\ req[a].pc \in {"unlock", "lock"}
    BY <1>6 DEF KeySet, KeyDelete, tables
  <2>2. PICK k \in {"key", "zero"} :
            sess' = [c \in Clients |-> IF Holds(c, s) THEN [sess[c] EXCEPT !.key = k] ELSE sess[c]]
    BY <1>6 DEF KeySet, KeyDelete
  <2>3. ASSUME NEW c \in Clients
        PROVE  sess'[c] \in Session /\ SessionShape(sess[c])' /\ sess'[c].share = sess[c].share
    <3>1. sess[c] \in Session /\ SessionShape(sess[c])
      BY <1>t DEF SessionsTyped
    <3>2. CASE Holds(c, s)
      <4> DEFINE y == [sess[c] EXCEPT !.key = k]
      <4>1. /\ y \in Session /\ y.op = sess[c].op /\ y.pc = sess[c].pc /\ y.user = sess[c].user
            /\ y.share = sess[c].share /\ y.row = sess[c].row /\ y.fs = sess[c].fs
            /\ y.base = sess[c].base /\ y.key = k
        BY <3>1 DEF Session
      <4>2. sess'[c] = y
        BY <2>2, <3>2
      <4>3. sess[c].key = "ring"
        BY <3>2 DEF Holds
      <4> HIDE DEF y
      <4> QED
        BY <3>1, <4>1, <4>2, <4>3 DEF SessionShape
    <3>3. CASE ~Holds(c, s)
      <4>1. sess'[c] = sess[c]
        BY <2>2, <3>3
      <4> QED
        BY <3>1, <4>1 DEF SessionShape
    <3> QED
      BY <3>2, <3>3
  <2>4. SessionsTyped'
    <3>1. sess' \in [Clients -> Session]
      BY <2>2, <2>3
    <3> QED
      BY <2>3, <3>1 DEF SessionsTyped
  <2>5. \A i \in keyring' : i \in keyring \/ (KeySet(a) /\ i = s)
    BY <1>6 DEF KeySet, KeyDelete
  <2>6. s \in ShareIds /\ s <= last.share
    BY <1>o, <1>r
  <2>7. KeySet(a) => (share[s] # Nil => share[s].keyed)
    BY <2>6 DEF KeySet, Base, Typed, Checked, Shares
  <2>8. MemoryTyped'
    BY <1>t, <2>1, <2>5, <2>6 DEF MemoryTyped
  <2>9. TablesTyped'
    BY <1>t, <2>1 DEF TablesTyped
  <2> QED
    BY <1>l, <2>1, <2>3, <2>4, <2>5, <2>6, <2>7, <2>8, <2>9, AnswerKeeps
<1>7. CASE PurgeShare(a)
  <2>1. /\ req[a].pc = "purge" /\ GoTo(a, "meta") /\ file' = [file EXCEPT ![s] = Nil]
        /\ UNCHANGED <<user, token, share, grant, last, sess, keyring, mount, faults>>
    BY <1>7 DEF PurgeShare, memory
  <2>2. RequestShape(x("meta"))
    BY <1>p, <1>r, <1>x, <2>1 DEF RequestShape, OnUser, OnShare
  <2>3. TablesTyped' /\ \A i \in ShareIds : file'[i] # Nil => file[i] # Nil
    BY <1>t, <2>1 DEF TablesTyped
  <2> QED
    BY <1>c, <1>g, <1>p, <2>1, <2>2, <2>3
<1>8. CASE DeleteShareMeta(a)
  <2>1. /\ req[a].pc = "meta" /\ GoTo(a, "lock") /\ share' = [share EXCEPT ![s] = Nil]
        /\ grant' = [grant EXCEPT ![s] = [u \in UserIds |-> Nil]]
        /\ UNCHANGED <<user, token, file, last, sess, keyring, mount, faults>>
    BY <1>8 DEF DeleteShareMeta, memory
  <2>2. RequestShape(x("lock"))
    BY <1>p, <1>r, <1>x, <2>1 DEF RequestShape, OnUser, OnShare
  <2>3. TablesTyped'
    <3>1. grant' \in [ShareIds -> [UserIds -> Perm \cup {Nil}]]
      BY <1>o, <1>r, <1>t, <2>1, GrantsCleared
    <3> QED
      BY <1>t, <2>1, <3>1 DEF TablesTyped
  <2>4. \A i \in ShareIds : share'[i] # Nil => share'[i] = share[i]
    BY <1>t, <2>1
  <2> QED
    BY <1>c, <1>g, <1>p, <2>1, <2>2, <2>3, <2>4
<1> QED
  BY <1>1, <1>2, <1>3, <1>4, <1>5, <1>6, <1>7, <1>8
-----------------------------------------------------------------------------
(* A step of one client, which may write to a file and cache a mount.      *)
LEMMA SessionKeeps ==
    ASSUME Base, NEW c \in Clients, NEW x \in Session, SessionShape(x), x.share <= last.share,
           sess' = [sess EXCEPT ![c] = x], faults' \in Nat,
           UNCHANGED <<user, token, share, grant, last, keyring, req>>,
           file' \in [ShareIds -> Version \cup {Nil}],
           \A s \in ShareIds : file'[s] # Nil => file[s] # Nil \/ s <= last.share,
           mount' \in [UserIds -> [ShareIds -> ShareFS \cup {Nil}]]
    PROVE  Base'
<1>1. TablesTyped' /\ MemoryTyped'
  BY DEF Base, Typed, TablesTyped, MemoryTyped
<1>2. \A d \in Clients : sess'[d] = IF d = c THEN x ELSE sess[d]
  BY DEF Base, Typed, SessionsTyped
<1>3. SessionsTyped'
  <2>1. sess' \in [Clients -> Session]
    BY DEF Base, Typed, SessionsTyped
  <2>2. ASSUME NEW d \in Clients
        PROVE  SessionShape(sess[d])'
    <3>1. CASE d = c
      BY <1>2, <3>1 DEF SessionShape
    <3>2. CASE d # c
      BY <1>2, <3>2 DEF SessionShape, Base, Typed, SessionsTyped
    <3> QED
      BY <3>1, <3>2
  <2> QED
    BY <2>1, <2>2 DEF SessionsTyped
<1>4. RequestsTyped'
  BY DEF Base, Typed, RequestsTyped, RequestShape
<1>5. IdsGiven'
  <2>1. \A d \in Clients : sess'[d].share <= last'.share
    BY <1>2 DEF Base, Typed, IdsGiven
  <2>2. \A s \in ShareIds : share'[s] # Nil \/ file'[s] # Nil \/ s \in keyring' => s <= last'.share
    BY DEF Base, Typed, IdsGiven
  <2>3. \A u \in UserIds : user'[u] # Nil => u <= last'.user
    BY DEF Base, Typed, IdsGiven
  <2>4. \A a \in Handlers : req'[a].pc \in OnShare => req'[a].share <= last'.share
    BY DEF Base, Typed, IdsGiven
  <2> QED
    BY <2>1, <2>2, <2>3, <2>4 DEF IdsGiven
<1>6. Checked'
  <2>1. share' = share /\ keyring' = keyring /\ req' = req
    OBVIOUS
  <2> QED
    BY <2>1 DEF Base, Typed, Checked, Creating, Shares
<1> QED
  BY <1>1, <1>3, <1>4, <1>5, <1>6 DEF Base, Typed

LEMMA SessionFacts ==
    ASSUME Base, NEW c \in Clients
    PROVE  /\ sess[c] \in Session /\ SessionShape(sess[c])
           /\ sess[c].user \in 0..MaxUser /\ sess[c].share \in 0..MaxShare
           /\ sess[c].share <= last.share
           /\ sess[c].op # "none" => sess[c].user \in UserIds /\ sess[c].share \in ShareIds
<1>1. /\ sess[c] \in Session /\ SessionShape(sess[c]) /\ sess[c].share <= last.share
  BY DEF Base, Typed, SessionsTyped, IdsGiven
<1>2. sess[c].user \in 0..MaxUser /\ sess[c].share \in 0..MaxShare
  BY <1>1 DEF Session
<1>3. sess[c].op # "none" => sess[c].user # 0 /\ sess[c].share # 0
  BY <1>1 DEF SessionShape
<1> QED
  BY <1>1, <1>2, <1>3, ConstantFacts DEF UserIds, ShareIds

(* An operation returns.                                                   *)
LEMMA ReturnsTyped ==
    ASSUME Base, NEW c \in Clients, sess' = [sess EXCEPT ![c] = [NoSess EXCEPT !.user = sess[c].user]],
           faults' \in Nat, req' = req, keyring' = keyring,
           UNCHANGED <<user, token, share, grant, last>>,
           file' \in [ShareIds -> Version \cup {Nil}],
           \A s \in ShareIds : file'[s] # Nil => file[s] # Nil \/ s <= last.share,
           mount' \in [UserIds -> [ShareIds -> ShareFS \cup {Nil}]]
    PROVE  Base'
<1> DEFINE x == [NoSess EXCEPT !.user = sess[c].user]
<1>1. sess[c].user \in 0..MaxUser
  BY SessionFacts
<1>2. x \in Session /\ SessionShape(x) /\ x.share = 0
  BY <1>1, NoSessTyped
<1>3. 0 <= last.share
  BY ConstantFacts DEF Base, Typed, TablesTyped
<1>4. sess' = [sess EXCEPT ![c] = x]
  OBVIOUS
<1> HIDE DEF x
<1> QED
  BY <1>2, <1>3, <1>4, SessionKeeps

LEMMA ClientTyped ==
    ASSUME Base, NEW c \in Clients, Client(c)
    PROVE  Base'
<1> USE ConstantFacts
<1> DEFINE r == sess[c]
<1>t. /\ file \in [ShareIds -> Version \cup {Nil}] /\ share \in [ShareIds -> ShareRow \cup {Nil}]
      /\ grant \in [ShareIds -> [UserIds -> Perm \cup {Nil}]] /\ last.share \in Nat
      /\ mount \in [UserIds -> [ShareIds -> ShareFS \cup {Nil}]] /\ token \in [TokenIds -> 0..MaxUser]
      /\ \A s \in ShareIds : file[s] # Nil => s <= last.share
  BY DEF Base, Typed, TablesTyped, MemoryTyped, IdsGiven
<1>r. /\ r \in Session /\ SessionShape(r) /\ r.user \in 0..MaxUser /\ r.share \in 0..MaxShare
      /\ r.share <= last.share
      /\ r.op # "none" => r.user \in UserIds /\ r.share \in ShareIds
  BY SessionFacts
<1>f. faults \in Nat
  BY DEF Base
<1>z. ASSUME Returns(c), UNCHANGED <<tables, memory>>
      PROVE  Base'
  <2>1. sess' = [sess EXCEPT ![c] = [NoSess EXCEPT !.user = sess[c].user]] /\ req' = req /\ faults' = faults
    BY <1>z DEF Returns, At
  <2>2. UNCHANGED <<user, token, share, grant, file, last, keyring, mount>>
    BY <1>z DEF tables, memory
  <2> QED
    BY <1>t, <1>f, <2>1, <2>2, ReturnsTyped
<1>a. ASSUME NEW x \in Session, SessionShape(x), x.share <= last.share, At(c, x),
             UNCHANGED <<tables, memory>>
      PROVE  Base'
  <2>1. sess' = [sess EXCEPT ![c] = x] /\ req' = req /\ faults' = faults
    BY <1>a DEF At
  <2>2. UNCHANGED <<user, token, share, grant, file, last, keyring, mount>>
    BY <1>a DEF tables, memory
  <2> QED
    BY <1>a, <1>t, <1>f, <2>1, <2>2, SessionKeeps
<1>1. CASE \E t \in TokenIds : Connect(c, t)
  <2>1. PICK t \in TokenIds : Connect(c, t)
    BY <1>1
  <2> DEFINE x == [r EXCEPT !.user = token[t]]
  <2>2. token[t] \in 0..MaxUser
    BY <1>t
  <2>3. /\ sess' = [sess EXCEPT ![c] = x] /\ r.user = 0 /\ req' = req /\ faults' = faults
        /\ UNCHANGED <<tables, memory>>
    BY <2>1 DEF Connect
  <2>4. /\ x \in Session /\ x.op = r.op /\ x.pc = r.pc /\ x.share = r.share /\ x.row = r.row
        /\ x.fs = r.fs /\ x.base = r.base /\ x.key = r.key
    BY <1>r, <2>2 DEF Session
  <2>5. r.op = "none"
    BY <1>r, <2>3 DEF SessionShape
  <2> HIDE DEF x
  <2>6. SessionShape(x)
    BY <1>r, <2>4, <2>5 DEF SessionShape
  <2>7. UNCHANGED <<user, token, share, grant, file, last, keyring, mount>>
    BY <2>3 DEF tables, memory
  <2> QED
    BY <1>t, <1>f, <1>r, <2>3, <2>4, <2>6, <2>7, SessionKeeps
<1>2. CASE Disconnect(c)
  <2>1. /\ sess' = [sess EXCEPT ![c] = [NoSess EXCEPT !.user = 0]] /\ req' = req /\ faults' = faults
        /\ UNCHANGED <<tables, memory>>
    BY <1>2 DEF Disconnect, NoSess
  <2> DEFINE x == [NoSess EXCEPT !.user = 0]
  <2>2. x \in Session /\ SessionShape(x) /\ x.share = 0
    BY NoSessTyped
  <2>3. UNCHANGED <<user, token, share, grant, file, last, keyring, mount>>
    BY <2>1 DEF tables, memory
  <2>4. 0 <= last.share
    BY <1>t
  <2>5. sess' = [sess EXCEPT ![c] = x]
    BY <2>1
  <2> HIDE DEF x
  <2> QED
    BY <1>t, <1>f, <2>1, <2>2, <2>3, <2>4, <2>5, SessionKeeps
<1>3. CASE \E op \in {"read", "put", "patch"}, s \in Shares : Begin(c, op, s)
  <2>1. PICK op \in {"read", "put", "patch"}, s \in Shares : Begin(c, op, s)
    BY <1>3
  <2> DEFINE x == [r EXCEPT !.op = op, !.pc = "share", !.share = s]
  <2>2. s \in 0..MaxShare /\ s # 0 /\ s <= last.share
    BY DEF Shares, ShareIds, Base, Typed, IdsGiven
  <2>3. /\ sess' = [sess EXCEPT ![c] = x] /\ req' = req /\ faults' = faults
        /\ UNCHANGED <<tables, memory>>
    BY <2>1 DEF Begin
  <2>4. r.user # 0 /\ r.op = "none"
    BY <2>1 DEF Begin
  <2>5. /\ x \in Session /\ x.op = op /\ x.pc = "share" /\ x.share = s /\ x.row = r.row
        /\ x.fs = r.fs /\ x.base = r.base /\ x.key = r.key /\ x.user = r.user
    BY <1>r, <2>2 DEF Session, SessPc
  <2> HIDE DEF x
  <2>6. SessionShape(x)
    BY <1>r, <2>2, <2>4, <2>5 DEF SessionShape
  <2>7. UNCHANGED <<user, token, share, grant, file, last, keyring, mount>>
    BY <2>3 DEF tables, memory
  <2> QED
    BY <1>t, <1>f, <2>2, <2>3, <2>5, <2>6, <2>7, SessionKeeps
<1>4. CASE FindShare(c)
  <2>1. CASE r.share \in Shares
    <3> DEFINE x == [r EXCEPT !.pc = "grant", !.row = share[r.share]]
    <3>1. At(c, x) /\ r.pc = "share" /\ UNCHANGED <<tables, memory>>
      BY <1>4, <2>1 DEF FindShare
    <3>2. share[r.share] \in ShareRow
      BY <1>t, <2>1 DEF Shares
    <3>3. /\ x \in Session /\ x.pc = "grant" /\ x.row = share[r.share] /\ x.op = r.op /\ x.share = r.share
          /\ x.fs = r.fs /\ x.base = r.base /\ x.key = r.key /\ x.user = r.user
      BY <1>r, <3>2 DEF Session, SessPc
    <3> HIDE DEF x
    <3>4. SessionShape(x)
      BY <1>r, <3>1, <3>2, <3>3 DEF SessionShape
    <3> QED
      BY <1>a, <1>r, <3>1, <3>3, <3>4
  <2>2. CASE r.share \notin Shares
    BY <1>4, <1>z, <2>2 DEF FindShare
  <2> QED
    BY <2>1, <2>2
<1>5. CASE FindGrant(c)
  <2> DEFINE p == grant[r.share][r.user]
             fs == MountFor(r.user, r.share, r.row, p)
  <2>1. r.pc = "grant" /\ r.op # "none" /\ r.row \in ShareRow /\ r.user \in UserIds /\ r.share \in ShareIds
    <3>1. r.pc = "grant"
      BY <1>5 DEF FindGrant
    <3>2. r.op # "none" /\ r.row # Nil
      BY <1>r, <3>1 DEF SessionShape
    <3>3. r.row \in ShareRow \cup {Nil}
      BY <1>r DEF Session
    <3> QED
      BY <1>r, <3>1, <3>2, <3>3
  <2>2. p \in Perm \cup {Nil}
    BY <1>t, <2>1
  <2>3. CASE p = Nil
    <3>1. Returns(c) /\ UNCHANGED <<tables, memory>>
      BY <1>5, <2>3 DEF FindGrant, memory
    <3> QED
      BY <1>z, <3>1
  <2>4. CASE p # Nil
    <3>1. fs \in ShareFS
      <4>1. mount[r.user][r.share] \in ShareFS \cup {Nil}
        BY <1>t, <2>1
      <4>2. [perm |-> p, row |-> r.row] \in ShareFS
        BY <2>1, <2>2, <2>4 DEF ShareFS
      <4> QED
        BY <4>1, <4>2 DEF MountFor
    <3>2. /\ mount' = [mount EXCEPT ![r.user][r.share] = fs] /\ UNCHANGED <<tables, keyring>>
          /\ \/ r.op = "read" /\ At(c, [r EXCEPT !.pc = "read", !.fs = fs, !.row = Nil])
             \/ /\ r.op # "read" /\ (r.op = "patch" => file[r.share] # Nil)
                /\ At(c, Opened(r, fs))
             \/ Returns(c)
      BY <1>5, <2>4 DEF FindGrant
    <3>3. mount' \in [UserIds -> [ShareIds -> ShareFS \cup {Nil}]]
      BY <1>t, <2>1, <3>1, <3>2
    <3>4. UNCHANGED <<user, token, share, grant, file, last, keyring>>
      BY <3>2 DEF tables
    <3> HIDE DEF fs, p
    <3>5. CASE r.op = "read" /\ At(c, [r EXCEPT !.pc = "read", !.fs = fs, !.row = Nil])
      <4> DEFINE x == [r EXCEPT !.pc = "read", !.fs = fs, !.row = Nil]
      <4>1. /\ x \in Session /\ x.pc = "read" /\ x.row = Nil /\ x.op = r.op /\ x.share = r.share
            /\ x.fs = fs /\ x.base = r.base /\ x.key = r.key /\ x.user = r.user
        BY <1>r, <3>1 DEF Session, SessPc
      <4>2. sess' = [sess EXCEPT ![c] = x] /\ req' = req /\ faults' = faults
        BY <3>5 DEF At
      <4> HIDE DEF x
      <4>3. SessionShape(x)
        BY <1>r, <2>1, <3>1, <4>1 DEF SessionShape
      <4> QED
        BY <1>t, <1>f, <1>r, <3>3, <3>4, <4>1, <4>2, <4>3, SessionKeeps
    <3>6. CASE r.op # "read" /\ (r.op = "patch" => file[r.share] # Nil) /\ At(c, Opened(r, fs))
      <4> DEFINE x == Opened(r, fs)
                 b == IF r.op = "patch" THEN file[r.share].slice ELSE <<>>
                 q == IF r.op = "put" /\ file[r.share] = Nil THEN "create" ELSE "key"
      <4>1. b \in Slices
        <5>1. CASE r.op = "patch"
          BY <1>t, <2>1, <3>6, <5>1 DEF Version
        <5>2. CASE r.op # "patch"
          BY <5>2, NoSlices
        <5> QED
          BY <5>1, <5>2
      <4>2. q \in {"create", "key"}
        OBVIOUS
      <4>3. x = [r EXCEPT !.fs = fs, !.row = Nil, !.pc = q, !.base = b]
        BY DEF Opened
      <4>4. sess' = [sess EXCEPT ![c] = x] /\ req' = req /\ faults' = faults
        BY <3>6 DEF At
      <4> HIDE DEF x, b, q
      <4>5. /\ x \in Session /\ x.pc = q /\ x.row = Nil /\ x.op = r.op /\ x.share = r.share
            /\ x.fs = fs /\ x.base = b /\ x.key = r.key /\ x.user = r.user
        BY <1>r, <3>1, <4>1, <4>2, <4>3 DEF Session, SessPc
      <4>6. r.op \in {"put", "patch"}
        BY <1>r, <2>1, <3>6 DEF Session
      <4>7. SessionShape(x)
        BY <1>r, <2>1, <3>1, <4>1, <4>2, <4>5, <4>6 DEF SessionShape
      <4> QED
        BY <1>t, <1>f, <1>r, <3>3, <3>4, <4>4, <4>5, <4>7, SessionKeeps
    <3>7. CASE Returns(c)
      <4>1. sess' = [sess EXCEPT ![c] = [NoSess EXCEPT !.user = sess[c].user]] /\ req' = req /\ faults' = faults
        BY <3>7 DEF Returns, At
      <4> QED
        BY <1>t, <1>f, <3>3, <3>4, <4>1, ReturnsTyped
    <3> QED
      BY <3>2, <3>5, <3>6, <3>7
  <2> QED
    BY <2>3, <2>4
<1>6. CASE ReadFile(c)
  BY <1>6, <1>z DEF ReadFile
<1>7. CASE CreateInode(c)
  <2> DEFINE x == [r EXCEPT !.pc = "key"]
             v == [comp |-> r.fs.row.comp, slice |-> <<>>]
  <2>1. /\ r.pc = "create" /\ file' = [file EXCEPT ![r.share] = v]
        /\ sess' = [sess EXCEPT ![c] = x] /\ req' = req /\ faults' = faults
        /\ UNCHANGED <<user, token, share, grant, last, keyring, mount>>
    BY <1>7 DEF CreateInode, At, memory
  <2>2. r.fs \in ShareFS /\ r.share \in ShareIds
    <3>1. r.fs \in ShareFS \cup {Nil}
      BY <1>r DEF Session
    <3>2. r.fs # Nil /\ r.op # "none"
      BY <1>r, <2>1 DEF SessionShape
    <3> QED
      BY <1>r, <3>1, <3>2
  <2>3. v \in Version
    BY <2>2, NoSlices DEF ShareFS, ShareRow, Version
  <2>4. /\ x \in Session /\ x.pc = "key" /\ x.row = r.row /\ x.op = r.op /\ x.share = r.share
        /\ x.fs = r.fs /\ x.base = r.base /\ x.key = r.key /\ x.user = r.user
    BY <1>r DEF Session, SessPc
  <2> HIDE DEF x, v
  <2>5. /\ file' \in [ShareIds -> Version \cup {Nil}]
        /\ \A s \in ShareIds : file'[s] # Nil => file[s] # Nil \/ s <= last.share
    BY <1>t, <1>r, <2>1, <2>2, <2>3
  <2>6. SessionShape(x)
    BY <1>r, <2>1, <2>4 DEF SessionShape
  <2> QED
    BY <1>t, <1>f, <1>r, <2>1, <2>4, <2>5, <2>6, SessionKeeps
<1>8. CASE TakeKey(c)
  <2>1. r.pc = "key" /\ UNCHANGED <<tables, memory>>
    BY <1>8 DEF TakeKey
  <2>2. ASSUME NEW pc \in {"store", "seal"}, NEW k \in {"plain", "ring"}, pc = "seal" <=> k = "ring",
               At(c, [r EXCEPT !.pc = pc, !.key = k])
        PROVE  Base'
    <3> DEFINE x == [r EXCEPT !.pc = pc, !.key = k]
    <3>1. /\ x \in Session /\ x.pc = pc /\ x.row = r.row /\ x.op = r.op /\ x.share = r.share
          /\ x.fs = r.fs /\ x.base = r.base /\ x.key = k /\ x.user = r.user
      BY <1>r DEF Session, SessPc
    <3>2. At(c, x)
      BY <2>2
    <3> HIDE DEF x
    <3>3. SessionShape(x)
      BY <1>r, <2>1, <2>2, <3>1 DEF SessionShape
    <3> QED
      BY <1>a, <1>r, <2>1, <3>1, <3>2, <3>3
  <2>3. CASE At(c, [r EXCEPT !.pc = "store"])
    <3>1. r.key = "plain"
      BY <1>r, <2>1 DEF SessionShape
    <3>2. [r EXCEPT !.pc = "store"] = [r EXCEPT !.pc = "store", !.key = "plain"]
      BY <1>r, <3>1 DEF Session
    <3>3. At(c, [r EXCEPT !.pc = "store", !.key = "plain"])
      BY <2>3, <3>2
    <3> QED
      BY <2>2, <3>3
  <2>4. CASE At(c, [r EXCEPT !.pc = "seal", !.key = "ring"])
    BY <2>2, <2>4
  <2>5. CASE Returns(c)
    BY <1>z, <2>1, <2>5
  <2> QED
    BY <1>8, <2>3, <2>4, <2>5 DEF TakeKey
<1>9. CASE SealSlice(c)
  <2> DEFINE k == IF r.key = "ring" THEN "key" ELSE r.key
             x == [r EXCEPT !.pc = "store", !.key = k]
  <2>1. r.pc = "seal" /\ At(c, x) /\ UNCHANGED <<tables, memory>>
    BY <1>9 DEF SealSlice
  <2>2. k \in {"plain", "key", "zero"}
    BY <1>r DEF Session
  <2> HIDE DEF k
  <2>3. /\ x \in Session /\ x.pc = "store" /\ x.row = r.row /\ x.op = r.op /\ x.share = r.share
        /\ x.fs = r.fs /\ x.base = r.base /\ x.key = k /\ x.user = r.user
    BY <1>r, <2>2 DEF Session, SessPc
  <2> HIDE DEF x
  <2>4. SessionShape(x)
    BY <1>r, <2>1, <2>2, <2>3 DEF SessionShape
  <2> QED
    BY <1>a, <1>r, <2>1, <2>3, <2>4
<1>10. CASE Commit(c)
  <2> DEFINE new == [comp |-> r.fs.row.comp, seal |-> r.key]
             wrote == IF r.op = "put" THEN 1..2 ELSE {1}
             sl == [i \in wrote \cup DOMAIN r.base |-> IF i \in wrote THEN new ELSE r.base[i]]
             v == [comp |-> r.fs.row.comp, slice |-> sl]
  <2>1. /\ r.pc = "store" /\ file' = IF file[r.share] = Nil THEN file ELSE [file EXCEPT ![r.share] = v]
        /\ sess' = [sess EXCEPT ![c] = [NoSess EXCEPT !.user = sess[c].user]]
        /\ req' = req /\ faults' = faults
        /\ UNCHANGED <<user, token, share, grant, last, keyring, mount>>
    BY <1>10 DEF Commit, Returns, At, memory
  <2>2. /\ r.fs \in ShareFS /\ r.share \in ShareIds /\ r.base \in Slices
        /\ r.key \in {"plain", "key", "zero"}
    <3>1. r.fs \in ShareFS \cup {Nil} /\ r.base \in Slices \cup {Nil} /\ r.key \in {"plain", "ring", "key", "zero"}
      BY <1>r DEF Session
    <3>2. r.fs # Nil /\ r.op # "none" /\ r.base # Nil /\ r.key # "ring"
      BY <1>r, <2>1 DEF SessionShape
    <3> QED
      BY <1>r, <3>1, <3>2
  <2>3. r.fs.row.comp \in Codec
    BY <2>2 DEF ShareFS, ShareRow
  <2>4. sl \in Slices
    <3>1. PICK D \in SUBSET (1..2) : r.base \in [D -> Slice]
      BY <2>2 DEF Slices
    <3>2. new \in Slice
      BY <2>2, <2>3 DEF Slice, Seal
    <3>3. DOMAIN r.base = D /\ wrote \cup D \in SUBSET (1..2)
      BY <3>1
    <3> HIDE DEF new, wrote
    <3>4. sl \in [wrote \cup D -> Slice]
      BY <3>1, <3>2, <3>3
    <3> QED
      BY <3>3, <3>4 DEF Slices
  <2> HIDE DEF sl
  <2>5. v \in Version
    BY <2>3, <2>4 DEF Version
  <2> HIDE DEF v
  <2>6. /\ file' \in [ShareIds -> Version \cup {Nil}]
        /\ \A s \in ShareIds : file'[s] # Nil => file[s] # Nil
    BY <1>t, <2>1, <2>2, <2>5
  <2> QED
    BY <1>t, <1>f, <2>1, <2>6, ReturnsTyped
<1>11. CASE FailOperation(c)
  <2>1. /\ sess' = [sess EXCEPT ![c] = [NoSess EXCEPT !.user = sess[c].user]] /\ req' = req
        /\ UNCHANGED <<user, token, share, grant, file, last, keyring, mount>>
    BY <1>11 DEF FailOperation, tables, memory
  <2>2. faults' = faults + 1
    BY <1>11 DEF FailOperation
  <2>3. faults' \in Nat
    BY <1>f, <2>2
  <2> QED
    BY <1>t, <2>1, <2>3, ReturnsTyped
<1> QED
  BY <1>1, <1>2, <1>3, <1>4, <1>5, <1>6, <1>7, <1>8, <1>9, <1>10, <1>11 DEF Client

(* The process starts again: nobody asks for anything, no key is there.    *)
LEMMA RestartTyped ==
    ASSUME Base, Restart
    PROVE  Base'
<1> USE ConstantFacts
<1>1. /\ keyring' = {} /\ mount' = [u \in UserIds |-> [s \in ShareIds |-> Nil]]
      /\ req' = [a \in Handlers |-> NoReq] /\ sess' = [c \in Clients |-> NoSess]
      /\ UNCHANGED <<user, token, share, grant, file, last>>
  BY DEF Restart, tables
<1>2. faults' \in Nat
  BY DEF Restart, Base
<1>3. TablesTyped' /\ MemoryTyped'
  BY <1>1 DEF Base, Typed, TablesTyped, MemoryTyped
<1>4. RequestsTyped'
  BY <1>1, NoReqTyped DEF RequestsTyped, RequestShape
<1>5. NoSess = [NoSess EXCEPT !.user = 0]
  BY DEF NoSess
<1>6. NoSess \in Session /\ SessionShape(NoSess) /\ NoSess.share = 0
  BY <1>5, NoSessTyped
<1>7. SessionsTyped'
  BY <1>1, <1>6 DEF SessionsTyped, SessionShape
<1>8. 0 <= last.share /\ last' = last
  BY <1>1 DEF Base, Typed, TablesTyped
<1>9. NoReq.pc \notin OnShare /\ NoReq.op # "share" /\ NoReq.pc # "unlock"
  BY NoReqTyped DEF OnShare
<1>10. IdsGiven'
  BY <1>1, <1>6, <1>8, <1>9 DEF Base, Typed, IdsGiven
<1>11. Checked'
  BY <1>1, <1>9 DEF Base, Typed, Checked, Creating, Shares
<1> QED
  BY <1>2, <1>3, <1>4, <1>7, <1>10, <1>11 DEF Base, Typed

LEMMA ContinueTyped ==
    ASSUME Base, NEW a \in Handlers, Continue(a)
    PROVE  Base'
  BY MoveTyped, UserStepTyped, InsertShareTyped, ShareStepTyped DEF Continue

LEMMA NextTyped == Base /\ [Next]_vars => Base'
<1> SUFFICES ASSUME Base, [Next]_vars
             PROVE  Base'
  OBVIOUS
<1>1. CASE UNCHANGED vars
  <2>1. UNCHANGED <<user, token, share, grant, file, last, keyring, mount, req, sess, faults>>
    BY <1>1 DEF vars, tables, memory
  <2>2. TablesTyped' /\ MemoryTyped' /\ RequestsTyped' /\ SessionsTyped'
    BY <2>1 DEF Base, Typed, TablesTyped, MemoryTyped, RequestsTyped, SessionsTyped,
                RequestShape, SessionShape
  <2>3. IdsGiven' /\ Checked' /\ faults' \in Nat
    BY <2>1 DEF Base, Typed, IdsGiven, Checked, Creating, Shares
  <2> QED
    BY <2>2, <2>3 DEF Base, Typed
<1>2. CASE Next
  BY <1>2, ArriveTyped, ContinueTyped, ClientTyped, RestartTyped DEF Next
<1> QED
  BY <1>1, <1>2

LEMMA TypedSpec == Spec => []Base
<1>1. Init => Base
  BY InitTyped
<1>2. Base /\ [Next]_vars => Base'
  BY NextTyped
<1> QED
  BY <1>1, <1>2, PTL DEF Spec

(* Every row, request and operation is of its type; a check value belongs  *)
(* to an encrypted share, and a share is only unlocked when it has one:    *)
(* UnlockShare looks before, and ids are not given twice, so what a late   *)
(* request unlocks is not another share of the same id.                    *)
THEOREM AccessTypeCorrect == Spec => []TypeOK
<1>1. Base => TypeOK
  BY DEF Base, Typed, TablesTyped, MemoryTyped, Checked, TypeOK
<1> QED
  BY <1>1, TypedSpec, PTL
=============================================================================

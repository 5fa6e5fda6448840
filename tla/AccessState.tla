------------------------------ MODULE AccessState ------------------------------
(***************************************************************************)
(* Accounts, grants and share keys: the rows of users, access_tokens,      *)
(* shares and share_users (internal/db/models.go), the keys of unlocked    *)
(* shares in memory (internal/pool/keyring.go), the mounts each user has   *)
(* cached (internal/vfs/root.go), the API requests that change them and    *)
(* the clients that read and write through them.                           *)
(***************************************************************************)
EXTENDS Naturals, FiniteSets

CONSTANTS
    Handlers,       \* API requests served at the same time
    Clients,        \* connections of the file protocols
    Names,          \* user names
    Fold,           \* a name -> the name in lower case
    Earlier,        \* accounts, shares and files that may have been set up before
    Granted,        \* bound: the permissions that grant requests give
    MaxUser, MaxShare, MaxToken,    \* bounds: ids ever given out
    MaxCalls,       \* bound: requests and file operations started
    MaxFaults,      \* bound: restarts and failing statements
    Nil,
    Overlaps        \* the races the environment may produce, see Allowed

VARIABLES
    user,           \* users: id -> row, Nil if there is none
    token,          \* access_tokens: id -> the user it belongs to, 0 if there is none
    share,          \* shares: id -> row, Nil if there is none
    grant,          \* share_users: share, user -> permission, Nil if there is none
    file,           \* the current version of the file of each share, Nil if there is none
    last,           \* the ids given last (AUTOINCREMENT: never given twice)
    keyring,        \* the shares that are unlocked in this process
    mount,          \* user, share -> the ShareFS cached by the RootFS of the user
    req,            \* handler -> the API request it is serving
    sess,           \* client -> its connection and the operation it is doing
    since,          \* history: what a client was granted since its operation began
    cut,            \* history: shares whose creation a crash or a failing statement ended
    calls, faults   \* requests and operations started, faults so far

tables == <<user, token, share, grant, file, last>>
memory == <<keyring, mount>>
vars   == <<tables, memory, req, sess, since, cut, calls, faults>>

UserIds  == 1..MaxUser
ShareIds == 1..MaxShare
TokenIds == 1..MaxToken
Role  == {"user", "admin"}
Perm  == {"read", "write", "admin"}
Codec == {"none", "zstd"}
Seal  == {"plain", "key", "zero"}       \* not encrypted; under the key; under a zeroed key

UserRow  == [name : Names, role : Role]
ShareRow == [enc : BOOLEAN, keyed : BOOLEAN, comp : Codec]

(* A slice as it is stored: how it was compressed, which also says how     *)
(* long a slice of the file is (sliceSize), and how it was encrypted.      *)
Slice    == [comp : Codec, seal : Seal]
Slices   == UNION {[D -> Slice] : D \in SUBSET (1..2)}
Version  == [comp : Codec, slice : Slices]

(* A ShareFS: the share and the permission it was made from.               *)
ShareFS  == [perm : Perm, row : ShareRow]

(* What earlier requests leave in the tables: ids from 1 on, rows that     *)
(* name rows there are, a check value for each encrypted share, files      *)
(* encoded as their share says.                                            *)
Consistent(e) ==
    LET users  == {u \in UserIds : e.user[u] # Nil}
        shares == {s \in ShareIds : e.share[s] # Nil}
        tokens == {t \in TokenIds : e.token[t] # 0}
    IN  /\ e.user \in [UserIds -> UserRow \cup {Nil}] /\ e.token \in [TokenIds -> 0..MaxUser]
        /\ e.share \in [ShareIds -> ShareRow \cup {Nil}]
        /\ e.grant \in [ShareIds -> [UserIds -> Perm \cup {Nil}]]
        /\ e.file \in [ShareIds -> Version \cup {Nil}]
        /\ \E n \in 0..MaxUser : users = 1..n
        /\ \E n \in 0..MaxShare : shares = 1..n
        /\ \E n \in 0..MaxToken : tokens = 1..n
        /\ \A t \in tokens : e.token[t] \in users
        /\ "case" \in Overlaps \/
                \A u, v \in users : u # v => Fold[e.user[u].name] # Fold[e.user[v].name]
        /\ \A s \in ShareIds, u \in UserIds : e.grant[s][u] # Nil => s \in shares /\ u \in users
        /\ \A s \in shares : e.share[s].enc <=> e.share[s].keyed
        /\ \A s \in ShareIds : e.file[s] # Nil =>
                /\ s \in shares /\ e.file[s].comp = e.share[s].comp
                /\ \A i \in DOMAIN e.file[s].slice : e.file[s].slice[i] =
                        [comp |-> e.share[s].comp, seal |-> IF e.share[s].enc THEN "key" ELSE "plain"]

ASSUME AccessAssumption ==
    /\ MaxUser \in Nat /\ MaxShare \in Nat /\ MaxToken \in Nat
    /\ Granted \subseteq Perm
    /\ \A e \in Earlier : Consistent(e)
ASSUME SentinelAssumption ==
    Nil \notin UserRow \cup ShareRow \cup Perm \cup Version \cup ShareFS \cup Slices

NoReq  == [op |-> "none", pc |-> "none", me |-> 0, user |-> 0, share |-> 0, token |-> 0,
           name |-> Nil, what |-> Nil, flag |-> FALSE]
NoSess == [user |-> 0, op |-> "none", pc |-> "none", share |-> 0, row |-> Nil, fs |-> Nil,
           base |-> Nil, key |-> "plain"]

TypeOK ==
    /\ user \in [UserIds -> UserRow \cup {Nil}]
    /\ token \in [TokenIds -> 0..MaxUser]
    /\ share \in [ShareIds -> ShareRow \cup {Nil}]
    /\ grant \in [ShareIds -> [UserIds -> Perm \cup {Nil}]]
    /\ file \in [ShareIds -> Version \cup {Nil}]
    /\ last \in [user : 0..MaxUser, share : 0..MaxShare, token : 0..MaxToken]
    /\ keyring \subseteq ShareIds
    /\ mount \in [UserIds -> [ShareIds -> ShareFS \cup {Nil}]]
    /\ \A s \in ShareIds : share[s] # Nil /\ share[s].keyed => share[s].enc
    /\ \A s \in keyring : share[s] # Nil => share[s].keyed

Users  == {u \in UserIds : user[u] # Nil}
Shares == {s \in ShareIds : share[s] # Nil}
Admins == {u \in Users : user[u].role = "admin"}

(* A database that earlier requests have left, and a process just started. *)
Init ==
    /\ \E e \in Earlier :
        /\ user = e.user /\ token = e.token /\ share = e.share
        /\ grant = e.grant /\ file = e.file
    /\ last = [user |-> Cardinality(Users), share |-> Cardinality(Shares),
               token |-> Cardinality({t \in TokenIds : token[t] # 0})]
    /\ keyring = {}
    /\ mount = [u \in UserIds |-> [s \in ShareIds |-> Nil]]
    /\ req = [a \in Handlers |-> NoReq]
    /\ sess = [c \in Clients |-> NoSess]
    /\ since = [c \in Clients |-> {}] /\ cut = {}
    /\ calls = 0 /\ faults = 0
=============================================================================

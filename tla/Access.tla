-------------------------------- MODULE Access ---------------------------------
(***************************************************************************)
(* API requests and file operations together, the races that are left out, *)
(* and the properties.                                                     *)
(***************************************************************************)
EXTENDS AccessMounts

(* Requests, authenticated as a user; those on users and shares need the   *)
(* administrator.                                                          *)
Arrive(a) ==
    /\ req[a].op = "none"
    /\ \/ \E n \in Names : Bootstrap(a, n)
       \/ \E u \in Users : CreateToken(a, u)
       \/ \E t \in TokenIds : token[t] # 0 /\ RevokeToken(a, t)
       \/ \E me \in Admins :
            \/ \E n \in Names, r \in Role : CreateUser(a, me, n, r)
            \/ \E u \in Users : DeleteUser(a, me, u) \/ \E r \in Role : SetRole(a, me, u, r)
            \/ \E enc \in BOOLEAN : CreateShare(a, me, enc)
            \/ \E s \in Shares :
                \/ Unlock(a, me, s) \/ Lock(a, me, s)
                \/ \E f \in BOOLEAN : DeleteShare(a, me, s, f)
                \/ \E z \in Codec : UpdateShare(a, me, s, z)
                \/ \E u \in Users : Revoke(a, me, s, u) \/ \E p \in Granted : Grant(a, me, s, u, p)

Continue(a) ==
    /\ req[a].op # "none"
    /\ \/ HasUsers(a) \/ UsernameTaken(a) \/ InsertUser(a) \/ DropUser(a) \/ UpdateUser(a)
       \/ RequireUser(a) \/ InsertToken(a) \/ DropToken(a)
       \/ InsertShare(a) \/ GrantCreator(a) \/ SetPassword(a)
       \/ SetPasswordFails(a) \/ UndoGrants(a) \/ UndoShare(a)
       \/ GetShare(a) \/ GetUser(a) \/ PutGrant(a) \/ DropGrant(a) \/ SetShare(a)
       \/ KeySet(a) \/ KeyDelete(a)
       \/ CountFiles(a) \/ PurgeShare(a) \/ DeleteShareMeta(a)
       \/ FailRequest(a)

Client(c) ==
    \/ \E t \in TokenIds : Connect(c, t)
    \/ Disconnect(c)
    \/ \E op \in {"read", "put", "patch"}, s \in Shares : Begin(c, op, s)
    \/ /\ sess[c].op # "none"
       /\ \/ FindShare(c) \/ FindGrant(c) \/ ReadFile(c) \/ CreateInode(c)
          \/ TakeKey(c) \/ SealSlice(c) \/ Commit(c) \/ FailOperation(c)

(* What a request is about to act on, after it has looked.                 *)
Creating(a) == req[a].op = "share" /\ req[a].pc # "row"
UsesShare(a) == Creating(a) \/ req[a].pc \in {"get user", "put grant", "set", "unlock"}
Deleting(a)  ==
    \/ req[a].op = "delete" /\ req[a].pc \in {"purge", "meta", "lock"}
    \/ req[a].pc \in {"undo grants", "undo share"}
Working(c)   == sess[c].op # "none" /\ sess[c].pc # "share"

(* The races of check and act, one class each:                             *)
(*   mutual  an administrator is deleted while he deletes another user;    *)
(*   user    a user is deleted while a grant or a token is made for him;   *)
(*   share   a share is deleted while it is used, unlocked or granted;     *)
(*   lock    a share is locked while a client holds the bytes of its key;  *)
(*   codec   the compression of a share with files, or with a write that   *)
(*           runs, is changed;                                             *)
(*   case    a second user gets a name that differs only in case.          *)
Allowed ==
    /\ \A a, b \in Handlers : a # b =>
        /\ "share" \in Overlaps \/ ~(Deleting(a) /\ UsesShare(b) /\ req[a].share = req[b].share)
    /\ \A a \in Handlers :
        /\ "mutual" \in Overlaps \/ (req[a].pc = "drop user" => req[a].me \in Users)
        /\ "user" \in Overlaps \/
            /\ req[a].pc \in {"put grant", "insert token"} => req[a].user \in Users
            /\ req[a].pc = "own" => req[a].me \in Users
        /\ "codec" \in Overlaps \/ ~(req[a].pc = "set" /\
                (file[req[a].share] # Nil \/ \E c \in Clients :
                    sess[c].op # "read" /\ Working(c) /\ sess[c].share = req[a].share))
        /\ \A c \in Clients : "share" \in Overlaps \/
                ~(Deleting(a) /\ Working(c) /\ sess[c].share = req[a].share)
    /\ \A c \in Clients : "lock" \in Overlaps \/ sess[c].key # "zero"
    /\ "case" \in Overlaps \/
            \A u, v \in Users : u # v => Fold[user[u].name] # Fold[user[v].name]

(* The history: what a client was granted since it began, and the shares   *)
(* whose creation ends now by a crash or a failing statement.              *)
Interrupted == {a \in Handlers : Creating(a) /\ faults' # faults /\ req'[a] = NoReq}
Remember ==
    /\ since' = [c \in Clients |->
                    LET now == {grant'[sess'[c].share][sess'[c].user]} IN
                    IF sess'[c].op = "none" THEN {}
                    ELSE IF sess[c].op = "none" THEN now
                    ELSE since[c] \cup now]
    /\ cut' = cut \cup {req[a].share : a \in Interrupted}

Next ==
    /\ \/ \E a \in Handlers : Arrive(a) \/ Continue(a)
       \/ \E c \in Clients : Client(c)
       \/ Restart
    /\ Remember
    /\ Allowed'

Spec == Init /\ [][Next]_vars
-----------------------------------------------------------------------------
(* Properties.                                                             *)

(* Every path is resolved with the permission the user has, or had when    *)
(* the operation began: RootFS keeps mounts, and yet a grant that is taken *)
(* back or lowered counts at once, also for connections that stay open.    *)
FreshPermission ==
    \A c \in Clients : sess[c].fs # Nil => sess[c].fs.perm \in since[c]

(* Whoever may read a file can: each slice of its current version was      *)
(* encoded with the compression the version names, and cut by the slice    *)
(* size the mount computes now; those of an encrypted share are sealed     *)
(* with its key, not left plain and not sealed with a key wiped meanwhile. *)
SlicesDecodable ==
    \A s \in Shares : file[s] # Nil =>
        \A i \in DOMAIN file[s].slice :
            /\ file[s].slice[i].comp = file[s].comp
            /\ file[s].slice[i].comp = share[s].comp
            /\ file[s].slice[i].seal = IF share[s].enc THEN "key" ELSE "plain"

(* What belongs to a user or a share goes with it: no grant names one that *)
(* is gone, no file and no key of a deleted share is left.                 *)
NothingOutlives ==
    /\ \A s \in ShareIds, u \in UserIds : grant[s][u] # Nil => s \in Shares /\ u \in Users
    /\ \A s \in ShareIds \ Shares :
        /\ file[s] = Nil
        /\ s \in keyring => \E a \in Handlers : Deleting(a) /\ req[a].share = s

(* A token lets its owner in: he exists, and his name finds him.           *)
TokenAdmits ==
    \A t \in TokenIds : token[t] # 0 => token[t] \in Users /\ Admits(user[token[t]].name, t)

(* Nobody becomes administrator by bootstrap once a user was ever created, *)
(* however many bootstraps run at once: only those that had looked before  *)
(* the first user was there go on, and no sequence of deletions and        *)
(* demotions empties the table again, which would open it to everyone.     *)
BootstrapCloses ==
    [][\A a \in Handlers :
        req[a].pc = "users" /\ req'[a].pc = "name" => last.user = 0]_vars

(* An encrypted share without a password is being created, or a crash or a *)
(* failing statement ended its creation: a password that cannot be set     *)
(* leaves none (shares.go:209-213).  Nobody uses such a half share: it     *)
(* cannot be unlocked and nothing was written into it in plain, so that    *)
(* deleting it loses nothing.                                              *)
HalfShareUnused ==
    \A s \in Shares : share[s].enc /\ ~share[s].keyed =>
        /\ s \in cut \/ \E a \in Handlers : Creating(a) /\ req[a].share = s
        /\ s \notin keyring /\ file[s] = Nil
=============================================================================

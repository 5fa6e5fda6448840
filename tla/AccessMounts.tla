------------------------------ MODULE AccessMounts -----------------------------
(***************************************************************************)
(* The file protocols on behalf of users: authentication by token, the     *)
(* aggregated root with its cached mounts (internal/vfs/root.go), and the  *)
(* encoding of what is written (internal/vfs/crypto.go).                   *)
(***************************************************************************)
EXTENDS AccessAdmin, FiniteSetsExt

(* AuthenticateSecret, AuthenticatePublicKey, SMBHashes: the first user    *)
(* whose name is the given one but for case, and a token that is his.      *)
UserByName(n) == {u \in Users : Fold[user[u].name] = Fold[n]}
Admits(n, t)  == UserByName(n) # {} /\ token[t] = Min(UserByName(n))

(* A client logs in with its name and a token, and leaves.                 *)
Connect(c, t) ==
    /\ sess[c].user = 0 /\ token[t] \in Users
    /\ Admits(user[token[t]].name, t)
    /\ sess' = [sess EXCEPT ![c].user = token[t]]
    /\ UNCHANGED <<tables, memory, req, calls, faults>>

Disconnect(c) ==
    /\ sess[c].user # 0 /\ sess[c].op = "none"
    /\ sess' = [sess EXCEPT ![c] = NoSess]
    /\ UNCHANGED <<tables, memory, req, calls, faults>>

(* The operation c is doing is now at r; it returns.                       *)
At(c, r)   == sess' = [sess EXCEPT ![c] = r] /\ UNCHANGED <<req, calls, faults>>
Returns(c) == At(c, [NoSess EXCEPT !.user = sess[c].user])

(* A path below a share: the root is the same for every operation.         *)
(*   read   opens and reads the file                                       *)
(*   put    opens it with O_CREATE and O_TRUNC, writes both slices         *)
(*   patch  writes over the first slice; the other one is inherited        *)
Begin(c, op, s) ==
    /\ sess[c].user # 0 /\ sess[c].op = "none" /\ calls < MaxCalls
    /\ sess' = [sess EXCEPT ![c].op = op, ![c].pc = "share", ![c].share = s]
    /\ calls' = calls + 1
    /\ UNCHANGED <<tables, memory, req, faults>>

(* shareByName: the row of the share, then the grant.                      *)
FindShare(c) ==
    /\ sess[c].pc = "share"
    /\ IF sess[c].share \in Shares
       THEN At(c, [sess[c] EXCEPT !.pc = "grant", !.row = share[sess[c].share]])
       ELSE Returns(c)
    /\ UNCHANGED <<tables, memory>>

(* mountFor: the cached ShareFS, unless something it was made from changed. *)
SameMount_AnyPermission(fs, row, p) == fs.row = row     (* Mutant: the permission is not compared. *)
SameMount(fs, row, p) == fs.row = row /\ fs.perm = p

MountFor(u, s, row, p) ==
    LET cur == mount[u][s] IN
    IF cur # Nil /\ SameMount(cur, row, p) THEN cur ELSE [perm |-> p, row |-> row]

(* requireWrite and requireCodec: what a write needs of the mount.         *)
HasKey(s) == s \in keyring
MayWrite(s, fs) == fs.perm \in {"write", "admin"} /\ (fs.row.enc => HasKey(s))

(* Where Open goes on: it looks the file up, and creates it for put.       *)
Opened(r, fs) ==
    LET v == file[r.share] IN
    [r EXCEPT !.fs = fs, !.row = Nil,
              !.pc = IF r.op = "put" /\ v = Nil THEN "create" ELSE "key",
              !.base = IF r.op = "patch" THEN v.slice ELSE <<>>]

FindGrant(c) ==
    LET r  == sess[c]
        p  == grant[r.share][r.user]
        fs == MountFor(r.user, r.share, r.row, p)
    IN  /\ r.pc = "grant"
        /\ IF p = Nil THEN Returns(c) /\ UNCHANGED mount
           ELSE /\ mount' = [mount EXCEPT ![r.user][r.share] = fs]
                /\ CASE r.op = "read" -> At(c, [r EXCEPT !.pc = "read", !.fs = fs, !.row = Nil])
                     [] r.op # "read" /\ MayWrite(r.share, fs) /\ (r.op = "patch" => file[r.share] # Nil)
                            -> At(c, Opened(r, fs))
                     [] OTHER -> Returns(c)
        /\ UNCHANGED <<tables, keyring>>

ReadFile(c) == sess[c].pc = "read" /\ Returns(c) /\ UNCHANGED <<tables, memory>>

(* createInode: an empty file, at once.                                    *)
CreateInode(c) ==
    LET r == sess[c] IN
    /\ r.pc = "create"
    /\ file' = [file EXCEPT ![r.share] = [comp |-> r.fs.row.comp, slice |-> <<>>]]
    /\ At(c, [r EXCEPT !.pc = "key"])
    /\ UNCHANGED <<user, token, share, grant, last, memory>>

(* aead: the key of the keyring, or ErrEncrypted.                          *)
TakeKey_Plain(c) ==                 (* Mutant: without a key the slice stays plain. *)
    LET r == sess[c] IN
    /\ r.pc = "key"
    /\ At(c, IF r.fs.row.enc /\ HasKey(r.share) THEN [r EXCEPT !.pc = "seal", !.key = "ring"]
             ELSE [r EXCEPT !.pc = "store"])
    /\ UNCHANGED <<tables, memory>>
TakeKey(c) ==
    LET r == sess[c] IN
    /\ r.pc = "key"
    /\ IF ~r.fs.row.enc THEN At(c, [r EXCEPT !.pc = "store"])
       ELSE IF HasKey(r.share) THEN At(c, [r EXCEPT !.pc = "seal", !.key = "ring"])
       ELSE Returns(c)
    /\ UNCHANGED <<tables, memory>>

(* encryptSlice, with what the bytes of the key are by then.               *)
SealSlice(c) ==
    LET r == sess[c] IN
    /\ r.pc = "seal"
    /\ At(c, [r EXCEPT !.pc = "store", !.key = IF r.key = "ring" THEN "key" ELSE r.key])
    /\ UNCHANGED <<tables, memory>>

(* The slices are in the pool; Close makes them the current version, whose *)
(* row names the compression of the mount for all of them.                 *)
Commit(c) ==
    LET r    == sess[c]
        new  == [comp |-> r.fs.row.comp, seal |-> r.key]
        wrote == IF r.op = "put" THEN 1..2 ELSE {1}
    IN  /\ r.pc = "store"
        /\ file' = IF file[r.share] = Nil THEN file ELSE
                [file EXCEPT ![r.share] =
                    [comp  |-> r.fs.row.comp,
                     slice |-> [i \in wrote \cup DOMAIN r.base |->
                                   IF i \in wrote THEN new ELSE r.base[i]]]]
        /\ Returns(c)
        /\ UNCHANGED <<user, token, share, grant, last, memory>>

(* A statement or the pool fails, and so does the operation.               *)
FailOperation(c) ==
    /\ sess[c].op # "none" /\ faults < MaxFaults
    /\ sess' = [sess EXCEPT ![c] = [NoSess EXCEPT !.user = sess[c].user]]
    /\ faults' = faults + 1
    /\ UNCHANGED <<tables, memory, req, calls>>

(* The process ends and starts again: the tables are all there is.         *)
Restart ==
    /\ faults < MaxFaults
    /\ keyring' = {}
    /\ mount' = [u \in UserIds |-> [s \in ShareIds |-> Nil]]
    /\ req' = [a \in Handlers |-> NoReq]
    /\ sess' = [c \in Clients |-> NoSess]
    /\ faults' = faults + 1
    /\ UNCHANGED <<tables, calls>>
=============================================================================

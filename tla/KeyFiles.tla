------------------------------ MODULE KeyFiles ------------------------------
(***************************************************************************)
(* The keys of the people who share a machine.                             *)
(*                                                                         *)
(* A member's key reaches the machine sealed in the member's row of        *)
(* machine_users.  The main loop opens it and writes the file              *)
(* key_<user_id> (main.rs, x25519.rs); a row that is removed, or whose     *)
(* sealed blob is cleared, takes the file and the cached key away.  The    *)
(* main loop, the writer and the control task look keys up in the          *)
(* KeyStore, a cache over the files under one mutex (crypto.rs).  The      *)
(* members are saved in state.json, the keys only in their files.          *)
(*                                                                         *)
(* Keys are numbers; 0 is no key.  The key OwnerKey is the owner's, or the *)
(* one of the days when a machine had a single file "key".  The bucket is  *)
(* external: its server mints one key for each membership and moves a row, *)
(* REMOVE then PUT, on every update.                                       *)
(*                                                                         *)
(* torn, kept and lost are history: the members whose key file was gone    *)
(* when a crash brought an older state.json back, those whose file could   *)
(* not be removed, and those whose row was removed unseen.                 *)
(***************************************************************************)
EXTENDS Integers, Sequences, FiniteSets

CONSTANTS
  Owner,       \* the machine's owner
  Invitee,     \* those who may become members
  MaxOps,      \* bound: operations in the bucket
  MaxCrashes,  \* bound: crashes and restarts
  MaxFaults    \* bound: file operations that fail

User == Invitee \cup {Owner}

ASSUME KeyAssumption ==
  Owner \notin Invitee /\ {MaxOps, MaxCrashes, MaxFaults} \subseteq Nat

VARIABLES
  log,      \* the bucket's operations on machines and machine_users
  pos,      \* how many the main loop has handled
  seeded,   \* install.sh wrote ZUCCHINI_USER_ID: the owner is known at the boot
  known,    \* Mirror::user_id is set
  members,  \* Mirror::members: row id and last sealed blob; row 0: no member
  buckets,  \* Mirror::buckets, the cursor of the last checkpoint
  disk,     \* state.json
  secret,   \* this boot has its x25519 secret
  file,     \* the key files
  legacy,   \* the single "key" file of old is there
  cache,    \* KeyStore::cache
  getter,   \* a lookup that holds the cache's mutex
  main,     \* what the main loop is at
  swept,    \* key_files_reconciled
  crashes, faults,
  torn, kept, lost

bucket == <<log, seeded>>
mirror == <<known, members, buckets>>
store == <<file, legacy, cache, getter>>
history == <<torn, kept, lost>>
vars == <<bucket, pos, mirror, disk, secret, store, main, swept, crashes, faults, history>>

Absent == -1    \* never looked up
Missing == 0    \* looked up, no such file: the negative entry
OwnerKey == 1

NoMember == [row |-> 0, blob |-> 0]
NoGet == [user |-> Owner, at |-> "none", found |-> 0]
Select == [at |-> "select", user |-> Owner, next |-> "select"]

Put(u, row, key) == [kind |-> "put", user |-> u, row |-> row, key |-> key]
Remove(u, row) == [kind |-> "remove", user |-> u, row |-> row, key |-> 0]
Machine == [kind |-> "machine", user |-> Owner, row |-> 0, key |-> 0]
OwnersRow == Put(Owner, 1, 0)

Init ==
  /\ log \in {<<Machine, OwnersRow>>, <<OwnersRow, Machine>>} /\ pos = 0
  /\ legacy \in BOOLEAN /\ seeded = ~legacy /\ known = seeded    \* old installs have neither
  /\ members = [u \in User |-> NoMember] /\ buckets = 0
  /\ disk = [known |-> seeded, members |-> members, buckets |-> 0]
  /\ secret \in BOOLEAN
  /\ file = [u \in User |-> IF u = Owner /\ ~legacy THEN OwnerKey ELSE 0]
  /\ cache = [u \in User |-> Absent] /\ getter = NoGet
  /\ main = Select /\ swept = FALSE /\ crashes = 0 /\ faults = 0
  /\ torn = {} /\ kept = {} /\ lost = {}

-----------------------------------------------------------------------------
(* The bucket (external)                                                   *)

\* The last operation on a user's membership, if there is one.
LastOf(u) ==
  {i \in 1..Len(log) : /\ log[i].user = u /\ log[i].kind # "machine"
                       /\ \A j \in i + 1..Len(log) : log[j].user = u => log[j].kind = "machine"}

Active(u) == \E i \in LastOf(u) : log[i].kind = "put"

\* A row and a key nobody had before.
Fresh == Len(log) + 2

\* The main loop looks at the bucket only between two events.
Commit(ops) ==
  /\ main.at = "select" /\ getter.at = "none"
  /\ Len(log) + Len(ops) <= MaxOps
  /\ log' = log \o ops
  /\ UNCHANGED <<seeded, pos, mirror, disk, secret, store, main, swept, crashes, faults, history>>

Invite(u) == ~Active(u) /\ Commit(<<Put(u, Fresh, Fresh)>>)

\* Some column of the row changes, or its blob is cleared, or set again: a
\* membership's key is never another, and its number is its row's.
Update(u) ==
  \E i \in LastOf(u) :
    /\ log[i].kind = "put"
    /\ \E key \in {log[i].row, 0} : Commit(<<Remove(u, log[i].row), Put(u, log[i].row, key)>>)

Expel(u) == \E i \in LastOf(u) : log[i].kind = "put" /\ Commit(<<Remove(u, log[i].row)>>)

-----------------------------------------------------------------------------
(* KeyStore::get                                                           *)

\* A hit changes nothing.  Otherwise the file is read under the mutex.
GetRead(u) ==
  /\ getter.at = "none" /\ cache[u] = Absent
  /\ getter' = [user |-> u, at |-> "read", found |-> file[u]]
  /\ UNCHANGED <<bucket, pos, mirror, disk, secret, file, legacy, cache, main, swept,
                 crashes, faults, history>>

\* A key that was read is cached; when there is none, whoever comes first takes
\* the single key of old (try_migrate_legacy_key), and without one the miss is
\* cached.
GetCache ==
  LET u == getter.user
  IN  /\ getter.at = "read"
      /\ IF getter.found = 0 /\ legacy
         THEN /\ file' = [file EXCEPT ![u] = OwnerKey]
              /\ legacy' = FALSE
              /\ cache' = [cache EXCEPT ![u] = OwnerKey]
         ELSE /\ cache' = [cache EXCEPT ![u] = getter.found]
              /\ UNCHANGED <<file, legacy>>
      /\ getter' = NoGet
      /\ UNCHANGED <<bucket, pos, mirror, disk, secret, main, swept, crashes, faults, history>>

\* The file is there but cannot be read: nothing is cached.
GetFails ==
  /\ getter.at = "read" /\ getter.found # 0 /\ faults < MaxFaults
  /\ faults' = faults + 1
  /\ getter' = NoGet
  /\ UNCHANGED <<bucket, pos, mirror, disk, secret, file, legacy, cache, main, swept,
                 crashes, history>>

-----------------------------------------------------------------------------
(* The main loop                                                           *)

Op == log[pos + 1]

Take(kind) ==
  /\ main.at = "select" /\ pos < Len(log) /\ Op.kind = kind
  /\ pos' = pos + 1

\* A bucket is compacted: what a later operation on a user's row overrides may
\* never be streamed, nor a removal that a CLEAR stands for.
Compacted ==
  /\ main.at = "select" /\ pos < Len(log)
  /\ Op.kind = "remove" \/ \E j \in pos + 2..Len(log) : log[j].user = Op.user /\ Op.kind = "put"
  /\ pos' = pos + 1
  /\ lost' = IF Op.kind = "remove" /\ members[Op.user].row = Op.row
             THEN lost \cup {Op.user} ELSE lost
  /\ UNCHANGED <<bucket, mirror, disk, secret, store, main, swept, crashes, faults,
                 torn, kept>>

IsOwner(u) == u = Owner /\ known

\* Mirror::upsert_member: a new member has no blob.
Upserted == [members EXCEPT ![Op.user].row = Op.row]
SaveIf(changed) == [Select EXCEPT !.at = IF changed THEN "save" ELSE "select"]

\* Mutant: the cached key is not forgotten.
RevokeNoForget(u, next) ==
  \/ /\ file' = [file EXCEPT ![u] = 0]
     /\ main' = [Select EXCEPT !.at = next]
     /\ UNCHANGED <<faults, kept>>
  \/ /\ file[u] # 0 /\ faults < MaxFaults
     /\ faults' = faults + 1 /\ kept' = kept \cup {u}
     /\ main' = [Select EXCEPT !.at = next]
     /\ UNCHANGED file

\* revoke_local_access: the file first, and the cached key only when the file
\* is gone.
Revoke(u, next) ==
  \/ /\ file' = [file EXCEPT ![u] = 0]
     /\ main' = [at |-> "forget", user |-> u, next |-> next]
     /\ UNCHANGED <<faults, kept>>
  \/ /\ file[u] # 0 /\ faults < MaxFaults
     /\ faults' = faults + 1 /\ kept' = kept \cup {u}
     /\ main' = [Select EXCEPT !.at = next]
     /\ UNCHANGED file

TakeMachine ==
  /\ Take("machine")
  /\ known' = TRUE
  /\ main' = SaveIf(~known)
  /\ UNCHANGED <<bucket, members, buckets, disk, secret, store, swept, crashes, faults, history>>

\* A row without a key to take: the owner's, one whose blob was opened before,
\* or any when this boot has no secret.
PutPlain ==
  /\ Take("put")
  /\ \/ IsOwner(Op.user)
     \/ Op.key # 0 /\ (members[Op.user].blob = Op.key \/ ~secret)
  /\ members' = Upserted
  /\ main' = SaveIf(Upserted # members)
  /\ UNCHANGED <<bucket, known, buckets, disk, secret, store, swept, crashes, faults, history>>

\* Mutant: clear_sealed_blob is left out.
PutClearedNotBlob ==
  /\ Take("put") /\ ~IsOwner(Op.user) /\ Op.key = 0
  /\ members' = Upserted
  /\ Revoke(Op.user, SaveIf(members' # members).at)
  /\ UNCHANGED <<bucket, known, buckets, disk, secret, legacy, cache, getter, swept, crashes,
                 torn, lost>>

\* A row whose blob was cleared ends the access and keeps the membership.
PutCleared ==
  /\ Take("put") /\ ~IsOwner(Op.user) /\ Op.key = 0
  /\ members' = [Upserted EXCEPT ![Op.user].blob = 0]
  /\ Revoke(Op.user, SaveIf(members' # members).at)
  /\ UNCHANGED <<bucket, known, buckets, disk, secret, legacy, cache, getter, swept, crashes,
                 torn, lost>>

Opening ==
  /\ Take("put") /\ ~IsOwner(Op.user) /\ Op.key # 0
  /\ members[Op.user].blob # Op.key /\ secret

\* persist_user_key: a file of the same bytes will do.  Nothing is forgotten.
PutKey ==
  /\ Opening /\ file[Op.user] \in {0, Op.key}
  /\ file' = [file EXCEPT ![Op.user] = Op.key]
  /\ members' = [Upserted EXCEPT ![Op.user].blob = Op.key]
  /\ main' = SaveIf(TRUE)
  /\ UNCHANGED <<bucket, known, buckets, disk, secret, legacy, cache, getter, swept, crashes,
                 faults, history>>

\* A blob that does not open, a file with another key, or one that cannot be
\* written: the row is not recorded.
PutRefused ==
  /\ Opening
  /\ IF file[Op.user] \in {0, Op.key}
     THEN faults < MaxFaults /\ faults' = faults + 1
     ELSE UNCHANGED faults
  /\ UNCHANGED <<bucket, mirror, disk, secret, store, main, swept, crashes, history>>

\* A row that is removed is applied as it arrives, be it for an update or for
\* good; one nobody is recorded under, or the owner's, is ignored.
TakeRemove ==
  /\ Take("remove")
  /\ LET gone == {u \in User : members[u].row = Op.row}
     IN  IF gone = {} \/ IsOwner(CHOOSE u \in gone : TRUE)
         THEN UNCHANGED <<members, file, main, faults, kept>>
         ELSE LET u == CHOOSE v \in gone : TRUE
              IN  members' = [members EXCEPT ![u] = NoMember] /\ Revoke(u, "save")
  /\ UNCHANGED <<bucket, known, buckets, disk, secret, legacy, cache, getter, swept, crashes,
                 torn, lost>>

\* KeyStore::forget waits for the cache's mutex.
Forget ==
  /\ main.at = "forget" /\ getter.at = "none"
  /\ cache' = [cache EXCEPT ![main.user] = Absent]
  /\ main' = [Select EXCEPT !.at = main.next]
  /\ UNCHANGED <<bucket, pos, mirror, disk, secret, file, legacy, getter, swept, crashes,
                 faults, history>>

\* The end of a checkpoint: its cursor goes to the mirror, and the first one
\* whose owner is known is followed by the sweep.
Checkpoint ==
  /\ main.at = "select" /\ pos = Len(log) /\ (buckets # pos \/ (known /\ ~swept))
  /\ buckets' = pos
  /\ swept' = (swept \/ known)
  /\ main' = [Select EXCEPT !.at = "save", !.next = IF known /\ ~swept THEN "sweep" ELSE "select"]
  /\ UNCHANGED <<bucket, pos, known, members, disk, secret, store, crashes, faults, history>>

\* save_mirror; an error is only logged.
Save ==
  /\ main.at = "save"
  /\ \/ disk' = [known |-> known, members |-> members, buckets |-> buckets] /\ UNCHANGED faults
     \/ faults < MaxFaults /\ faults' = faults + 1 /\ UNCHANGED disk
  /\ main' = [Select EXCEPT !.at = main.next]
  /\ UNCHANGED <<bucket, pos, mirror, secret, store, swept, crashes, history>>

\* Mutant: only files of keys in use are looked at.
OrphansInUse ==
  {u \in User : file[u] # 0 /\ ~IsOwner(u) /\ members[u].row = 0 /\ cache[u] # Absent}

\* reconcile_key_files: the files of those who are not members.
Orphans == {u \in User : file[u] # 0 /\ ~IsOwner(u) /\ members[u].row = 0}

Sweep ==
  /\ main.at = "sweep"
  /\ IF Orphans \ kept = {} THEN main' = Select /\ UNCHANGED <<file, faults, kept>>
     ELSE \E u \in Orphans \ kept : Revoke(u, "sweep")
  /\ UNCHANGED <<bucket, pos, mirror, disk, secret, legacy, cache, getter, swept, crashes,
                 torn, lost>>

\* A crash and the next boot: the mirror is state.json's, and the stream resumes
\* from the cursor saved in it, or, when it cannot be read, both begin anew.  The
\* environment has the owner's id, if anything.
Crash ==
  /\ crashes < MaxCrashes /\ crashes' = crashes + 1
  /\ \/ /\ torn' = torn \cup {u \in User : disk.members[u].blob \notin {0, file[u]}}
        /\ known' = (disk.known \/ seeded)
        /\ members' = disk.members /\ buckets' = disk.buckets /\ pos' = disk.buckets
     \/ /\ known' = seeded
        /\ members' = [u \in User |-> NoMember] /\ buckets' = 0 /\ pos' = 0
        /\ UNCHANGED torn
  /\ secret' \in BOOLEAN
  /\ cache' = [u \in User |-> Absent] /\ getter' = NoGet
  /\ main' = Select /\ swept' = FALSE
  /\ UNCHANGED <<bucket, disk, file, legacy, faults, kept, lost>>

-----------------------------------------------------------------------------
Next ==
  \/ \E u \in Invitee : Invite(u) \/ Update(u) \/ Expel(u)
  \/ \E u \in User : GetRead(u)
  \/ GetCache \/ GetFails
  \/ Compacted \/ TakeMachine \/ PutPlain \/ PutCleared \/ PutKey \/ PutRefused \/ TakeRemove
  \/ Forget \/ Checkpoint \/ Save \/ Sweep
  \/ Crash

Spec == Init /\ [][Next]_vars

-----------------------------------------------------------------------------
(* Properties                                                              *)

Keys == 0..MaxOps + 1

Operation == [kind : {"put", "remove", "machine"}, user : User, row : Keys, key : Keys]

TypeOK ==
  /\ log \in Seq(Operation) /\ pos \in 0..Len(log)
  /\ seeded \in BOOLEAN /\ known \in BOOLEAN /\ secret \in BOOLEAN
  /\ legacy \in BOOLEAN /\ swept \in BOOLEAN
  /\ members \in [User -> [row : Keys, blob : Keys]] /\ buckets \in 0..Len(log)
  /\ disk \in [known : BOOLEAN, members : [User -> [row : Keys, blob : Keys]],
               buckets : 0..Len(log)]
  /\ file \in [User -> Keys] /\ cache \in [User -> Keys \cup {Absent}]
  /\ getter \in [user : User, at : {"none", "read"}, found : Keys]
  /\ main \in [at : {"select", "forget", "save", "sweep"}, user : User,
               next : {"select", "save", "sweep"}]
  /\ crashes \in 0..MaxCrashes /\ faults \in 0..MaxFaults
  /\ torn \subseteq User /\ kept \subseteq User /\ lost \subseteq User

\* A key that is cached is the one on disk, whatever the order of lookups,
\* revocations and sweeps, and also when a file cannot be removed: only between
\* the removal of its file and the forget that follows does it outlive it.
CacheMirrorsDisk ==
  \A u \in User :
    cache[u] > 0 => cache[u] = file[u] \/ (main.at = "forget" /\ main.user = u)

\* A member whose blob the mirror takes as opened, and would not open again,
\* has its key file: the transient removal of an update is made up for by the
\* PUT that follows.  Not so after a crash between the removal and the save.
OpenedBlobHasFile ==
  \A u \in Invitee \ torn :
    main.at = "select" /\ members[u].blob # 0 => file[u] \in {members[u].blob, OwnerKey}

\* Whoever is no member when a checkpoint has been applied has neither a key
\* file nor a cached key, however the end of the membership was learnt: from a
\* removed row, from a cleared blob, or, when state.json was lost, from the first
\* sweep; and also when a row was turned down in between.  Exempt are those whose
\* file would not go, and those of whose removal nothing was streamed.
GoneMeansNoKey ==
  \A u \in Invitee \ (kept \cup lost) :
    main.at = "select" /\ swept /\ buckets = Len(log) /\ ~Active(u)
      => file[u] \in {0, OwnerKey} /\ cache[u] \in {Absent, Missing, OwnerKey}

\* main.rs, at the end of apply_machine_users_put, says nothing need be
\* forgotten when a key is stored: what is cached is absent or the same key.
StoredKeyIsFound == \A u \in User : cache[u] = Missing => file[u] = 0
=============================================================================

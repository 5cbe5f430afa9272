--------------------------- MODULE KeyFiles_proofs ---------------------------
(***************************************************************************)
(* Safety of KeyFiles for any members and any number of operations,        *)
(* crashes and failing files: the cache never holds a key that is not on   *)
(* disk, but for the moment between a removal and its forget, and a member *)
(* whose blob was opened has the file.                                     *)
(***************************************************************************)
EXTENDS KeyFiles, SequenceTheorems, TLAPS

\* The file of this user was just removed, and the cached key is still there.
Forgetting(u) == main.at = "forget" /\ main.user = u

\* What a lookup has read and not cached yet is the file, as if it were cached.
\* A miss is not: the key may be stored before it is cached.
GetterInv ==
  getter.at = "read" /\ getter.found > 0 =>
    getter.found = file[getter.user] \/ Forgetting(getter.user)

\* A row that is put has a number, which a member without one does not.
RowInv == \A i \in 1..Len(log) : log[i].kind = "put" => log[i].row # 0

\* Only members have a blob, and one that was opened has its key on disk.
BlobInv ==
  /\ \A u \in User : members[u].row = 0 => members[u].blob = 0
  /\ \A u \in User : disk.members[u].row = 0 => disk.members[u].blob = 0
  /\ \A u \in Invitee \ torn : members[u].blob # 0 => file[u] \in {members[u].blob, OwnerKey}

IInv == TypeOK /\ CacheMirrorsDisk /\ GetterInv /\ RowInv /\ BlobInv

-----------------------------------------------------------------------------
(* Types                                                                   *)

LEMMA KeysAreNumbers == 0 \in Keys /\ OwnerKey \in Keys /\ Keys \subseteq Nat
BY KeyAssumption DEF Keys, OwnerKey

\* Operations added to the bucket leave the cursors inside it.
LEMMA LongerLog ==
  ASSUME NEW l \in Seq(Operation), NEW ops \in Seq(Operation)
  PROVE  l \o ops \in Seq(Operation) /\ 0..Len(l) \subseteq 0..Len(l \o ops)
BY ConcatProperties

LEMMA InitType == Init => TypeOK
<1> SUFFICES ASSUME Init PROVE TypeOK
  OBVIOUS
<1> USE KeysAreNumbers, KeyAssumption
<1>1. Machine \in Operation /\ OwnersRow \in Operation
  <2>1. 1 \in Keys
    BY DEF OwnerKey
  <2>2. 0 \in Keys /\ Owner \in User
    BY DEF User
  <2>3. Machine \in Operation
    BY <2>2 DEF Machine, Operation
  <2>4. OwnersRow \in Operation
    BY <2>1, <2>2 DEF OwnersRow, Put, Operation
  <2> QED  BY <2>3, <2>4
<1>2. log \in Seq(Operation)
  <2>1. log = <<Machine, OwnersRow>> \/ log = <<OwnersRow, Machine>>
    BY DEF Init
  <2> QED  BY <1>1, <2>1
<1>3. members \in [User -> [row : Keys, blob : Keys]]
  BY DEF Init, NoMember
<1>4. file \in [User -> Keys] /\ cache \in [User -> Keys \cup {Absent}]
  BY DEF Init
<1>5. getter \in [user : User, at : {"none", "read"}, found : Keys]
      /\ main \in [at : {"select", "forget", "save", "sweep"}, user : User,
                   next : {"select", "save", "sweep"}]
  BY DEF Init, NoGet, Select, User
<1>6. seeded \in BOOLEAN /\ known \in BOOLEAN /\ secret \in BOOLEAN /\ legacy \in BOOLEAN
      /\ swept \in BOOLEAN
  BY Zenon DEF Init
<1>7. disk \in [known : BOOLEAN, members : [User -> [row : Keys, blob : Keys]],
                buckets : 0..Len(log)]
  <2>1. disk = [known |-> seeded, members |-> members, buckets |-> 0] /\ 0 \in 0..Len(log)
    BY <1>2 DEF Init
  <2> QED  BY <2>1, <1>3, <1>6
<1>8. pos \in 0..Len(log) /\ buckets \in 0..Len(log)
  BY <1>2 DEF Init
<1>9. crashes \in 0..MaxCrashes /\ faults \in 0..MaxFaults
  BY DEF Init
<1>10. torn \subseteq User /\ kept \subseteq User /\ lost \subseteq User
  BY DEF Init
<1> QED
  BY <1>2, <1>3, <1>4, <1>5, <1>6, <1>7, <1>8, <1>9, <1>10 DEF TypeOK

LEMMA OpTypes ==
  ASSUME TypeOK, NEW i \in 1..Len(log)
  PROVE  /\ log[i].user \in User /\ log[i].row \in Keys /\ log[i].key \in Keys
         /\ log[i].kind \in {"put", "remove", "machine"}
<1>1. log[i] \in Operation
  BY DEF TypeOK
<1> QED  BY <1>1 DEF Operation

LEMMA CommitType ==
  ASSUME TypeOK, NEW ops \in Seq(Operation), Commit(ops)
  PROVE  TypeOK'
<1>1. log' \in Seq(Operation) /\ 0..Len(log) \subseteq 0..Len(log')
  BY LongerLog DEF TypeOK, Commit
<1>2. disk' \in [known : BOOLEAN, members : [User -> [row : Keys, blob : Keys]],
                 buckets : 0..Len(log')]
  <2>1. disk \in [known : BOOLEAN, members : [User -> [row : Keys, blob : Keys]],
                  buckets : 0..Len(log)]
    BY DEF TypeOK
  <2>2. disk' = disk
    BY DEF Commit
  <2> QED  BY <2>1, <2>2, <1>1
<1>3. pos' \in 0..Len(log') /\ buckets' \in 0..Len(log')
  BY <1>1 DEF Commit, TypeOK, mirror
<1> QED
  BY <1>1, <1>2, <1>3 DEF TypeOK, Commit, mirror, store, history

\* A removal leaves files and the main loop well formed.
LEMMA RevokeType ==
  ASSUME TypeOK, NEW u \in User, NEW next \in {"select", "save", "sweep"}, Revoke(u, next)
  PROVE  /\ file' \in [User -> Keys] /\ faults' \in 0..MaxFaults /\ kept' \subseteq User
         /\ main' \in [at : {"select", "forget", "save", "sweep"}, user : User,
                       next : {"select", "save", "sweep"}]
<1>1. /\ file \in [User -> Keys] /\ faults \in 0..MaxFaults /\ kept \subseteq User
      /\ Owner \in User /\ MaxFaults \in Nat /\ 0 \in Keys
  BY KeyAssumption, KeysAreNumbers DEF TypeOK, User
<1>2. CASE /\ file' = [file EXCEPT ![u] = 0]
           /\ main' = [at |-> "forget", user |-> u, next |-> next]
           /\ UNCHANGED <<faults, kept>>
  BY <1>1, <1>2
<1>3. CASE /\ faults < MaxFaults
           /\ faults' = faults + 1 /\ kept' = kept \cup {u}
           /\ main' = [Select EXCEPT !.at = next]
           /\ UNCHANGED file
  BY <1>1, <1>3 DEF Select
<1> QED  BY <1>2, <1>3 DEF Revoke

\* What every action but those of the bucket leaves of the types.
LEMMA StepType == TypeOK /\ [Next]_vars => TypeOK'
<1> SUFFICES ASSUME TypeOK, [Next]_vars PROVE TypeOK'
  OBVIOUS
<1> USE KeysAreNumbers, KeyAssumption
<1>1. ASSUME NEW u \in Invitee, Invite(u) PROVE TypeOK'
  <2>1. Fresh \in Keys
    <3>1. Len(log) \in Nat /\ Len(<<Put(u, Fresh, Fresh)>>) = 1 /\ MaxOps \in Nat
      BY DEF TypeOK
    <3>2. Len(log) + 1 <= MaxOps
      BY <1>1, <3>1 DEF Invite, Commit
    <3> QED  BY <3>1, <3>2 DEF Fresh, Keys
  <2>2. <<Put(u, Fresh, Fresh)>> \in Seq(Operation)
    <3>1. Put(u, Fresh, Fresh) \in Operation
      BY <2>1 DEF Put, Operation, User
    <3> QED  BY <3>1
  <2> QED  BY <1>1, <2>2, CommitType DEF Invite
<1>2. ASSUME NEW u \in Invitee, Update(u) PROVE TypeOK'
  <2>0. PICK i \in LastOf(u) : \E key \in {log[i].row, 0} :
          Commit(<<Remove(u, log[i].row), Put(u, log[i].row, key)>>)
    BY <1>2 DEF Update
  <2>1. PICK key \in {log[i].row, 0} :
          Commit(<<Remove(u, log[i].row), Put(u, log[i].row, key)>>)
    BY <2>0
  <2>2. log[i].row \in Keys /\ key \in Keys /\ u \in User
    BY OpTypes DEF LastOf, User
  <2>3. Remove(u, log[i].row) \in Operation /\ Put(u, log[i].row, key) \in Operation
    BY <2>2 DEF Remove, Put, Operation
  <2>4. <<Remove(u, log[i].row), Put(u, log[i].row, key)>> \in Seq(Operation)
    BY <2>3
  <2> QED  BY <2>1, <2>4, CommitType
<1>3. ASSUME NEW u \in Invitee, Expel(u) PROVE TypeOK'
  <2>1. PICK i \in LastOf(u) : Commit(<<Remove(u, log[i].row)>>)
    BY <1>3 DEF Expel
  <2>2. log[i].row \in Keys /\ u \in User
    BY OpTypes DEF LastOf, User
  <2>3. Remove(u, log[i].row) \in Operation
    BY <2>2 DEF Remove, Operation
  <2>4. <<Remove(u, log[i].row)>> \in Seq(Operation)
    BY <2>3
  <2> QED  BY <2>1, <2>4, CommitType
<1>c. pos < Len(log) =>
        /\ Op.user \in User /\ Op.row \in Keys /\ Op.key \in Keys
        /\ pos + 1 \in 0..Len(log)
  <2> HAVE pos < Len(log)
  <2>1. pos + 1 \in 1..Len(log)
    BY DEF TypeOK
  <2> QED  BY <2>1, OpTypes DEF Op
<1>d. \A at \in {"select", "save", "sweep"}, next \in {"select", "save", "sweep"} :
        /\ [Select EXCEPT !.at = at] \in [at : {"select", "forget", "save", "sweep"}, user : User,
                                          next : {"select", "save", "sweep"}]
        /\ [Select EXCEPT !.at = at, !.next = next]
             \in [at : {"select", "forget", "save", "sweep"}, user : User,
                  next : {"select", "save", "sweep"}]
  BY DEF Select, User
<1>e. pos < Len(log) => Upserted \in [User -> [row : Keys, blob : Keys]]
  BY <1>c DEF TypeOK, Upserted
<1>4. ASSUME NEW u \in User, GetRead(u) PROVE TypeOK'
  BY <1>4 DEF GetRead, bucket, mirror, history, TypeOK
<1>5. CASE GetCache
  <2>1. getter' \in [user : User, at : {"none", "read"}, found : Keys]
    BY <1>5 DEF GetCache, NoGet, User
  <2>2. file' \in [User -> Keys] /\ cache' \in [User -> Keys \cup {Absent}]
    <3>1. /\ getter.user \in User /\ getter.found \in Keys /\ OwnerKey \in Keys
          /\ file \in [User -> Keys] /\ cache \in [User -> Keys \cup {Absent}]
      BY DEF TypeOK
    <3>2. file' = [file EXCEPT ![getter.user] = OwnerKey] \/ file' = file
      BY <1>5 DEF GetCache
    <3>3. \/ cache' = [cache EXCEPT ![getter.user] = OwnerKey]
          \/ cache' = [cache EXCEPT ![getter.user] = getter.found]
      BY <1>5 DEF GetCache
    <3> QED  BY <3>1, <3>2, <3>3
  <2>3. legacy' \in BOOLEAN
    BY <1>5, Zenon DEF GetCache, TypeOK
  <2> QED  BY <1>5, <2>1, <2>2, <2>3 DEF GetCache, bucket, mirror, history, TypeOK
<1>6. CASE GetFails
  <2>1. getter' \in [user : User, at : {"none", "read"}, found : Keys]
    BY <1>6 DEF GetFails, NoGet, User
  <2>2. faults' \in 0..MaxFaults
    BY <1>6 DEF GetFails, TypeOK
  <2> QED  BY <1>6, <2>1, <2>2 DEF GetFails, bucket, mirror, history, TypeOK
<1>7. CASE Compacted
  <2>1. lost' \subseteq User /\ pos' \in 0..Len(log)
    BY <1>7, <1>c DEF Compacted, TypeOK
  <2> QED  BY <1>7, <2>1 DEF Compacted, bucket, mirror, store, TypeOK
<1>8. CASE TakeMachine
  <2>1. known' \in BOOLEAN /\ main' \in [at : {"select", "forget", "save", "sweep"}, user : User,
                                         next : {"select", "save", "sweep"}]
    BY <1>8, <1>d DEF TakeMachine, SaveIf
  <2>2. pos' \in 0..Len(log)
    BY <1>8, <1>c DEF TakeMachine, Take
  <2> QED  BY <1>8, <2>1, <2>2 DEF TakeMachine, bucket, store, history, TypeOK
<1>9. CASE PutPlain
  <2>1. main' \in [at : {"select", "forget", "save", "sweep"}, user : User,
                   next : {"select", "save", "sweep"}]
    BY <1>9, <1>d DEF PutPlain, SaveIf
  <2>2. pos' \in 0..Len(log) /\ members' \in [User -> [row : Keys, blob : Keys]]
    BY <1>9, <1>c, <1>e DEF PutPlain, Take
  <2> QED  BY <1>9, <2>1, <2>2 DEF PutPlain, bucket, store, history, TypeOK
<1>10. CASE PutCleared
  <2>0. Op.user \in User /\ SaveIf(members' # members).at \in {"select", "save", "sweep"}
    BY <1>10, <1>c DEF PutCleared, Take, SaveIf, Select
  <2>1. /\ file' \in [User -> Keys] /\ faults' \in 0..MaxFaults /\ kept' \subseteq User
        /\ main' \in [at : {"select", "forget", "save", "sweep"}, user : User,
                      next : {"select", "save", "sweep"}]
    BY <1>10, <2>0, RevokeType DEF PutCleared
  <2>2. pos' \in 0..Len(log) /\ members' \in [User -> [row : Keys, blob : Keys]]
    BY <1>10, <1>c, <1>e DEF PutCleared, Take
  <2> QED  BY <1>10, <2>1, <2>2 DEF PutCleared, bucket, TypeOK
<1>11. CASE PutKey
  <2>1. main' \in [at : {"select", "forget", "save", "sweep"}, user : User,
                   next : {"select", "save", "sweep"}]
    BY <1>11, <1>d DEF PutKey, SaveIf
  <2>2. /\ pos' \in 0..Len(log) /\ members' \in [User -> [row : Keys, blob : Keys]]
        /\ file' \in [User -> Keys]
    <3>1. pos < Len(log) /\ pos' = pos + 1
      BY <1>11 DEF PutKey, Opening, Take
    <3>2. file' = [file EXCEPT ![Op.user] = Op.key] /\ file \in [User -> Keys]
      BY <1>11 DEF PutKey, TypeOK
    <3>3. members' = [Upserted EXCEPT ![Op.user].blob = Op.key]
      BY <1>11 DEF PutKey
    <3>4. members' \in [User -> [row : Keys, blob : Keys]]
      BY <1>c, <1>e, <3>1, <3>3
    <3> QED  BY <1>c, <3>1, <3>2, <3>4
  <2> QED  BY <1>11, <2>1, <2>2 DEF PutKey, bucket, history, TypeOK
<1>12. CASE PutRefused
  <2>1. pos' \in 0..Len(log) /\ faults' \in 0..MaxFaults
    BY <1>12, <1>c DEF PutRefused, Opening, Take, TypeOK
  <2> QED  BY <1>12, <2>1 DEF PutRefused, bucket, mirror, store, history, TypeOK
<1>13. CASE TakeRemove
  <2> DEFINE gone == {u \in User : members[u].row = Op.row}
  <2>1. pos' \in 0..Len(log)
    BY <1>13, <1>c DEF TakeRemove, Take
  <2>2. CASE UNCHANGED <<members, file, main, faults, kept>>
    BY <1>13, <2>1, <2>2 DEF TakeRemove, bucket, TypeOK
  <2>3. CASE \E u \in User : members' = [members EXCEPT ![u] = NoMember] /\ Revoke(u, "save")
    <3>1. PICK u \in User : members' = [members EXCEPT ![u] = NoMember] /\ Revoke(u, "save")
      BY <2>3
    <3>2. members' \in [User -> [row : Keys, blob : Keys]]
      BY <3>1 DEF NoMember, TypeOK
    <3>3. /\ file' \in [User -> Keys] /\ faults' \in 0..MaxFaults /\ kept' \subseteq User
          /\ main' \in [at : {"select", "forget", "save", "sweep"}, user : User,
                        next : {"select", "save", "sweep"}]
      BY <3>1, RevokeType
    <3> QED  BY <1>13, <2>1, <3>2, <3>3 DEF TakeRemove, bucket, TypeOK
  <2>4. gone # {} => (CHOOSE u \in gone : TRUE) \in User
    OBVIOUS
  <2> QED  BY <1>13, <2>2, <2>3, <2>4 DEF TakeRemove
<1>14. CASE Forget
  <2>1. cache' \in [User -> Keys \cup {Absent}]
    BY <1>14 DEF Forget, TypeOK
  <2>2. main' \in [at : {"select", "forget", "save", "sweep"}, user : User,
                   next : {"select", "save", "sweep"}]
    BY <1>14, <1>d DEF Forget, TypeOK
  <2> QED  BY <1>14, <2>1, <2>2 DEF Forget, bucket, mirror, history, TypeOK
<1>15. CASE Checkpoint
  <2>1. main' \in [at : {"select", "forget", "save", "sweep"}, user : User,
                   next : {"select", "save", "sweep"}]
    BY <1>15, <1>d DEF Checkpoint
  <2>2. swept' \in BOOLEAN
    BY <1>15, Zenon DEF Checkpoint
  <2> QED  BY <1>15, <2>1, <2>2 DEF Checkpoint, bucket, store, history, TypeOK
<1>16. CASE Save
  <2>1. main' \in [at : {"select", "forget", "save", "sweep"}, user : User,
                   next : {"select", "save", "sweep"}]
    BY <1>16, <1>d DEF Save, TypeOK
  <2>2. faults' \in 0..MaxFaults
    <3>1. faults' = faults \/ (faults < MaxFaults /\ faults' = faults + 1)
      BY <1>16 DEF Save
    <3> QED  BY <3>1 DEF TypeOK
  <2>3. disk' \in [known : BOOLEAN, members : [User -> [row : Keys, blob : Keys]],
                   buckets : 0..Len(log)]
    <3>1. disk' = disk \/ disk' = [known |-> known, members |-> members, buckets |-> buckets]
      BY <1>16 DEF Save
    <3>2. /\ known \in BOOLEAN /\ members \in [User -> [row : Keys, blob : Keys]]
          /\ buckets \in 0..Len(log)
      BY DEF TypeOK
    <3>3. CASE disk' = disk
      BY <3>3 DEF TypeOK
    <3>4. CASE disk' = [known |-> known, members |-> members, buckets |-> buckets]
      BY <3>2, <3>4
    <3> QED  BY <3>1, <3>3, <3>4
  <2> QED  BY <1>16, <2>1, <2>2, <2>3 DEF Save, bucket, mirror, store, history, TypeOK
<1>17. CASE Sweep
  <2>1. CASE Orphans \ kept = {}
    <3>1. main' = Select /\ UNCHANGED <<file, faults, kept>>
      BY <1>17, <2>1 DEF Sweep
    <3> QED  BY <1>17, <3>1 DEF Sweep, Select, User, bucket, mirror, TypeOK
  <2>2. CASE Orphans \ kept # {}
    <3>1. PICK u \in Orphans : Revoke(u, "sweep")
      BY <1>17, <2>2 DEF Sweep
    <3>2. u \in User
      BY DEF Orphans
    <3> QED  BY <1>17, <3>1, <3>2, RevokeType DEF Sweep, bucket, mirror, TypeOK
  <2> QED  BY <2>1, <2>2
<1>18. CASE Crash
  <2>1. /\ known' \in BOOLEAN /\ secret' \in BOOLEAN /\ swept' \in BOOLEAN
    BY <1>18 DEF Crash, TypeOK
  <2>2. /\ members' \in [User -> [row : Keys, blob : Keys]] /\ buckets' \in 0..Len(log)
        /\ pos' \in 0..Len(log) /\ torn' \subseteq User
    BY <1>18 DEF Crash, TypeOK, NoMember
  <2>3. /\ cache' \in [User -> Keys \cup {Absent}] /\ crashes' \in 0..MaxCrashes
        /\ getter' \in [user : User, at : {"none", "read"}, found : Keys]
    BY <1>18 DEF Crash, TypeOK, NoGet, User
  <2>4. main' \in [at : {"select", "forget", "save", "sweep"}, user : User,
                   next : {"select", "save", "sweep"}]
    BY <1>18 DEF Crash, Select, User
  <2> QED  BY <1>18, <2>1, <2>2, <2>3, <2>4 DEF Crash, bucket, TypeOK
<1>19. CASE UNCHANGED vars
  BY <1>19 DEF vars, bucket, mirror, store, history, TypeOK
<1> QED
  BY <1>1, <1>2, <1>3, <1>4, <1>5, <1>6, <1>7, <1>8, <1>9, <1>10, <1>11, <1>12, <1>13, <1>14,
     <1>15, <1>16, <1>17, <1>18, <1>19 DEF Next

-----------------------------------------------------------------------------
(* The cache and the files                                                 *)

\* A key that is cached, or read for the cache, is on disk.
LEMMA InitCache == Init => CacheMirrorsDisk /\ GetterInv
BY DEF Init, CacheMirrorsDisk, GetterInv, NoGet, Absent

\* A removal that succeeds is followed by a forget of this user.
LEMMA RevokeCache ==
  ASSUME TypeOK, CacheMirrorsDisk, GetterInv, NEW u \in User, NEW next, Revoke(u, next),
         main.at # "forget", UNCHANGED <<cache, getter>>
  PROVE  CacheMirrorsDisk' /\ GetterInv'
<1>1. file \in [User -> Keys] /\ getter.user \in User
  BY DEF TypeOK
<1>2. CASE /\ file' = [file EXCEPT ![u] = 0]
           /\ main' = [at |-> "forget", user |-> u, next |-> next]
  BY <1>1, <1>2 DEF CacheMirrorsDisk, GetterInv, Forgetting
<1>3. CASE UNCHANGED file
  BY <1>1, <1>3 DEF CacheMirrorsDisk, GetterInv, Forgetting
<1> QED  BY <1>2, <1>3 DEF Revoke

LEMMA StepCache ==
  ASSUME TypeOK, CacheMirrorsDisk, GetterInv, [Next]_vars
  PROVE  CacheMirrorsDisk' /\ GetterInv'
<1> USE KeysAreNumbers, KeyAssumption
<1>a. ASSUME UNCHANGED <<file, cache, getter>>, main.at # "forget"
      PROVE  CacheMirrorsDisk' /\ GetterInv'
  BY <1>a DEF CacheMirrorsDisk, GetterInv, Forgetting
<1>b. ASSUME UNCHANGED <<file, cache, getter, main>>
      PROVE  CacheMirrorsDisk' /\ GetterInv'
  BY <1>b DEF CacheMirrorsDisk, GetterInv, Forgetting
<1>1. ASSUME NEW ops, Commit(ops) PROVE CacheMirrorsDisk' /\ GetterInv'
  BY <1>1, <1>b DEF Commit, store
<1>2. ASSUME NEW u \in Invitee, Invite(u) \/ Update(u) \/ Expel(u)
      PROVE  CacheMirrorsDisk' /\ GetterInv'
  BY <1>1, <1>2 DEF Invite, Update, Expel
<1>3. ASSUME NEW u \in User, GetRead(u) PROVE CacheMirrorsDisk' /\ GetterInv'
  BY <1>3 DEF GetRead, CacheMirrorsDisk, GetterInv, Forgetting
<1>4. CASE GetCache
  <2>1. /\ getter.user \in User /\ file \in [User -> Keys] /\ getter.found \in Nat
        /\ cache \in [User -> Keys \cup {Absent}]
    BY DEF TypeOK
  <2>2. GetterInv'
    BY <1>4 DEF GetCache, GetterInv, NoGet
  <2>3. CASE getter.found = 0 /\ legacy
    <3>1. /\ file' = [file EXCEPT ![getter.user] = OwnerKey]
          /\ cache' = [cache EXCEPT ![getter.user] = OwnerKey] /\ main' = main
      BY <1>4, <2>3 DEF GetCache
    <3> QED  BY <2>1, <2>2, <3>1 DEF CacheMirrorsDisk
  <2>4. CASE ~(getter.found = 0 /\ legacy)
    <3>1. /\ file' = file /\ getter.at = "read"
          /\ cache' = [cache EXCEPT ![getter.user] = getter.found] /\ main' = main
      BY <1>4, <2>4 DEF GetCache
    <3> QED  BY <2>1, <2>2, <3>1 DEF CacheMirrorsDisk, GetterInv, Forgetting
  <2> QED  BY <2>3, <2>4
<1>5. CASE GetFails
  BY <1>5 DEF GetFails, CacheMirrorsDisk, GetterInv, NoGet
<1>6. CASE Compacted \/ TakeMachine \/ PutPlain \/ PutRefused \/ Checkpoint
  BY <1>6, <1>a DEF Compacted, TakeMachine, PutPlain, PutRefused, Opening, Take, Checkpoint, store
<1>c. pos < Len(log) => Op.user \in User
  <2> HAVE pos < Len(log)
  <2>1. pos + 1 \in 1..Len(log)
    BY DEF TypeOK
  <2> QED  BY <2>1, OpTypes DEF Op
<1>7. CASE PutCleared
  <2>1. /\ main.at = "select" /\ Op.user \in User /\ UNCHANGED <<cache, getter>>
        /\ Revoke(Op.user, SaveIf(members' # members).at)
    BY <1>7, <1>c DEF PutCleared, Take
  <2> QED  BY <2>1, RevokeCache
<1>8. CASE PutKey
  <2>1. /\ main.at = "select" /\ Op.user \in User /\ UNCHANGED <<cache, getter>>
        /\ file[Op.user] \in {0, Op.key} /\ file' = [file EXCEPT ![Op.user] = Op.key]
    BY <1>8, <1>c DEF PutKey, Opening, Take
  <2>2. file \in [User -> Keys] /\ getter.user \in User
    BY DEF TypeOK
  <2> QED  BY <2>1, <2>2 DEF CacheMirrorsDisk, GetterInv, Forgetting
<1>9. CASE TakeRemove
  <2>1. main.at = "select" /\ UNCHANGED <<cache, getter>>
    BY <1>9 DEF TakeRemove, Take
  <2>2. \/ UNCHANGED file
        \/ \E u \in User : Revoke(u, "save")
    <3> DEFINE gone == {u \in User : members[u].row = Op.row}
    <3>1. gone # {} => (CHOOSE u \in gone : TRUE) \in User
      OBVIOUS
    <3> QED  BY <1>9, <3>1 DEF TakeRemove
  <2>3. CASE UNCHANGED file
    BY <2>1, <2>3, <1>a
  <2> QED  BY <2>1, <2>2, <2>3, RevokeCache
<1>10. CASE Forget
  <2>1. /\ getter.at = "none" /\ UNCHANGED <<file, getter>> /\ cache \in [User -> Keys \cup {Absent}]
        /\ main.user \in User /\ cache' = [cache EXCEPT ![main.user] = Absent]
    BY <1>10 DEF Forget, TypeOK
  <2> QED  BY <2>1 DEF CacheMirrorsDisk, GetterInv, Absent
<1>11. CASE Save
  BY <1>11, <1>a DEF Save, store
<1>12. CASE Sweep
  <2>1. main.at # "forget" /\ UNCHANGED <<cache, getter>>
    BY <1>12 DEF Sweep
  <2>2. CASE UNCHANGED file
    BY <2>1, <2>2, <1>a
  <2>3. UNCHANGED file \/ \E u \in User : Revoke(u, "sweep")
    BY <1>12 DEF Sweep, Orphans
  <2> QED  BY <2>1, <2>2, <2>3, RevokeCache
<1>13. CASE Crash
  BY <1>13 DEF Crash, CacheMirrorsDisk, GetterInv, NoGet, Absent
<1>14. CASE UNCHANGED vars
  BY <1>14, <1>b DEF vars, store
<1> QED
  BY <1>2, <1>3, <1>4, <1>5, <1>6, <1>7, <1>8, <1>9, <1>10, <1>11, <1>12, <1>13, <1>14 DEF Next

-----------------------------------------------------------------------------
(* Opened blobs                                                            *)

LEMMA InitBlob == Init => BlobInv
<1> SUFFICES ASSUME Init PROVE BlobInv
  OBVIOUS
<1>1. members = [u \in User |-> NoMember] /\ disk.members = members
  BY DEF Init
<1>2. \A u \in User : members[u].blob = 0 /\ disk.members[u].blob = 0
  BY <1>1 DEF NoMember
<1> QED  BY <1>2 DEF BlobInv, User

LEMMA InitRow == Init => RowInv
<1> SUFFICES ASSUME Init PROVE RowInv
  OBVIOUS
<1>1. log = <<Machine, OwnersRow>> \/ log = <<OwnersRow, Machine>>
  BY DEF Init
<1>2. Machine.kind = "machine" /\ OwnersRow.row = 1
  BY DEF Machine, OwnersRow, Put
<1> QED  BY <1>1, <1>2 DEF RowInv

LEMMA StepRow ==
  ASSUME TypeOK, RowInv, [Next]_vars
  PROVE  RowInv'
<1>1. ASSUME NEW ops \in Seq(Operation), Commit(ops),
             \A i \in 1..Len(ops) : ops[i].kind = "put" => ops[i].row # 0
      PROVE  RowInv'
  <2>1. log \in Seq(Operation) /\ log' = log \o ops
    BY <1>1 DEF Commit, TypeOK
  <2>2. /\ Len(log') = Len(log) + Len(ops) /\ Len(log) \in Nat /\ Len(ops) \in Nat
        /\ \A i \in 1..Len(log') :
             log'[i] = IF i <= Len(log) THEN log[i] ELSE ops[i - Len(log)]
    BY <2>1, ConcatProperties
  <2> SUFFICES ASSUME NEW i \in 1..Len(log'), log'[i].kind = "put" PROVE log'[i].row # 0
    BY DEF RowInv
  <2>3. CASE i <= Len(log)
    BY <2>2, <2>3 DEF RowInv
  <2>4. CASE ~(i <= Len(log))
    <3>1. i - Len(log) \in 1..Len(ops)
      BY <2>2, <2>4
    <3> QED  BY <1>1, <2>2, <2>4, <3>1
  <2> QED  BY <2>3, <2>4
<1>2. ASSUME NEW u \in Invitee, Invite(u) PROVE RowInv'
  <2> DEFINE op == Put(u, Fresh, Fresh)
  <2>1. Fresh \in Keys /\ Fresh # 0
    <3>1. Len(log) \in Nat /\ Len(<<op>>) = 1 /\ MaxOps \in Nat
      BY KeyAssumption DEF TypeOK
    <3>2. Len(log) + 1 <= MaxOps
      BY <1>2, <3>1 DEF Invite, Commit
    <3> QED  BY <3>1, <3>2 DEF Fresh, Keys
  <2>2. op \in Operation /\ op.row # 0
    BY <2>1 DEF Put, Operation, User
  <2>3. /\ <<op>> \in Seq(Operation) /\ Commit(<<op>>)
        /\ \A i \in 1..Len(<<op>>) : <<op>>[i].kind = "put" => <<op>>[i].row # 0
    BY <1>2, <2>2 DEF Invite
  <2> HIDE DEF op
  <2> QED  BY <1>1, <2>3
<1>3. ASSUME NEW u \in Invitee, Update(u) PROVE RowInv'
  <2>1. PICK i \in LastOf(u) : /\ log[i].kind = "put"
                              /\ \E key \in {log[i].row, 0} :
                                   Commit(<<Remove(u, log[i].row), Put(u, log[i].row, key)>>)
    BY <1>3 DEF Update
  <2>2. PICK key \in {log[i].row, 0} :
          Commit(<<Remove(u, log[i].row), Put(u, log[i].row, key)>>)
    BY <2>1
  <2> DEFINE ops == <<Remove(u, log[i].row), Put(u, log[i].row, key)>>
  <2>3. log[i].row \in Keys /\ log[i].row # 0 /\ key \in Keys /\ u \in User
    BY <2>1, OpTypes, KeysAreNumbers DEF LastOf, User, RowInv
  <2>4. ops[1] \in Operation /\ ops[2] \in Operation
    BY <2>3, KeysAreNumbers DEF Remove, Put, Operation
  <2>5. ops \in Seq(Operation) /\ Len(ops) = 2
    BY <2>4
  <2>6. ops[1].kind = "remove" /\ ops[2].row # 0
    BY <2>3 DEF Remove, Put
  <2>7. \A j \in 1..Len(ops) : ops[j].kind = "put" => ops[j].row # 0
    BY <2>5, <2>6
  <2> HIDE DEF ops
  <2> QED  BY <1>1, <2>2, <2>5, <2>7 DEF ops
<1>4. ASSUME NEW u \in Invitee, Expel(u) PROVE RowInv'
  <2>1. PICK i \in LastOf(u) : Commit(<<Remove(u, log[i].row)>>)
    BY <1>4 DEF Expel
  <2> DEFINE op == Remove(u, log[i].row)
  <2>2. log[i].row \in Keys /\ u \in User
    BY OpTypes DEF LastOf, User
  <2>3. op \in Operation /\ op.kind = "remove"
    BY <2>2, KeysAreNumbers DEF Remove, Operation
  <2>4. /\ <<op>> \in Seq(Operation) /\ Commit(<<op>>)
        /\ \A j \in 1..Len(<<op>>) : <<op>>[j].kind = "put" => <<op>>[j].row # 0
    BY <2>1, <2>3
  <2> HIDE DEF op
  <2> QED  BY <1>1, <2>4
<1>5. ASSUME UNCHANGED log PROVE RowInv'
  BY <1>5 DEF RowInv
<1> QED
  BY <1>2, <1>3, <1>4, <1>5
  DEF Next, GetRead, GetCache, GetFails, Compacted, TakeMachine, PutPlain, PutCleared, PutKey,
      PutRefused, TakeRemove, Forget, Checkpoint, Save, Sweep, Crash, bucket, vars

\* A key goes only from who has no opened blob any more.
LEMMA RevokeBlob ==
  ASSUME TypeOK, BlobInv, NEW u \in User, NEW next, Revoke(u, next),
         members' \in [User -> [row : Keys, blob : Keys]],
         \A v \in User : members'[v].row = 0 => members'[v].blob = 0,
         members'[u].blob = 0, \A v \in User \ {u} : members'[v].blob = members[v].blob,
         UNCHANGED <<disk, torn>>
  PROVE  BlobInv'
<1>1. file \in [User -> Keys] /\ Invitee \subseteq User
  BY DEF TypeOK, User
<1>2. file' = [file EXCEPT ![u] = 0] \/ file' = file
  BY DEF Revoke
<1>3. \A v \in User \ {u} : file'[v] = file[v]
  BY <1>1, <1>2
<1> QED  BY <1>1, <1>3 DEF BlobInv

LEMMA StepBlob ==
  ASSUME TypeOK, RowInv, BlobInv, [Next]_vars
  PROVE  BlobInv'
<1> USE KeysAreNumbers, KeyAssumption
<1>t. TypeOK'
  BY StepType
<1>a. ASSUME UNCHANGED <<members, disk, file, torn>> PROVE BlobInv'
  BY <1>a DEF BlobInv
<1>1. ASSUME NEW ops, Commit(ops) PROVE BlobInv'
  BY <1>1, <1>a DEF Commit, store, mirror, history
<1>2. ASSUME NEW u \in Invitee, Invite(u) \/ Update(u) \/ Expel(u) PROVE BlobInv'
  BY <1>1, <1>2 DEF Invite, Update, Expel
<1>3. ASSUME NEW u \in User, GetRead(u) PROVE BlobInv'
  BY <1>3, <1>a DEF GetRead, mirror, history
<1>4. CASE GetCache
  <2>1. /\ UNCHANGED <<members, disk, torn>> /\ getter.user \in User /\ file \in [User -> Keys]
        /\ file' = [file EXCEPT ![getter.user] = OwnerKey] \/ file' = file
    BY <1>4 DEF GetCache, mirror, history, TypeOK
  <2>2. \A u \in User : file'[u] \in {file[u], OwnerKey}
    BY <2>1
  <2> QED  BY <2>1, <2>2 DEF BlobInv, User
<1>5. CASE GetFails \/ Compacted \/ TakeMachine \/ PutRefused \/ Forget \/ Checkpoint
  BY <1>5, <1>a DEF GetFails, Compacted, TakeMachine, PutRefused, Forget, Checkpoint, mirror,
                    store, history
<1>c. pos < Len(log) =>
        /\ Op.user \in User /\ (Op.kind = "put" => Op.row # 0)
        /\ members \in [User -> [row : Keys, blob : Keys]]
  <2> HAVE pos < Len(log)
  <2>1. pos + 1 \in 1..Len(log)
    BY DEF TypeOK
  <2> QED  BY <2>1, OpTypes DEF Op, RowInv, TypeOK
\* A row that is put stays with its blob.
<1>d. ASSUME pos < Len(log), Op.kind = "put"
      PROVE  /\ \A u \in User : Upserted[u].row = 0 => Upserted[u].blob = 0
             /\ \A u \in User : Upserted[u].blob = members[u].blob
             /\ Upserted \in [User -> [row : Keys, blob : Keys]]
  <2>1. Op.row \in Keys
    <3>1. pos + 1 \in 1..Len(log)
      BY <1>d DEF TypeOK
    <3> QED  BY <3>1, OpTypes DEF Op
  <2> QED  BY <1>c, <1>d, <2>1 DEF Upserted, BlobInv
<1>6. CASE PutPlain
  <2>1. /\ pos < Len(log) /\ Op.kind = "put" /\ members' = Upserted
        /\ UNCHANGED <<disk, file, torn>>
    BY <1>6 DEF PutPlain, Take, store, history
  <2> QED  BY <1>d, <2>1 DEF BlobInv, User
<1>7. CASE PutCleared
  <2>1. /\ pos < Len(log) /\ Op.kind = "put" /\ members' = [Upserted EXCEPT ![Op.user].blob = 0]
        /\ UNCHANGED <<disk, torn>> /\ Revoke(Op.user, SaveIf(members' # members).at)
    BY <1>7 DEF PutCleared, Take
  <2>2. /\ \A u \in User : members'[u].row = 0 => members'[u].blob = 0
        /\ members'[Op.user].blob = 0
        /\ \A u \in User \ {Op.user} : members'[u].blob = members[u].blob
        /\ members' \in [User -> [row : Keys, blob : Keys]] /\ Op.user \in User
    BY <1>c, <1>d, <2>1
  <2> QED  BY <2>1, <2>2, RevokeBlob
<1>8. CASE PutKey
  <2>1. /\ pos < Len(log) /\ Op.kind = "put" /\ members' = [Upserted EXCEPT ![Op.user].blob = Op.key]
        /\ file' = [file EXCEPT ![Op.user] = Op.key] /\ UNCHANGED <<disk, torn>>
    BY <1>8 DEF PutKey, Opening, Take, history
  <2>2. /\ members'[Op.user].blob = Op.key /\ members'[Op.user].row = Op.row
        /\ \A u \in User \ {Op.user} : members'[u] = Upserted[u]
    BY <1>c, <1>d, <2>1 DEF Upserted
  <2>3. file'[Op.user] = Op.key /\ \A u \in User \ {Op.user} : file'[u] = file[u]
    BY <1>c, <2>1 DEF TypeOK
  <2> QED  BY <1>c, <1>d, <2>1, <2>2, <2>3 DEF BlobInv, User
<1>9. CASE TakeRemove
  <2> DEFINE gone == {u \in User : members[u].row = Op.row}
  <2>1. gone # {} => (CHOOSE u \in gone : TRUE) \in User
    OBVIOUS
  <2>2. /\ UNCHANGED <<disk, torn>>
        /\ \/ UNCHANGED <<members, file>>
           \/ \E u \in User : members' = [members EXCEPT ![u] = NoMember] /\ Revoke(u, "save")
    BY <1>9, <2>1 DEF TakeRemove
  <2>3. CASE UNCHANGED <<members, file>>
    BY <2>2, <2>3, <1>a
  <2>4. ASSUME NEW u \in User, members' = [members EXCEPT ![u] = NoMember], Revoke(u, "save")
        PROVE  BlobInv'
    <3>1. members \in [User -> [row : Keys, blob : Keys]]
      BY DEF TypeOK
    <3>2. /\ members'[u] = NoMember /\ \A v \in User \ {u} : members'[v] = members[v]
          /\ members' \in [User -> [row : Keys, blob : Keys]]
      BY <2>4, <3>1 DEF NoMember
    <3>3. /\ members'[u].blob = 0 /\ \A v \in User \ {u} : members'[v].blob = members[v].blob
          /\ \A v \in User : members'[v].row = 0 => members'[v].blob = 0
      BY <3>2 DEF NoMember, BlobInv
    <3> QED  BY <2>2, <2>4, <3>2, <3>3, RevokeBlob
  <2> QED  BY <2>2, <2>3, <2>4
<1>10. CASE Save
  <2>1. UNCHANGED <<members, file, torn>> /\ (disk' = disk \/ disk'.members = members)
    BY <1>10 DEF Save, mirror, store, history
  <2> QED  BY <2>1 DEF BlobInv
<1>11. CASE Sweep
  <2>1. UNCHANGED <<members, disk, torn>>
    BY <1>11 DEF Sweep, mirror
  <2>2. UNCHANGED file \/ \E u \in Orphans : Revoke(u, "sweep")
    BY <1>11 DEF Sweep
  <2>3. ASSUME NEW u \in Orphans, Revoke(u, "sweep") PROVE BlobInv'
    <3>1. u \in User /\ members[u].blob = 0 /\ members \in [User -> [row : Keys, blob : Keys]]
      BY DEF Orphans, BlobInv, TypeOK
    <3> QED  BY <2>1, <2>3, <3>1, RevokeBlob DEF BlobInv
  <2> QED  BY <2>1, <2>2, <2>3, <1>a
<1>12. CASE Crash
  <2>1. CASE /\ torn' = torn \cup {u \in User : disk.members[u].blob \notin {0, file[u]}}
             /\ members' = disk.members
    BY <1>12, <2>1 DEF Crash, BlobInv, User
  <2>2. CASE members' = [u \in User |-> NoMember]
    <3>1. \A u \in User : members'[u].blob = 0
      BY <2>2 DEF NoMember
    <3> QED  BY <1>12, <3>1 DEF Crash, BlobInv, User
  <2> QED  BY <1>12, <2>1, <2>2 DEF Crash
<1>13. CASE UNCHANGED vars
  BY <1>13, <1>a DEF vars, mirror, store, history
<1> QED
  BY <1>2, <1>3, <1>4, <1>5, <1>6, <1>7, <1>8, <1>9, <1>10, <1>11, <1>12, <1>13 DEF Next

-----------------------------------------------------------------------------
(* Theorems                                                                *)

LEMMA Inductive == Spec => []IInv
<1>1. Init => IInv
  BY InitType, InitCache, InitRow, InitBlob DEF IInv
<1>2. IInv /\ [Next]_vars => IInv'
  BY StepType, StepCache, StepRow, StepBlob DEF IInv
<1> QED  BY <1>1, <1>2, PTL DEF Spec

\* Every variable keeps its type: the cursors stay inside the bucket.
THEOREM TypeCorrect == Spec => []TypeOK
<1>1. IInv => TypeOK
  BY DEF IInv
<1> QED  BY <1>1, Inductive, PTL

\* A key in the cache (KeyStore) is the one in its file, for any members,
\* lookups, rows, failing files and crashes, except between the removal of the
\* file and the forget that follows.
THEOREM CacheAgrees == Spec => []CacheMirrorsDisk
<1>1. IInv => CacheMirrorsDisk
  BY DEF IInv
<1> QED  BY <1>1, Inductive, PTL

\* A member whose sealed blob counts as opened (persist_user_key) has the file,
\* so that skipping the blob when it comes again loses nothing.
THEOREM OpenedIsStored == Spec => []OpenedBlobHasFile
<1>1. IInv => OpenedBlobHasFile
  BY DEF IInv, BlobInv, OpenedBlobHasFile
<1> QED  BY <1>1, Inductive, PTL

-----------------------------------------------------------------------------
(***************************************************************************)
(* GoneMeansNoKey of KeyFiles for any members and any number of            *)
(* operations, crashes and failing files: whoever is no member of the      *)
(* bucket has no key on the machine once a checkpoint has been applied.    *)
(*                                                                         *)
(* The argument follows a member's row.  A row the mirror records, or      *)
(* state.json does, is either the one the bucket has now, as far as it was *)
(* handled, or one that is still to come: so a row is never recorded whose *)
(* removal has been handled, and at the end of the bucket only its members *)
(* have one.  After the sweep whoever has no row has no file.              *)
(***************************************************************************)

IsPut(l, i, u, r) == l[i].kind = "put" /\ l[i].user = u /\ l[i].row = r

\* No operation of this user in an interval.
Silent(l, u, i, j) == \A k \in i..j : l[k].user # u

\* What the bucket's server keeps to: a row is one user's, and its number is
\* below the next one; an invitee's row is removed before one is put again.
GoodLog(l) ==
  /\ \A i \in 1..Len(l) : l[i].row < Len(l) + 2
  /\ \A i, j \in 1..Len(l) :
       l[i].kind = "put" /\ l[j].kind = "put" /\ l[i].row = l[j].row => l[i].user = l[j].user
  /\ \A i \in 1..Len(l) : l[i].user \in Invitee => l[i].kind # "machine"
  /\ \A i, j \in 1..Len(l) :
       /\ i < j /\ l[i].user = l[j].user /\ l[i].user \in Invitee
       /\ l[i].kind = "put" /\ Silent(l, l[i].user, i + 1, j - 1)
       => l[j].kind = "remove" /\ l[j].row = l[i].row

\* A row that is recorded for a user was put for this user.
Recorded(l, m) ==
  \A u \in User : m[u].row # 0 => \E i \in 1..Len(l) : IsPut(l, i, u, m[u].row)

\* With p operations handled, this row is the user's, or it is still to come.
Claim(l, u, r, p) ==
  \/ \E i \in 1..p : IsPut(l, i, u, r) /\ Silent(l, u, i + 1, p)
  \/ \E i \in p + 1..Len(l) : IsPut(l, i, u, r)

LogInv == GoodLog(log)

RowsInv ==
  /\ buckets <= pos
  /\ Recorded(log, members) /\ Recorded(log, disk.members)
  /\ \A u \in Invitee \ lost :
       /\ members[u].row # 0 => Claim(log, u, members[u].row, pos)
       /\ disk.members[u].row # 0 => Claim(log, u, disk.members[u].row, disk.buckets)

\* The sweep is over.
Clean == swept /\ main.at # "sweep" /\ main.next # "sweep"

FileInv ==
  /\ main.at \in {"select", "sweep"} => main.next = "select"
  /\ Clean => \A u \in Invitee \ kept : members[u].row = 0 => file[u] \in {0, OwnerKey}

GInv == IInv /\ LogInv /\ RowsInv /\ FileInv

-----------------------------------------------------------------------------
(* The bucket                                                              *)

LEMMA KeysAreIntegers == \A k \in Keys : k \in Int
BY KeyAssumption DEF Keys

LEMMA InitLog == Init => LogInv
<1> SUFFICES ASSUME Init PROVE LogInv
  OBVIOUS
<1>1. /\ Machine.kind = "machine" /\ Machine.user = Owner /\ Machine.row = 0
      /\ OwnersRow.kind = "put" /\ OwnersRow.user = Owner /\ OwnersRow.row = 1
  BY DEF Machine, OwnersRow, Put
<1>2. Owner \notin Invitee
  BY KeyAssumption
<1>3. log = <<Machine, OwnersRow>> \/ log = <<OwnersRow, Machine>>
  BY DEF Init
<1>4. Len(log) = 2 /\ \A i \in 1..2 : log[i] \in {Machine, OwnersRow}
  BY <1>3
<1>5. \A i \in 1..2 : log[i].user = Owner /\ log[i].row < 4
  BY <1>1, <1>4
<1> QED  BY <1>1, <1>2, <1>4, <1>5 DEF LogInv, GoodLog

\* One more operation of an invitee: a row of its own, or the removal of the
\* row it has.
LEMMA GoodAppend ==
  ASSUME NEW l \in Seq(Operation), GoodLog(l), NEW op \in Operation,
         op.user \in Invitee, op.kind # "machine", op.row < Len(l) + 3,
         op.kind = "put" => \A i \in 1..Len(l) :
           l[i].kind = "put" /\ l[i].row = op.row => l[i].user = op.user,
         \A i \in 1..Len(l) :
           l[i].user = op.user /\ l[i].kind = "put" /\ Silent(l, op.user, i + 1, Len(l))
             => op.kind = "remove" /\ op.row = l[i].row
  PROVE  GoodLog(Append(l, op))
<1> DEFINE m == Append(l, op)
           n == Len(l)
<1>1. /\ Len(m) = n + 1 /\ m[n + 1] = op /\ n \in Nat
      /\ \A i \in 1..n : m[i] = l[i]
  OBVIOUS
<1> HIDE DEF m
<1>2. \A i \in 1..n + 1 : i \in 1..n \/ i = n + 1
  BY <1>1
<1>3. \A i \in 1..Len(m) : m[i].row < Len(m) + 2
  <2> SUFFICES ASSUME NEW i \in 1..n + 1 PROVE m[i].row < n + 3
    BY <1>1
  <2>1. CASE i \in 1..n
    <3>1. l[i].row < n + 2
      BY <2>1 DEF GoodLog
    <3>2. l[i].row \in Int
      <4>1. l[i] \in Operation
        BY <2>1
      <4> QED  BY <4>1, KeysAreIntegers DEF Operation
    <3> QED  BY <1>1, <2>1, <3>1, <3>2
  <2> QED  BY <1>1, <1>2, <2>1
<1>4. \A i, j \in 1..Len(m) :
        m[i].kind = "put" /\ m[j].kind = "put" /\ m[i].row = m[j].row => m[i].user = m[j].user
  BY <1>1, <1>2 DEF GoodLog
<1>5. \A i \in 1..Len(m) : m[i].user \in Invitee => m[i].kind # "machine"
  BY <1>1, <1>2 DEF GoodLog
<1>6. ASSUME NEW i \in 1..Len(m), NEW j \in 1..Len(m), i < j, m[i].user = m[j].user,
             m[i].user \in Invitee, m[i].kind = "put", Silent(m, m[i].user, i + 1, j - 1)
      PROVE  m[j].kind = "remove" /\ m[j].row = m[i].row
  <2>1. i \in 1..n /\ m[i] = l[i]
    BY <1>1, <1>6
  <2>2. Silent(l, l[i].user, i + 1, j - 1)
    BY <1>1, <1>6, <2>1 DEF Silent
  <2>3. CASE j \in 1..n
    BY <1>1, <1>6, <2>1, <2>2, <2>3 DEF GoodLog
  <2>4. CASE j = n + 1
    <3>1. Silent(l, op.user, i + 1, n) /\ l[i].user = op.user
      BY <1>1, <1>6, <2>1, <2>2, <2>4
    <3> QED  BY <1>1, <1>6, <2>1, <2>4, <3>1
  <2> QED  BY <1>1, <1>2, <2>3, <2>4
<1> QED  BY <1>3, <1>4, <1>5, <1>6 DEF GoodLog, m

\* LastOf(u) is the last operation of an invitee.
LEMMA LastIsLast ==
  ASSUME TypeOK, LogInv, NEW u \in Invitee, NEW i \in 1..Len(log), log[i].user = u,
         Silent(log, u, i + 1, Len(log))
  PROVE  LastOf(u) = {i}
<1>1. Len(log) \in Nat
  BY DEF TypeOK
<1>2. i \in LastOf(u)
  BY DEF LastOf, Silent, LogInv, GoodLog
<1>3. ASSUME NEW j \in LastOf(u) PROVE j = i
  <2>1. j \in 1..Len(log) /\ log[j].user = u
    BY DEF LastOf
  <2>2. ~(j > i)
    BY <1>1, <2>1 DEF Silent
  <2>3. ~(j < i)
    <3> SUFFICES ASSUME j < i PROVE FALSE
      OBVIOUS
    <3>1. i \in j + 1..Len(log)
      BY <2>1
    <3>2. log[i].kind = "machine"
      BY <3>1 DEF LastOf
    <3> QED  BY <3>2 DEF LogInv, GoodLog
  <2> QED  BY <2>1, <2>2, <2>3
<1> QED  BY <1>2, <1>3

LEMMA LastIsSilent ==
  ASSUME TypeOK, LogInv, NEW u \in Invitee, NEW i \in LastOf(u)
  PROVE  i \in 1..Len(log) /\ log[i].user = u /\ Silent(log, u, i + 1, Len(log))
<1>1. i \in 1..Len(log) /\ log[i].user = u
  BY DEF LastOf
<1>2. ASSUME NEW j \in i + 1..Len(log) PROVE log[j].user # u
  <2>1. j \in 1..Len(log)
    BY <1>1, <1>2 DEF TypeOK
  <2>2. log[j].user = u => log[j].kind = "machine"
    BY DEF LastOf
  <2> QED  BY <2>1, <2>2 DEF LogInv, GoodLog
<1> QED  BY <1>1, <1>2 DEF Silent

LEMMA RowBound ==
  ASSUME TypeOK, LogInv, NEW i \in 1..Len(log)
  PROVE  log[i].row \in Keys /\ log[i].row \in Int /\ log[i].row < Len(log) + 2
<1>1. log[i].row < Len(log) + 2
  BY DEF LogInv, GoodLog
<1>2. log[i].row \in Keys
  BY OpTypes
<1> QED  BY <1>1, <1>2, KeysAreIntegers

LEMMA StepLog ==
  ASSUME TypeOK, RowInv, LogInv, [Next]_vars
  PROVE  LogInv'
<1>1. log \in Seq(Operation) /\ Len(log) \in Nat
  BY DEF TypeOK
<1>2. ASSUME NEW u \in Invitee, Invite(u) PROVE LogInv'
  <2> DEFINE op == Put(u, Fresh, Fresh)
  <2>1. Fresh \in Keys /\ log' = log \o <<op>> /\ Fresh = Len(log) + 2
    <3>1. Len(<<op>>) = 1 /\ MaxOps \in Nat
      BY KeyAssumption
    <3>2. Len(log) + 1 <= MaxOps /\ log' = log \o <<op>>
      BY <1>2, <3>1 DEF Invite, Commit
    <3> QED  BY <1>1, <3>1, <3>2 DEF Fresh, Keys
  <2>2. op \in Operation /\ op.row = Fresh /\ op.user = u /\ op.kind = "put"
    BY <2>1 DEF Put, Operation, User
  <2> HIDE DEF op
  <2>3. log' = Append(log, op)
    BY <1>1, <2>1, <2>2
  <2>4. \A i \in 1..Len(log) : log[i].row # op.row
    <3> SUFFICES ASSUME NEW i \in 1..Len(log) PROVE log[i].row # op.row
      OBVIOUS
    <3>1. log[i].row < Len(log) + 2 /\ log[i].row \in Int
      BY RowBound
    <3> QED  BY <1>1, <2>1, <2>2, <3>1
  <2>5. ASSUME NEW i \in 1..Len(log), log[i].user = u, log[i].kind = "put",
               Silent(log, u, i + 1, Len(log))
        PROVE  FALSE
    <3>1. LastOf(u) = {i}
      BY <2>5, LastIsLast
    <3> QED  BY <1>2, <2>5, <3>1 DEF Invite, Active
  <2>6. GoodLog(Append(log, op))
    BY <1>1, <2>1, <2>2, <2>4, <2>5, GoodAppend DEF LogInv
  <2> QED  BY <2>3, <2>6 DEF LogInv
<1>3. ASSUME NEW u \in Invitee, NEW i \in LastOf(u), log[i].kind = "put"
      PROVE  /\ Remove(u, log[i].row) \in Operation
             /\ GoodLog(Append(log, Remove(u, log[i].row)))
  <2> DEFINE op == Remove(u, log[i].row)
  <2>1. i \in 1..Len(log) /\ log[i].user = u /\ Silent(log, u, i + 1, Len(log))
    BY <1>3, LastIsSilent
  <2>2. log[i].row \in Keys /\ log[i].row < Len(log) + 2 /\ log[i].row \in Int
    BY <2>1, RowBound
  <2>3. op \in Operation /\ op.kind = "remove" /\ op.user = u /\ op.row = log[i].row
    BY <2>2, KeysAreNumbers DEF Remove, Operation, User
  <2> HIDE DEF op
  <2>4. \A j \in 1..Len(log) : log[j].user = u /\ Silent(log, u, j + 1, Len(log)) => j = i
    <3> SUFFICES ASSUME NEW j \in 1..Len(log), log[j].user = u, Silent(log, u, j + 1, Len(log))
                 PROVE  j = i
      OBVIOUS
    <3>1. LastOf(u) = {j}
      BY LastIsLast
    <3> QED  BY <3>1
  <2>5. op.row < Len(log) + 3
    BY <1>1, <2>2, <2>3
  <2>6. GoodLog(Append(log, op))
    BY <1>1, <2>3, <2>4, <2>5, GoodAppend DEF LogInv
  <2> QED  BY <2>3, <2>6 DEF op
<1>4. ASSUME NEW u \in Invitee, Update(u) PROVE LogInv'
  <2>1. PICK i \in LastOf(u) : /\ log[i].kind = "put"
                              /\ \E key \in {log[i].row, 0} :
                                   Commit(<<Remove(u, log[i].row), Put(u, log[i].row, key)>>)
    BY <1>4 DEF Update
  <2>2. PICK key \in {log[i].row, 0} :
          Commit(<<Remove(u, log[i].row), Put(u, log[i].row, key)>>)
    BY <2>1
  <2> DEFINE rem == Remove(u, log[i].row)
             put == Put(u, log[i].row, key)
             l == Append(log, rem)
  <2>3. i \in 1..Len(log) /\ log[i].user = u
    BY LastIsSilent
  <2>4. /\ log[i].row \in Keys /\ key \in Keys /\ log[i].row < Len(log) + 2
        /\ log[i].row \in Int
    BY <2>3, RowBound, KeysAreNumbers
  <2>5. /\ rem \in Operation /\ GoodLog(l) /\ rem.user = u /\ rem.kind = "remove"
    BY <2>1, <1>3 DEF Remove
  <2>6. put \in Operation /\ put.kind = "put" /\ put.user = u /\ put.row = log[i].row
    BY <2>4 DEF Put, Operation, User
  <2>7. log' = log \o <<rem, put>>
    BY <2>2 DEF Commit
  <2> HIDE DEF rem, put
  <2>8. /\ l \in Seq(Operation) /\ Len(l) = Len(log) + 1 /\ l[Len(log) + 1] = rem
        /\ \A j \in 1..Len(log) : l[j] = log[j]
        /\ log \o <<rem, put>> = Append(l, put)
    BY <1>1, <2>5, <2>6
  <2> HIDE DEF l
  <2>9. put.row < Len(l) + 3
    BY <1>1, <2>4, <2>6, <2>8
  <2>10. ASSUME NEW j \in 1..Len(l), l[j].kind = "put", l[j].row = put.row
         PROVE  l[j].user = put.user
    <3>1. i \in 1..Len(l) /\ l[i] = log[i]
      BY <1>1, <2>3, <2>8
    <3> QED  BY <2>1, <2>3, <2>5, <2>6, <2>10, <3>1 DEF GoodLog
  <2>11. ASSUME NEW j \in 1..Len(l), l[j].user = u, l[j].kind = "put",
                Silent(l, u, j + 1, Len(l))
         PROVE  FALSE
    <3>1. j # Len(log) + 1
      BY <2>5, <2>8, <2>11
    <3>2. Len(log) + 1 \in j + 1..Len(l)
      BY <1>1, <2>8, <3>1
    <3> QED  BY <2>5, <2>8, <2>11, <3>2 DEF Silent
  <2>12. GoodLog(Append(l, put))
    BY <2>5, <2>6, <2>8, <2>9, <2>10, <2>11, GoodAppend
  <2> QED  BY <2>7, <2>8, <2>12 DEF LogInv
<1>5. ASSUME NEW u \in Invitee, Expel(u) PROVE LogInv'
  <2>1. PICK i \in LastOf(u) : log[i].kind = "put" /\ Commit(<<Remove(u, log[i].row)>>)
    BY <1>5 DEF Expel
  <2>2. /\ Remove(u, log[i].row) \in Operation
        /\ GoodLog(Append(log, Remove(u, log[i].row)))
    BY <2>1, <1>3
  <2>3. log' = Append(log, Remove(u, log[i].row))
    BY <1>1, <2>1, <2>2 DEF Commit
  <2> QED  BY <2>2, <2>3 DEF LogInv
<1>6. ASSUME UNCHANGED log PROVE LogInv'
  BY <1>6 DEF LogInv
<1> QED
  BY <1>2, <1>4, <1>5, <1>6
  DEF Next, GetRead, GetCache, GetFails, Compacted, TakeMachine, PutPlain, PutCleared, PutKey,
      PutRefused, TakeRemove, Forget, Checkpoint, Save, Sweep, Crash, bucket, vars

-----------------------------------------------------------------------------
(* Claims                                                                  *)

\* The bucket only grows: what is recorded and claimed stays so.
LEMMA ClaimGrows ==
  ASSUME NEW l \in Seq(Operation), NEW ops \in Seq(Operation), NEW u, NEW r,
         NEW p \in 0..Len(l), Claim(l, u, r, p)
  PROVE  Claim(l \o ops, u, r, p)
<1>1. /\ Len(l \o ops) = Len(l) + Len(ops) /\ Len(l) \in Nat /\ Len(ops) \in Nat
      /\ \A i \in 1..Len(l) : (l \o ops)[i] = l[i]
  BY ConcatProperties
<1>2. 1..p \subseteq 1..Len(l) /\ p + 1..Len(l) \subseteq p + 1..Len(l \o ops)
  BY <1>1
<1>3. CASE \E i \in 1..p : IsPut(l, i, u, r) /\ Silent(l, u, i + 1, p)
  <2>1. PICK i \in 1..p : IsPut(l, i, u, r) /\ Silent(l, u, i + 1, p)
    BY <1>3
  <2>2. i + 1..p \subseteq 1..Len(l)
    BY <1>1
  <2>3. IsPut(l \o ops, i, u, r) /\ Silent(l \o ops, u, i + 1, p)
    BY <1>1, <1>2, <2>1, <2>2 DEF IsPut, Silent
  <2> QED  BY <2>3 DEF Claim
<1>4. CASE \E i \in p + 1..Len(l) : IsPut(l, i, u, r)
  <2>1. PICK i \in p + 1..Len(l) : IsPut(l, i, u, r)
    BY <1>4
  <2>2. IsPut(l \o ops, i, u, r) /\ i \in p + 1..Len(l \o ops)
    BY <1>1, <1>2, <2>1 DEF IsPut
  <2> QED  BY <2>2 DEF Claim
<1> QED  BY <1>3, <1>4 DEF Claim

LEMMA RecordedGrows ==
  ASSUME NEW l \in Seq(Operation), NEW ops \in Seq(Operation), NEW m, Recorded(l, m)
  PROVE  Recorded(l \o ops, m)
<1>1. /\ 1..Len(l) \subseteq 1..Len(l \o ops)
      /\ \A i \in 1..Len(l) : (l \o ops)[i] = l[i]
  BY ConcatProperties
<1> QED  BY <1>1 DEF Recorded, IsPut

\* An older cursor has the more to come.
LEMMA ClaimEarlier ==
  ASSUME NEW l \in Seq(Operation), NEW u, NEW r, NEW p \in 0..Len(l), NEW q \in 0..p,
         Claim(l, u, r, p)
  PROVE  Claim(l, u, r, q)
<1>1. CASE \E i \in 1..p : IsPut(l, i, u, r) /\ Silent(l, u, i + 1, p)
  <2>1. PICK i \in 1..p : IsPut(l, i, u, r) /\ Silent(l, u, i + 1, p)
    BY <1>1
  <2>2. CASE i <= q
    BY <2>1, <2>2 DEF Claim, Silent
  <2>3. CASE ~(i <= q)
    BY <2>1, <2>3 DEF Claim
  <2> QED  BY <2>2, <2>3
<1>2. CASE \E i \in p + 1..Len(l) : IsPut(l, i, u, r)
  BY <1>2 DEF Claim
<1> QED  BY <1>1, <1>2 DEF Claim

\* An operation that does not remove the row leaves the claim to it.
LEMMA ClaimAdvances ==
  ASSUME NEW l \in Seq(Operation), GoodLog(l), NEW u \in Invitee, NEW r,
         NEW p \in Nat, p < Len(l), Claim(l, u, r, p),
         ~(l[p + 1].kind = "remove" /\ l[p + 1].user = u /\ l[p + 1].row = r)
  PROVE  Claim(l, u, r, p + 1)
<1>0. Len(l) \in Nat /\ p + 1 \in 1..Len(l)
  OBVIOUS
<1>1. CASE \E i \in 1..p : IsPut(l, i, u, r) /\ Silent(l, u, i + 1, p)
  <2>1. PICK i \in 1..p : IsPut(l, i, u, r) /\ Silent(l, u, i + 1, p)
    BY <1>1
  <2>2. l[p + 1].user # u
    <3> SUFFICES ASSUME l[p + 1].user = u PROVE FALSE
      OBVIOUS
    <3>1. i \in 1..Len(l) /\ i < p + 1 /\ i + 1..(p + 1) - 1 = i + 1..p
      BY <1>0
    <3>2. /\ l[i].user = u /\ l[i].kind = "put" /\ l[i].row = r
          /\ Silent(l, l[i].user, i + 1, (p + 1) - 1)
      BY <2>1, <3>1 DEF IsPut, Silent
    <3>3. l[p + 1].kind = "remove" /\ l[p + 1].row = l[i].row
      BY <1>0, <3>1, <3>2 DEF GoodLog
    <3> QED  BY <3>2, <3>3
  <2>3. Silent(l, u, i + 1, p + 1)
    BY <2>1, <2>2 DEF Silent
  <2>4. i \in 1..p + 1
    OBVIOUS
  <2> QED  BY <2>1, <2>3, <2>4 DEF Claim
<1>2. CASE \E i \in p + 1..Len(l) : IsPut(l, i, u, r)
  <2>1. PICK i \in p + 1..Len(l) : IsPut(l, i, u, r)
    BY <1>2
  <2>2. CASE i = p + 1
    <3>1. Silent(l, u, i + 1, p + 1) /\ i \in 1..p + 1
      BY <2>2 DEF Silent
    <3> QED  BY <2>1, <3>1 DEF Claim
  <2>3. CASE i # p + 1
    <3>1. i \in (p + 1) + 1..Len(l)
      BY <1>0, <2>3
    <3> QED  BY <2>1, <3>1 DEF Claim
  <2> QED  BY <2>2, <2>3
<1> QED  BY <1>1, <1>2 DEF Claim

\* A row just put is the user's.
LEMMA ClaimTaken ==
  ASSUME NEW l, NEW u, NEW r, NEW p \in Nat, IsPut(l, p + 1, u, r)
  PROVE  Claim(l, u, r, p + 1)
<1>1. Silent(l, u, (p + 1) + 1, p + 1) /\ p + 1 \in 1..p + 1
  BY DEF Silent
<1> QED  BY <1>1 DEF Claim

\* At the end of the bucket only its members have a row.
LEMMA ClaimIsActive ==
  ASSUME TypeOK, LogInv, NEW u \in Invitee, NEW r, Claim(log, u, r, Len(log))
  PROVE  Active(u)
<1>1. Len(log) \in Nat
  BY DEF TypeOK
<1>2. PICK i \in 1..Len(log) : IsPut(log, i, u, r) /\ Silent(log, u, i + 1, Len(log))
  BY <1>1 DEF Claim
<1>3. LastOf(u) = {i}
  BY <1>2, LastIsLast DEF IsPut
<1> QED  BY <1>2, <1>3 DEF Active, IsPut

-----------------------------------------------------------------------------
(* Rows                                                                    *)

LEMMA InitRows == Init => RowsInv
<1> SUFFICES ASSUME Init PROVE RowsInv
  OBVIOUS
<1>1. /\ members = [u \in User |-> NoMember] /\ disk.members = members
      /\ buckets = 0 /\ pos = 0
  BY DEF Init
<1>2. \A u \in User : members[u].row = 0 /\ disk.members[u].row = 0
  BY <1>1 DEF NoMember
<1> QED  BY <1>1, <1>2 DEF RowsInv, Recorded, User

\* What holds of the row of the user of an operation.
LEMMA OpFacts ==
  ASSUME TypeOK, RowInv, pos < Len(log)
  PROVE  /\ pos \in Nat /\ pos + 1 \in 1..Len(log)
         /\ Op.user \in User /\ Op.row \in Keys /\ (Op.kind = "put" => Op.row # 0)
         /\ members \in [User -> [row : Keys, blob : Keys]]
         /\ Upserted \in [User -> [row : Keys, blob : Keys]]
<1>1. pos \in Nat /\ pos + 1 \in 1..Len(log)
  BY DEF TypeOK
<1>2. Op.user \in User /\ Op.row \in Keys /\ (Op.kind = "put" => Op.row # 0)
  BY <1>1, OpTypes DEF Op, RowInv
<1>3. members \in [User -> [row : Keys, blob : Keys]]
  BY DEF TypeOK
<1> QED  BY <1>1, <1>2, <1>3 DEF Upserted

\* One operation is handled: a user's row is what it was, and this was not its
\* removal; or nothing; or the one of the operation.
LEMMA HandledRows ==
  ASSUME TypeOK, RowInv, LogInv, RowsInv, pos < Len(log), pos' = pos + 1,
         UNCHANGED <<log, buckets, disk>>, lost \subseteq lost',
         \A u \in User :
           \/ members'[u].row = 0
           \/ /\ members'[u].row = members[u].row
              /\ \/ u \notin Invitee \ lost'
                 \/ ~(Op.kind = "remove" /\ Op.user = u /\ Op.row = members[u].row)
           \/ Op.kind = "put" /\ Op.user = u /\ members'[u].row = Op.row
  PROVE  RowsInv'
<1>1. pos \in Nat /\ pos + 1 \in 1..Len(log) /\ buckets \in Nat /\ Op = log[pos + 1]
  BY DEF TypeOK, Op
<1>2. Recorded(log, members')
  BY <1>1 DEF RowsInv, Recorded, IsPut
<1>3. ASSUME NEW u \in Invitee \ lost', members'[u].row # 0
      PROVE  Claim(log, u, members'[u].row, pos + 1)
  <2>1. u \in User /\ u \in Invitee \ lost
    BY DEF User
  <2>2. CASE Op.kind = "put" /\ Op.user = u /\ members'[u].row = Op.row
    BY <1>1, <2>2, ClaimTaken DEF IsPut
  <2>3. CASE /\ members'[u].row = members[u].row
             /\ ~(Op.kind = "remove" /\ Op.user = u /\ Op.row = members[u].row)
    <3>1. Claim(log, u, members[u].row, pos)
      BY <1>3, <2>1, <2>3 DEF RowsInv
    <3>2. log \in Seq(Operation)
      BY DEF TypeOK
    <3> QED  BY <1>1, <2>3, <3>1, <3>2, ClaimAdvances DEF LogInv
  <2> QED  BY <1>3, <2>1, <2>2, <2>3
<1>4. buckets' <= pos'
  BY <1>1 DEF RowsInv
<1> QED  BY <1>2, <1>3, <1>4 DEF RowsInv

\* Of the users only the invitee it was put for is recorded under a row.
LEMMA OneGone ==
  ASSUME TypeOK, LogInv, RowsInv, NEW u \in User, NEW v \in User,
         members[u].row = members[v].row, members[u].row # 0
  PROVE  u = v
<1>1. PICK i \in 1..Len(log) : IsPut(log, i, u, members[u].row)
  BY DEF RowsInv, Recorded
<1>2. PICK j \in 1..Len(log) : IsPut(log, j, v, members[v].row)
  BY DEF RowsInv, Recorded
<1> QED  BY <1>1, <1>2 DEF IsPut, LogInv, GoodLog

\* What an invitee does is an operation or two at the end of the bucket.
LEMMA CommitOps ==
  ASSUME TypeOK, NEW u \in Invitee, Invite(u) \/ Update(u) \/ Expel(u)
  PROVE  \E ops \in Seq(Operation) : Commit(ops)
<1>0. u \in User /\ \A i \in LastOf(u) : log[i].row \in Keys
  BY OpTypes DEF LastOf, User
<1>1. CASE Invite(u)
  <2> DEFINE op == Put(u, Fresh, Fresh)
  <2>1. Fresh \in Keys /\ Commit(<<op>>)
    <3>1. Len(<<op>>) = 1 /\ MaxOps \in Nat /\ Len(log) \in Nat
      BY KeyAssumption DEF TypeOK
    <3>2. Len(log) + 1 <= MaxOps /\ Commit(<<op>>)
      BY <1>1, <3>1 DEF Invite, Commit
    <3> QED  BY <3>1, <3>2 DEF Fresh, Keys
  <2>2. op \in Operation
    BY <1>0, <2>1 DEF Put, Operation
  <2> HIDE DEF op
  <2>3. <<op>> \in Seq(Operation)
    BY <2>2
  <2> QED  BY <2>1, <2>3, Zenon
<1>2. CASE Update(u)
  <2>0. PICK i \in LastOf(u) : \E key \in {log[i].row, 0} :
          Commit(<<Remove(u, log[i].row), Put(u, log[i].row, key)>>)
    BY <1>2 DEF Update
  <2>1. PICK key \in {log[i].row, 0} :
          Commit(<<Remove(u, log[i].row), Put(u, log[i].row, key)>>)
    BY <2>0
  <2>2. /\ Remove(u, log[i].row) \in Operation /\ Put(u, log[i].row, key) \in Operation
    BY <1>0, KeysAreNumbers DEF Remove, Put, Operation
  <2>3. <<Remove(u, log[i].row), Put(u, log[i].row, key)>> \in Seq(Operation)
    BY <2>2
  <2> QED  BY <2>1, <2>3, Zenon
<1>3. CASE Expel(u)
  <2>1. PICK i \in LastOf(u) : Commit(<<Remove(u, log[i].row)>>)
    BY <1>3 DEF Expel
  <2>2. Remove(u, log[i].row) \in Operation
    BY <1>0, KeysAreNumbers DEF Remove, Operation
  <2>3. <<Remove(u, log[i].row)>> \in Seq(Operation)
    BY <2>2
  <2> QED  BY <2>1, <2>3, Zenon
<1> QED  BY <1>1, <1>2, <1>3

LEMMA CommitRows ==
  ASSUME TypeOK, RowsInv, NEW ops \in Seq(Operation), Commit(ops)
  PROVE  RowsInv'
<1>1. /\ log \in Seq(Operation) /\ pos \in 0..Len(log) /\ disk.buckets \in 0..Len(log)
  BY DEF TypeOK
<1>2. log' = log \o ops /\ UNCHANGED <<pos, members, buckets, disk, lost>>
  BY DEF Commit, mirror, history
<1>3. Recorded(log', members') /\ Recorded(log', disk'.members)
  BY <1>1, <1>2, RecordedGrows DEF RowsInv
<1>4. ASSUME NEW u \in Invitee \ lost'
      PROVE  /\ members'[u].row # 0 => Claim(log', u, members'[u].row, pos')
             /\ disk'.members[u].row # 0 => Claim(log', u, disk'.members[u].row, disk'.buckets)
  BY <1>1, <1>2, ClaimGrows DEF RowsInv
<1> QED  BY <1>2, <1>3, <1>4 DEF RowsInv

\* What a removal takes away is the row of its user, or nothing.
LEMMA RemovedRows ==
  ASSUME TypeOK, RowInv, LogInv, RowsInv, TakeRemove
  PROVE  RowsInv'
<1> DEFINE gone == {u \in User : members[u].row = Op.row}
           w == CHOOSE v \in gone : TRUE
<1>1. /\ pos < Len(log) /\ pos' = pos + 1 /\ Op.kind = "remove"
      /\ UNCHANGED <<log, buckets, disk, lost>>
  BY DEF TakeRemove, Take, bucket
<1>2. members \in [User -> [row : Keys, blob : Keys]]
  BY DEF TypeOK
<1>3. \/ UNCHANGED members /\ (gone = {} \/ IsOwner(w))
      \/ members' = [members EXCEPT ![w] = NoMember] /\ gone # {}
  BY DEF TakeRemove
<1>4. gone # {} => w \in gone
  OBVIOUS
<1> HIDE DEF w
<1>5. ASSUME NEW u \in Invitee, Op.user = u, Op.row = members[u].row, members[u].row # 0
      PROVE  members'[u].row = 0
  <2>1. u \in User /\ u \in gone /\ u # Owner
    BY <1>5, KeyAssumption DEF User
  <2>2. w = u
    BY <1>4, <1>5, <2>1, OneGone
  <2> QED  BY <1>2, <1>3, <2>1, <2>2 DEF IsOwner, NoMember
<1>6. ASSUME NEW u \in User PROVE members'[u].row \in {0, members[u].row}
  <2>1. CASE UNCHANGED members
    BY <2>1
  <2>2. CASE members' = [members EXCEPT ![w] = NoMember]
    BY <1>2, <2>2 DEF NoMember
  <2> QED  BY <1>3, <2>1, <2>2
<1>7. \A u \in User :
        \/ members'[u].row = 0
        \/ /\ members'[u].row = members[u].row
           /\ u \notin Invitee \/ ~(Op.user = u /\ Op.row = members[u].row)
  BY <1>5, <1>6
<1> QED  BY <1>1, <1>7, HandledRows

LEMMA StepRows ==
  ASSUME TypeOK, RowInv, LogInv, RowsInv, [Next]_vars
  PROVE  RowsInv'
<1>a. ASSUME UNCHANGED <<log, pos, members, buckets, disk, lost>> PROVE RowsInv'
  BY <1>a DEF RowsInv
<1>1. ASSUME NEW u \in Invitee, Invite(u) \/ Update(u) \/ Expel(u) PROVE RowsInv'
  <2>1. PICK ops \in Seq(Operation) : Commit(ops)
    BY <1>1, CommitOps
  <2> QED  BY <2>1, CommitRows
<1>2. CASE GetCache \/ GetFails \/ Forget \/ (\E u \in User : GetRead(u)) \/ Sweep
  BY <1>2, <1>a DEF GetCache, GetFails, Forget, GetRead, Sweep, bucket, mirror, history
<1>3. CASE Compacted
  <2>1. /\ pos < Len(log) /\ pos' = pos + 1 /\ UNCHANGED <<log, buckets, disk, members>>
        /\ lost \subseteq lost'
        /\ Op.kind = "remove" /\ members[Op.user].row = Op.row => Op.user \in lost'
    BY <1>3 DEF Compacted, bucket, mirror
  <2> QED  BY <2>1, HandledRows
<1>4. CASE TakeMachine \/ PutRefused
  <2>1. /\ pos < Len(log) /\ pos' = pos + 1 /\ UNCHANGED <<log, buckets, disk, members, lost>>
        /\ Op.kind # "remove"
    BY <1>4 DEF TakeMachine, PutRefused, Opening, Take, bucket, mirror, history
  <2> QED  BY <2>1, HandledRows
<1>5. CASE PutPlain \/ PutCleared \/ PutKey
  <2>1. /\ pos < Len(log) /\ pos' = pos + 1 /\ UNCHANGED <<log, buckets, disk, lost>>
        /\ Op.kind = "put"
    BY <1>5 DEF PutPlain, PutCleared, PutKey, Opening, Take, bucket, history
  <2>2. \E b : members' = Upserted \/ members' = [Upserted EXCEPT ![Op.user].blob = b]
    BY <1>5 DEF PutPlain, PutCleared, PutKey
  <2>3. \A u \in User : members'[u].row = IF u = Op.user THEN Op.row ELSE members[u].row
    <3>1. \A u \in User : Upserted[u].row = IF u = Op.user THEN Op.row ELSE members[u].row
      BY <2>1, OpFacts DEF Upserted
    <3> QED  BY <2>1, <2>2, <3>1, OpFacts
  <2>4. \A u \in User :
          \/ /\ members'[u].row = members[u].row
             /\ ~(Op.kind = "remove" /\ Op.user = u /\ Op.row = members[u].row)
          \/ Op.kind = "put" /\ Op.user = u /\ members'[u].row = Op.row
    BY <2>1, <2>3
  <2> QED  BY <2>1, <2>4, HandledRows
<1>6. CASE TakeRemove
  BY <1>6, RemovedRows
<1>7. CASE Checkpoint
  BY <1>7 DEF Checkpoint, bucket, history, RowsInv, TypeOK
<1>8. CASE Save
  <2>1. CASE UNCHANGED disk
    BY <1>8, <2>1, <1>a DEF Save, bucket, mirror, history
  <2>2. CASE disk' = [known |-> known, members |-> members, buckets |-> buckets]
    <3>1. UNCHANGED <<log, pos, members, buckets, lost>>
      BY <1>8 DEF Save, bucket, mirror, history
    <3>2. disk'.members = members /\ disk'.buckets = buckets
      BY <2>2
    <3>3. log \in Seq(Operation) /\ pos \in 0..Len(log) /\ buckets \in 0..pos
      BY DEF TypeOK, RowsInv
    <3>4. \A u \in Invitee \ lost :
            members[u].row # 0 => Claim(log, u, members[u].row, buckets)
      BY <3>3, ClaimEarlier DEF RowsInv
    <3> QED  BY <3>1, <3>2, <3>4 DEF RowsInv
  <2> QED  BY <1>8, <2>1, <2>2 DEF Save
<1>9. CASE Crash
  <2>1. CASE members' = disk.members /\ buckets' = disk.buckets /\ pos' = disk.buckets
    <3>1. UNCHANGED <<log, disk, lost>> /\ disk.buckets <= disk.buckets
      BY <1>9 DEF Crash, bucket, TypeOK
    <3> QED  BY <2>1, <3>1 DEF RowsInv
  <2>2. CASE members' = [u \in User |-> NoMember] /\ buckets' = 0 /\ pos' = 0
    <3>1. UNCHANGED <<log, disk, lost>>
      BY <1>9 DEF Crash, bucket
    <3>2. \A u \in User : members'[u].row = 0
      BY <2>2 DEF NoMember
    <3> QED  BY <2>2, <3>1, <3>2 DEF RowsInv, Recorded, User
  <2> QED  BY <1>9, <2>1, <2>2 DEF Crash
<1>10. CASE UNCHANGED vars
  BY <1>10, <1>a DEF vars, bucket, mirror, history
<1> QED
  BY <1>1, <1>2, <1>3, <1>4, <1>5, <1>6, <1>7, <1>8, <1>9, <1>10 DEF Next

-----------------------------------------------------------------------------
(* Files                                                                   *)

LEMMA InitFile == Init => FileInv
BY DEF Init, Select, FileInv, Clean

\* After a removal the user has no file, or is exempt; the others have theirs.
LEMMA RevokeFile ==
  ASSUME TypeOK, FileInv, NEW u \in User, NEW next, Revoke(u, next), UNCHANGED swept,
         next = "sweep" => main.at = "sweep",
         main.at = "select" \/ next = "sweep",
         \A v \in User \ {u} : members'[v] = members[v]
  PROVE  FileInv'
<1>1. file \in [User -> Keys] /\ Invitee \subseteq User
  BY DEF TypeOK, User
<1>2. /\ file' = [file EXCEPT ![u] = 0] \/ (file' = file /\ u \in kept')
      /\ kept \subseteq kept' /\ (next = "sweep" => main'.at = "sweep" \/ main'.next = "sweep")
      /\ main'.at \in {"select", "sweep"} => main'.next = "select"
  BY DEF Revoke, Select
<1>3. \A v \in User \ {u} : file'[v] = file[v]
  BY <1>1, <1>2
<1>4. u \in kept' \/ file'[u] = 0
  BY <1>1, <1>2
<1>5. Clean' => Clean
  BY <1>2 DEF Clean, FileInv
<1>6. ASSUME Clean', NEW v \in Invitee \ kept', members'[v].row = 0
      PROVE  file'[v] \in {0, OwnerKey}
  BY <1>1, <1>2, <1>3, <1>4, <1>5, <1>6 DEF FileInv
<1> QED  BY <1>2, <1>6 DEF FileInv

LEMMA StepFile ==
  ASSUME TypeOK, RowInv, FileInv, [Next]_vars
  PROVE  FileInv'
<1>a. ASSUME UNCHANGED <<members, file, kept, swept, main>> PROVE FileInv'
  BY <1>a DEF FileInv, Clean
\* The main loop goes on to save, or to its next event.
<1>b. ASSUME UNCHANGED <<file, kept, swept>>, main.at = "select",
             main' \in {[Select EXCEPT !.at = "save"], Select},
             \A u \in User : members'[u].row = 0 => members[u].row = 0
      PROVE  FileInv'
  BY <1>b DEF FileInv, Clean, Select, User
<1>1. ASSUME NEW ops, Commit(ops) PROVE FileInv'
  BY <1>1, <1>a DEF Commit, store, mirror, history
<1>2. ASSUME NEW u \in Invitee, Invite(u) \/ Update(u) \/ Expel(u) PROVE FileInv'
  BY <1>1, <1>2 DEF Invite, Update, Expel
<1>3. CASE GetFails \/ Compacted \/ (\E u \in User : GetRead(u)) \/ PutRefused
  BY <1>3, <1>a DEF GetFails, Compacted, GetRead, PutRefused, mirror, store, history
<1>4. CASE GetCache
  <2>1. UNCHANGED <<members, kept, swept, main>>
    BY <1>4 DEF GetCache, mirror, history
  <2>2. \A u \in User : file'[u] \in {file[u], OwnerKey}
    BY <1>4 DEF GetCache, TypeOK
  <2> QED  BY <2>1, <2>2 DEF FileInv, Clean, User
<1>c. \A changed : SaveIf(changed) \in {[Select EXCEPT !.at = "save"], Select}
  BY DEF SaveIf, Select
<1>5. CASE TakeMachine
  BY <1>5, <1>b, <1>c DEF TakeMachine, Take, store, history
<1>6. CASE PutPlain \/ PutKey \/ PutCleared
  <2>1. /\ pos < Len(log) /\ main.at = "select" /\ Op.kind = "put" /\ UNCHANGED swept
    BY <1>6 DEF PutPlain, PutCleared, PutKey, Opening, Take
  <2>2. \E b : members' = Upserted \/ members' = [Upserted EXCEPT ![Op.user].blob = b]
    BY <1>6 DEF PutPlain, PutCleared, PutKey
  <2>3. /\ members'[Op.user].row # 0 /\ Op.user \in User
        /\ \A u \in User \ {Op.user} : members'[u] = members[u]
    <3>1. /\ Upserted[Op.user].row = Op.row /\ Op.row # 0
          /\ \A u \in User \ {Op.user} : Upserted[u] = members[u]
      BY <2>1, OpFacts DEF Upserted
    <3> QED  BY <2>1, <2>2, <3>1, OpFacts
  <2>4. CASE PutPlain
    BY <2>1, <2>3, <2>4, <1>b, <1>c DEF PutPlain, store, history
  <2>5. CASE PutKey
    <3>1. /\ main' \in {[Select EXCEPT !.at = "save"], Select} /\ UNCHANGED kept
          /\ file' = [file EXCEPT ![Op.user] = Op.key]
      BY <2>5, <1>c DEF PutKey, history
    <3>2. \A u \in User \ {Op.user} : file'[u] = file[u]
      BY <3>1 DEF TypeOK
    <3> QED  BY <2>1, <2>3, <3>1, <3>2 DEF FileInv, Clean, Select, User
  <2>6. CASE PutCleared
    <3>1. Revoke(Op.user, SaveIf(members' # members).at)
      BY <2>6 DEF PutCleared
    <3>2. SaveIf(members' # members).at # "sweep"
      BY DEF SaveIf, Select
    <3> QED  BY <2>1, <2>3, <3>1, <3>2, RevokeFile
  <2> QED  BY <1>6, <2>4, <2>5, <2>6
<1>7. CASE TakeRemove
  <2> DEFINE gone == {u \in User : members[u].row = Op.row}
  <2>1. gone # {} => (CHOOSE u \in gone : TRUE) \in User
    OBVIOUS
  <2>2. /\ main.at = "select" /\ UNCHANGED swept
        /\ \/ UNCHANGED <<members, file, main, kept>>
           \/ \E u \in User : members' = [members EXCEPT ![u] = NoMember] /\ Revoke(u, "save")
    BY <1>7, <2>1 DEF TakeRemove, Take
  <2>3. ASSUME NEW u \in User, members' = [members EXCEPT ![u] = NoMember], Revoke(u, "save")
        PROVE  FileInv'
    <3>1. \A v \in User \ {u} : members'[v] = members[v]
      BY <2>3 DEF TypeOK
    <3> QED  BY <2>2, <2>3, <3>1, RevokeFile
  <2> QED  BY <2>2, <2>3, <1>a
<1>8. CASE Forget
  <2>1. /\ UNCHANGED <<members, file, kept, swept>> /\ main.at = "forget"
        /\ main' = [Select EXCEPT !.at = main.next]
    BY <1>8 DEF Forget, mirror, history
  <2> QED  BY <2>1 DEF FileInv, Clean, Select
<1>9. CASE Checkpoint
  <2>1. /\ UNCHANGED <<members, file, kept>> /\ main.at = "select"
        /\ \/ main'.next = "sweep"
           \/ UNCHANGED swept
        /\ main'.at = "save"
    BY <1>9 DEF Checkpoint, store, history, Select, TypeOK
  <2> QED  BY <2>1 DEF FileInv, Clean
<1>10. CASE Save
  <2>1. /\ UNCHANGED <<members, file, kept, swept>> /\ main.at = "save"
        /\ main' = [Select EXCEPT !.at = main.next]
    BY <1>10 DEF Save, mirror, store, history
  <2> QED  BY <2>1 DEF FileInv, Clean, Select
<1>11. CASE Sweep
  <2>1. /\ UNCHANGED <<members, swept>> /\ main.at = "sweep"
    BY <1>11 DEF Sweep, mirror
  <2>2. CASE Orphans \ kept = {}
    <3>1. main' = Select /\ UNCHANGED <<file, kept>>
      BY <1>11, <2>2 DEF Sweep
    <3>2. \A u \in Invitee \ kept : members[u].row = 0 => file[u] = 0
      BY <2>2, KeyAssumption DEF Orphans, IsOwner, User
    <3> QED  BY <2>1, <3>1, <3>2 DEF FileInv, Select
  <2>3. CASE \E u \in Orphans : Revoke(u, "sweep")
    BY <2>1, <2>3, RevokeFile DEF Orphans
  <2> QED  BY <1>11, <2>2, <2>3 DEF Sweep
<1>12. CASE Crash
  BY <1>12 DEF Crash, FileInv, Clean, Select
<1>13. CASE UNCHANGED vars
  BY <1>13, <1>a DEF vars, mirror, store, history
<1> QED
  BY <1>2, <1>3, <1>4, <1>5, <1>6, <1>7, <1>8, <1>9, <1>10, <1>11, <1>12, <1>13 DEF Next

-----------------------------------------------------------------------------
(* The theorem                                                             *)

LEMMA GInductive == Spec => []GInv
<1>1. Init => GInv
  BY InitType, InitCache, InitRow, InitBlob, InitLog, InitRows, InitFile DEF GInv, IInv
<1>2. GInv /\ [Next]_vars => GInv'
  BY StepType, StepCache, StepRow, StepBlob, StepLog, StepRows, StepFile DEF GInv, IInv
<1> QED  BY <1>1, <1>2, PTL DEF Spec

\* Once a checkpoint has been applied (CheckpointComplete) and key files were
\* reconciled, who is no member of the bucket has neither a key file nor a cached
\* key, for any members, updates, compactions, crashes and failing files; exempt
\* are only a file that would not go and a removal that was never streamed.
THEOREM GoneHaveNoKey == Spec => []GoneMeansNoKey
<1>1. GInv => GoneMeansNoKey
  <2> SUFFICES ASSUME GInv, NEW u \in Invitee \ (kept \cup lost),
                      main.at = "select", swept, buckets = Len(log), ~Active(u)
               PROVE  file[u] \in {0, OwnerKey} /\ cache[u] \in {Absent, Missing, OwnerKey}
    BY DEF GoneMeansNoKey
  <2>1. u \in User /\ cache[u] \in Keys \cup {Absent}
    BY DEF GInv, IInv, TypeOK, User
  <2>2. pos = Len(log)
    BY DEF GInv, IInv, TypeOK, RowsInv
  <2>3. members[u].row = 0
    <3> SUFFICES ASSUME members[u].row # 0 PROVE FALSE
      OBVIOUS
    <3>1. Claim(log, u, members[u].row, Len(log))
      BY <2>2 DEF GInv, RowsInv
    <3> QED  BY <3>1, ClaimIsActive DEF GInv, IInv
  <2>4. file[u] \in {0, OwnerKey}
    BY <2>3 DEF GInv, FileInv, Clean
  <2>5. cache[u] > 0 => cache[u] = file[u]
    BY <2>1 DEF GInv, IInv, CacheMirrorsDisk
  <2> QED  BY <2>1, <2>4, <2>5, KeysAreIntegers DEF Keys, Absent, Missing, OwnerKey
<1> QED  BY <1>1, GInductive, PTL
=============================================================================

-------------------------- MODULE OwnershipRecords --------------------------
(***************************************************************************)
(* The records of .prime-claw/ownership.json (episode-ownership.ts) and    *)
(* the predicates the registry decides with.  A record says which Episode  *)
(* a Conversation owns.  Version 1 binds a retained source folder, version *)
(* 2 binds a task of one provider; "key" is the folder or the task.        *)
(* "content" stands for every field that is neither identity nor status:   *)
(* session route, provider revision, task evidence, heads, timestamps.     *)
(***************************************************************************)
CONSTANTS
  Owners,     \* Conversations (ownerSessionId), the keys of the registry
  Tasks,      \* task ids
  Paths,      \* Backlog task paths
  Sources,    \* retained source folders of version-1 records
  Episodes,   \* Episode identities: episodeId, worktree and branch together
  Contents,   \* values of the remaining fields
  None,       \* an absent field
  NoRecord    \* the Conversation has no entry

Providers == {"backlog", "beads"}
Statuses  == {"provisioning", "active", "uncertain", "inactive"}

FolderRecord ==
  [version: {1}, provider: {None}, key: Sources, path: {None},
   status: Statuses, episode: Episodes \cup {None}, content: Contents]

BacklogRecord ==
  [version: {2}, provider: {"backlog"}, key: Tasks, path: Paths,
   status: Statuses, episode: Episodes \cup {None}, content: Contents]

BeadsRecord ==
  [version: {2}, provider: {"beads"}, key: Tasks, path: {None},
   status: Statuses, episode: Episodes \cup {None}, content: Contents]

(* parseEpisodeOwnership: an active or inactive record has all its bindings. *)
Bound(r) == r.status \in {"active", "inactive"} => r.episode # None

Record == {r \in FolderRecord \cup BacklogRecord \cup BeadsRecord : Bound(r)}

ASSUME OwnershipAssumption ==
  /\ None \notin Paths \cup Episodes
  /\ NoRecord \notin Record

Registry == [Owners -> Record \cup {NoRecord}]

(* active(): the entry exists and is not inactive. *)
Live(r) == r # NoRecord /\ r.status # "inactive"

LiveTask(r) == Live(r) /\ r.version = 2

(* sameEpisodeBinding *)
SameBinding(left, right) ==
  IF left.version = right.version
  THEN /\ left.provider = right.provider
       /\ left.key = right.key
       /\ left.path = right.path
  ELSE left.episode # None /\ left.episode = right.episode

(* The two live entries claim the same task, Backlog path or folder. *)
Collide(left, right) ==
  \/ /\ left.version = 2 /\ right.version = 2
     /\ \/ left.key = right.key
        \/ /\ left.provider = "backlog" /\ right.provider = "backlog"
           /\ left.path = right.path
  \/ /\ left.version = 1 /\ right.version = 1
     /\ left.key = right.key

(* validateActiveBindingUniqueness *)
Unique(registry) ==
  \A c, d \in Owners :
    c # d /\ Live(registry[c]) /\ Live(registry[d])
      => ~Collide(registry[c], registry[d])

(* The check of mutateEpisodeOwnership on the changed entry: one live Episode *)
(* is never replaced by another.                                            *)
Replaceable(current, proposed) ==
  Live(current) /\ Live(proposed) => SameBinding(current, proposed)

(* "after" moves every live task entry of "before" from provider p to q, and *)
(* keeps the Episode, the status and every other entry.                     *)
MovesProvider(before, after, p, q) ==
  \A c \in Owners :
    IF LiveTask(before[c])
    THEN /\ before[c].provider = p
         /\ LiveTask(after[c])
         /\ after[c].provider = q
         /\ after[c].status = before[c].status
         /\ after[c].episode = before[c].episode
    ELSE after[c] = before[c]
=============================================================================

------------------------- MODULE CheckoutTransaction -------------------------
(***************************************************************************)
(* The persistent transaction behind `neoengram checkout TARGET [--force]` *)
(* and its settlement by `neoengram recover [--abort]`                     *)
(* (crates/neoengram-runtime/src/local/worktree/checkout.rs).              *)
(*                                                                         *)
(* A checkout replaces the tracked files of the worktree, the Index and    *)
(* HEAD.  It moves what is in the way into the transaction's backup        *)
(* (journaling the intent first), renames staged files into place, then    *)
(* writes Index and HEAD.  Recovery rolls everything back along the        *)
(* journal and, unless --abort, replays the checkout with force.           *)
(*                                                                         *)
(* The worktree is a tree of paths: a path is absent, a directory, or a    *)
(* file with a content, so that a file can be where the target wants a     *)
(* directory and the reverse (the "displacements" of the code).  Paths are *)
(* numbered in path order, a parent before its children.  Every durable    *)
(* operation is an action, a Crash may fall between any two, and the user  *)
(* may change files at any moment.                                         *)
(*                                                                         *)
(* Abstractions: symbolic links and special files are left out; the Index  *)
(* is "before" or "target" and HEAD "before" or "after", because the write *)
(* lock keeps every other command of the workspace away; removing the      *)
(* created directories is one action; the caches that staging copies from  *)
(* and the Engine journal (engine/mutation.rs) are left out.               *)
(***************************************************************************)
EXTENDS Naturals, Sequences, FiniteSets

CONSTANTS
    N,            \* number of paths
    Parent,       \* the parent of each path, 0 for the worktree root
    Contents,     \* file contents
    Absent, Dir,  \* "nothing there", "a directory"
    Cases         \* the checkouts considered: a sequence of records
                  \*   current   the Index before the checkout
                  \*   target    the tree of the target Commit
                  \*   clean     the Index holds no uncommitted change
                  \*   trees     the worktrees the checkout may start from
                  \*   crashes, edits, faults   bounds on what goes wrong

Path == 1..N
MaybeFile == Contents \cup {Absent}
Node == MaybeFile \cup {Dir}

ASSUME ConstantsAssumption ==
    /\ N \in Nat
    /\ Parent \in [Path -> 0..N]
    /\ \A p \in Path : Parent[p] < p
    /\ Absent \notin Contents /\ Dir \notin Contents /\ Absent # Dir
    /\ \A i \in DOMAIN Cases :
        /\ Cases[i].current \in [Path -> MaybeFile] /\ Cases[i].target \in [Path -> MaybeFile]
        /\ Cases[i].clean \in BOOLEAN
        /\ Cases[i].crashes \in Nat /\ Cases[i].edits \in Nat /\ Cases[i].faults \in Nat

Phases == {"prepared", "applying", "workspace_applied", "index_updated",
           "head_updated", "rolled_back"}

VARIABLES
    node,      \* worktree: what is at each path
    index,     \* the WorkspaceIndex: "before" or "target"
    head,      \* HEAD: "before" or "after"
    txn,       \* "none", "draft" or "formal" transaction directory
    phase,     \* journal.phase
    changes,   \* journal.changes, in order
    made,      \* journal.created_directories
    staged,    \* paths with a staged file
    backup,    \* the transaction's backup tree
    pc,        \* control point of the running command
    ops,       \* apply: operations still to do
    todo,      \* rollback: number of journal changes still to undo
    mode,      \* "checkout", "recover" or "abort"
    force,
    before,    \* history: the worktree when the transaction was created
    touched,   \* history: paths the user changed since then
    raced,     \* history: paths changed between a check and the rename or unlink it licenses
    case,      \* which of the Cases this behaviour is about
    crashes, edits, faults

authority == <<index, head>>
journal == <<txn, phase, changes, made, staged, backup>>
local == <<pc, ops, todo, mode, force>>
history == <<before, touched, raced>>
bounds == <<case, crashes, edits, faults>>
vars == <<node, index, head, txn, phase, changes, made, staged, backup, pc, ops, todo,
          mode, force, before, touched, raced, case, crashes, edits, faults>>

-----------------------------------------------------------------------------
Current == Cases[case].current
Target == Cases[case].target

(* The tree.                                                               *)

Nothing == [p \in Path |-> Absent]

(* The proper ancestors of each path: what every set holds that has its    *)
(* parent and, with a path, the parent of that path.                       *)
Above == [p \in Path |->
    {a \in Path : \A S \in SUBSET Path :
        Parent[p] \in S \cup {0} /\ (\A q \in S : Parent[q] \in S \cup {0}) => a \in S}]
Ancestors(p) == Above[p]

(* No tracked file lies below another tracked file.                        *)
ASSUME TreesAssumption ==
    \A i \in DOMAIN Cases, p \in Path : \A a \in Ancestors(p) :
        /\ Cases[i].current[p] # Absent => Cases[i].current[a] = Absent
        /\ Cases[i].target[p] # Absent => Cases[i].target[a] = Absent

Subtree(p) == {q \in Path : q = p \/ p \in Ancestors(q)}

WellFormed(t) == \A p \in Path : t[p] # Absent => \A a \in Ancestors(p) : t[a] = Dir

ASSUME StartTreesAssumption ==
    \A i \in DOMAIN Cases : Cases[i].trees \subseteq {t \in [Path -> Node] : WellFormed(t)}

EmptyAt(t, p) == \A q \in Subtree(p) \ {p} : t[q] = Absent

Cleared(t, p) == [q \in Path |-> IF q \in Subtree(p) THEN Absent ELSE t[q]]
Grafted(t, from, p) == [q \in Path |-> IF q \in Subtree(p) THEN from[q] ELSE t[q]]

WithParents(t, p) == [q \in Path |-> IF q \in Ancestors(p) /\ t[q] = Absent THEN Dir ELSE t[q]]

IsFile(t, p) == t[p] \in Contents

-----------------------------------------------------------------------------
(* preflight_workspace: what a checkout would displace, remove and write.  *)

(* forced_displacement: a file where a parent directory is needed, or a    *)
(* directory where a file is needed.                                       *)
Blockers(p) == {a \in Ancestors(p) : IsFile(node, a)} \cup {q \in {p} : node[q] = Dir}

Displacements(f) == IF f THEN UNION {Blockers(p) : p \in {q \in Path : Target[q] # Absent}}
                         ELSE {}

Writes(f) == {p \in Path : /\ Target[p] # Absent
                           /\ node[p] # Target[p] \/ (f /\ Blockers(p) # {})}

Removals(f) == {p \in Path : /\ Current[p] # Absent
                             /\ Target[p] = Absent
                             /\ \A d \in Displacements(f) : p \notin Subtree(d)}

(* safe_leaf_metadata fails below a path that is not a directory.          *)
ParentsSafe(p) == \A a \in Ancestors(p) : node[a] \in {Dir, Absent}

TargetConflict(p, f) ==
    /\ ~(f /\ Blockers(p) # {})
    /\ \/ ~ParentsSafe(p)
       \/ node[p] = Dir
       \/ ~f /\ node[p] # Target[p] /\ node[p] # Current[p]

RemovalConflict(p, f) == ~ParentsSafe(p) \/ (~f /\ node[p] # Current[p])

PreflightOK(f) ==
    /\ \A p \in Path : Target[p] # Absent => ~TargetConflict(p, f)
    /\ \A p \in Removals(f) : ~RemovalConflict(p, f)

-----------------------------------------------------------------------------
NoOps == [displace |-> {}, remove |-> {}, write |-> {}]
Plans == [displace : SUBSET Path, remove : SUBSET Path, write : SUBSET Path]
Changes == [path : Path, present : BOOLEAN, expected : BOOLEAN]

PCs == {"idle", "preflight", "publish", "apply", "op", "parents", "intent", "rename",
        "publish_file", "index", "index_phase", "head", "head_phase", "finish",
        "rb_head", "rb_change", "rb_check", "rb_unlink", "rb_restore", "rb_dirs", "rb_index",
        "rb_phase", "replay", "reset", "restage"}

TypeOK ==
    /\ node \in [Path -> Node]
    /\ index \in {"before", "target"}
    /\ head \in {"before", "after"}
    /\ txn \in {"none", "draft", "formal"}
    /\ phase \in Phases
    /\ changes \in Seq(Changes)
    /\ made \subseteq Path
    /\ staged \subseteq Path
    /\ backup \in [Path -> Node]
    /\ pc \in PCs
    /\ ops \in Plans
    /\ todo \in 0..Len(changes)
    /\ mode \in {"checkout", "recover", "abort"}
    /\ force \in BOOLEAN
    /\ before \in [Path -> Node]
    /\ touched \subseteq Path
    /\ raced \subseteq Path
    /\ case \in DOMAIN Cases
    /\ crashes \in 0..Cases[case].crashes
    /\ edits \in 0..Cases[case].edits
    /\ faults \in 0..Cases[case].faults

Init ==
    /\ case \in DOMAIN Cases
    /\ node \in Cases[case].trees
    /\ index = "before"
    /\ head = "before"
    /\ txn = "none"
    /\ phase = "prepared"
    /\ changes = <<>>
    /\ made = {}
    /\ staged = {}
    /\ backup = Nothing
    /\ pc = "idle"
    /\ ops = NoOps
    /\ todo = 0
    /\ mode = "checkout"
    /\ force = FALSE
    /\ before = node
    /\ touched = {}
    /\ raced = {}
    /\ crashes = 0
    /\ edits = 0
    /\ faults = 0

Smallest(S) == CHOOSE p \in S : \A q \in S : p <= q

(* The operation apply_workspace_changes works on: displacements first,    *)
(* then removals, then writes, each in path order.                         *)
Kind == IF ops.displace # {} THEN "displace"
        ELSE IF ops.remove # {} THEN "remove" ELSE "write"
Cur == Smallest(ops[Kind])

NextOp == /\ ops' = [ops EXCEPT ![Kind] = @ \ {Cur}]
          /\ pc' = "op"

(* A failing apply rolls back (rollback_checkout_error); recover starts    *)
(* with the same rollback.                                                 *)
StartRollback == pc' = "rb_head" /\ todo' = Len(changes) /\ ops' = NoOps

(* Rollback cannot proceed: the transaction stays for another recover.     *)
Refuse == /\ pc' = "idle"
          /\ todo' = 0
          /\ UNCHANGED <<node, authority, journal, ops, mode, force, before, touched, raced, bounds>>

-----------------------------------------------------------------------------
(* checkout_snapshot_locked up to the staged draft.                        *)
Checkout(f) ==
    /\ pc = "idle"
    /\ txn # "formal"
    /\ index = "before" /\ head = "before"
    /\ f \/ Cases[case].clean
    /\ PreflightOK(f)
    /\ txn' = "draft"
    /\ phase' = "prepared"
    /\ changes' = <<>>
    /\ made' = {}
    /\ staged' = Writes(f)
    /\ backup' = Nothing
    /\ pc' = "preflight"
    /\ mode' = "checkout"
    /\ force' = f
    /\ before' = node
    /\ touched' = {}
    /\ raced' = {}
    /\ UNCHANGED <<node, authority, ops, todo, bounds>>

(* The second preflight, after staging: a worktree that changed meanwhile  *)
(* ends the command and leaves the draft (or, in a replay, the formal      *)
(* transaction) behind.                                                    *)
Preflight ==
    /\ pc = "preflight"
    /\ IF PreflightOK(force) /\ Writes(force) \subseteq staged
       THEN /\ pc' = "publish"
            /\ ops' = [displace |-> Displacements(force),
                       remove |-> Removals(force), write |-> Writes(force)]
       ELSE pc' = "idle" /\ UNCHANGED ops
    /\ UNCHANGED <<node, authority, journal, todo, mode, force, history, bounds>>

(* publish renames the draft (a replay's transaction is already formal).   *)
Publish ==
    /\ pc = "publish"
    /\ txn' = "formal"
    /\ pc' = "apply"
    /\ UNCHANGED <<node, authority, phase, changes, made, staged, backup, ops, todo, mode,
                   force, history, bounds>>

BeginApply ==
    /\ pc = "apply"
    /\ phase' = "applying"
    /\ pc' = "op"
    /\ UNCHANGED <<node, authority, txn, changes, made, staged, backup, ops, todo, mode,
                   force, history, bounds>>

(* ensure_workspace_unchanged and its counterpart for untracked files:     *)
(* without --force the path must still be what preflight saw.              *)
Unchanged(kind, p) ==
    \/ force
    \/ kind = "displace"
    \/ ParentsSafe(p) /\ node[p] = Current[p]
    \/ kind = "write" /\ Current[p] = Absent /\ ParentsSafe(p) /\ node[p] = Target[p]

BeginOp ==
    /\ pc = "op"
    /\ \/ /\ ops = NoOps
          /\ phase' = "workspace_applied"
          /\ pc' = "index"
          /\ UNCHANGED <<ops, todo>>
       \/ /\ ops # NoOps
          /\ IF ~Unchanged(Kind, Cur) \/ (Kind = "remove" /\ ~ParentsSafe(Cur))
             THEN StartRollback
             ELSE CASE Kind = "displace" -> pc' = "intent" /\ UNCHANGED <<ops, todo>>
                    [] Kind = "write"    -> pc' = "parents" /\ UNCHANGED <<ops, todo>>
                    [] OTHER -> IF node[Cur] = Absent
                                THEN NextOp /\ UNCHANGED todo
                                ELSE pc' = "intent" /\ UNCHANGED <<ops, todo>>
          /\ UNCHANGED phase
    /\ UNCHANGED <<node, authority, txn, changes, made, staged, backup, mode, force, history, bounds>>

(* ensure_worktree_parents: each missing directory is journaled, created.  *)
EnsureParents ==
    LET missing == {a \in Ancestors(Cur) : node[a] = Absent} IN
    /\ pc = "parents"
    /\ IF ~ParentsSafe(Cur)
       THEN StartRollback /\ UNCHANGED <<node, made>>
       ELSE /\ \/ missing = {} /\ pc' = "intent" /\ UNCHANGED <<node, made>>
               \/ /\ missing # {}
                  /\ pc' = "parents"
                  /\ IF Smallest(missing) \in made
                     THEN node' = [node EXCEPT ![Smallest(missing)] = Dir] /\ UNCHANGED made
                     ELSE made' = made \cup {Smallest(missing)} /\ UNCHANGED node
            /\ UNCHANGED <<ops, todo>>
    /\ UNCHANGED <<authority, txn, phase, changes, staged, backup, mode, force, history, bounds>>

(* back_up, first half: the intent is durable before the rename.  A path   *)
(* that was already displaced only gains its expected file.                *)
Journaled(p) == {k \in 1..Len(changes) : changes[k].path = p}

(* A removal whose file has vanished journals nothing, and a path below a  *)
(* file cannot even be looked at.                                          *)
Vanished == Kind = "remove" /\ node[Cur] = Absent

BackUpIntent ==
    /\ pc = "intent"
    /\ \/ /\ Journaled(Cur) # {}
          /\ changes' = [k \in 1..Len(changes) |->
                            IF k \in Journaled(Cur) /\ Kind = "write"
                            THEN [changes[k] EXCEPT !.expected = TRUE] ELSE changes[k]]
          /\ pc' = "publish_file"
          /\ UNCHANGED <<ops, todo>>
       \/ /\ Journaled(Cur) = {} /\ ~ParentsSafe(Cur)
          /\ StartRollback
          /\ UNCHANGED changes
       \/ /\ Journaled(Cur) = {} /\ ParentsSafe(Cur) /\ Vanished
          /\ NextOp
          /\ UNCHANGED <<changes, todo>>
       \/ /\ Journaled(Cur) = {} /\ ParentsSafe(Cur) /\ ~Vanished
          /\ changes' = Append(changes, [path |-> Cur, present |-> node[Cur] # Absent,
                                         expected |-> Kind = "write"])
          /\ pc' = IF node[Cur] # Absent THEN "rename" ELSE "publish_file"
          /\ UNCHANGED <<ops, todo>>
    /\ UNCHANGED <<node, authority, txn, phase, made, staged, backup, mode, force, history, bounds>>

(* back_up, second half: the path (and what is below it) moves away.  The  *)
(* backup's parent directories are created, and an existing backup is      *)
(* never replaced.                                                         *)
BackUpRename ==
    /\ pc = "rename"
    /\ IF node[Cur] = Absent \/ backup[Cur] # Absent \/ \E a \in Ancestors(Cur) : IsFile(backup, a)
       THEN StartRollback /\ UNCHANGED <<node, backup>>
       ELSE /\ backup' = WithParents(Grafted(backup, node, Cur), Cur)
            /\ node' = Cleared(node, Cur)
            /\ pc' = "publish_file"
            /\ UNCHANGED <<ops, todo>>
    /\ UNCHANGED <<authority, txn, phase, changes, made, staged, mode, force, history, bounds>>

(* A write renames its staged file into place unless something is there.   *)
PublishFile ==
    /\ pc = "publish_file"
    /\ \/ Kind # "write" /\ NextOp /\ UNCHANGED <<node, staged, todo>>
       \/ /\ Kind = "write"
          /\ node[Cur] # Absent \/ \E a \in Ancestors(Cur) : node[a] # Dir
          /\ StartRollback
          /\ UNCHANGED <<node, staged>>
       \/ /\ Kind = "write"
          /\ node[Cur] = Absent /\ \A a \in Ancestors(Cur) : node[a] = Dir
          /\ node' = [node EXCEPT ![Cur] = Target[Cur]]
          /\ staged' = staged \ {Cur}
          /\ NextOp
          /\ UNCHANGED todo
    /\ UNCHANGED <<authority, txn, phase, changes, made, backup, mode, force, history, bounds>>

-----------------------------------------------------------------------------
(* publish_checkout_authority.                                             *)

(* The Index CAS may fail without effect (then the checkout rolls back) or *)
(* report an error after it took effect (then it continues).               *)
WriteIndex ==
    /\ pc = "index"
    /\ \/ index' = "target" /\ pc' = "index_phase" /\ UNCHANGED <<ops, todo, faults>>
       \/ /\ faults < Cases[case].faults
          /\ faults' = faults + 1
          /\ StartRollback
          /\ UNCHANGED index
    /\ UNCHANGED <<node, head, journal, mode, force, history, case, crashes, edits>>

SetIndexUpdated ==
    /\ pc = "index_phase"
    /\ phase' = "index_updated"
    /\ pc' = "head"
    /\ UNCHANGED <<node, authority, txn, changes, made, staged, backup, ops, todo, mode, force,
                   history, bounds>>

PublishHead ==
    /\ pc = "head"
    /\ head' = "after"
    /\ pc' = "head_phase"
    /\ UNCHANGED <<node, index, journal, ops, todo, mode, force, history, bounds>>

SetHeadUpdated ==
    /\ pc = "head_phase"
    /\ phase' = "head_updated"
    /\ pc' = "finish"
    /\ UNCHANGED <<node, authority, txn, changes, made, staged, backup, ops, todo, mode, force,
                   history, bounds>>

Finish ==
    /\ pc = "finish"
    /\ txn' = "none"
    /\ changes' = <<>>
    /\ made' = {}
    /\ staged' = {}
    /\ backup' = Nothing
    /\ pc' = "idle"
    /\ UNCHANGED <<node, authority, phase, ops, todo, mode, force, history, bounds>>

-----------------------------------------------------------------------------
(* CheckoutTransaction::rollback.                                          *)

(* Mutant: HEAD is left on the target.                                     *)
RollbackHead_Skipped ==
    /\ pc = "rb_head"
    /\ pc' = "rb_change"
    /\ UNCHANGED <<node, authority, journal, ops, todo, mode, force, history, bounds>>

RollbackHead ==
    /\ pc = "rb_head"
    /\ head' = "before"
    /\ pc' = "rb_change"
    /\ UNCHANGED <<node, index, journal, ops, todo, mode, force, history, bounds>>

(* Undo the last change not yet undone.                                    *)
Change == changes[todo]

(* Mutant: whatever stands at the path counts as the published file.       *)
OwnOutput_Unverified(c) == c.path \notin staged

(* remove_destination_before_restore and remove_published_absent_destination *)
(* unlink only a file the transaction published, or an empty directory     *)
(* standing where the displaced path was.                                  *)
OwnOutput(c) == c.path \notin staged /\ node[c.path] = Target[c.path]

(* Mutant: the published file blocks its own rollback.                     *)
RestoreRefuses_OwnOutput(c) == node[c.path] # Absent

RestoreRefuses(c) ==
    /\ node[c.path] # Absent
    /\ IF c.expected THEN ~OwnOutput(c)
                     ELSE ~(node[c.path] = Dir /\ EmptyAt(node, c.path))

RemoveRefuses(c) ==
    /\ c.expected /\ c.path \notin staged
    /\ node[c.path] # Absent
    /\ ~OwnOutput(c)

RollbackRefuses(c) ==
    \/ backup[c.path] # Absent /\ RestoreRefuses(c)
    \/ backup[c.path] = Absent /\ c.present /\ node[c.path] = Absent
    \/ backup[c.path] = Absent /\ ~c.present /\ RemoveRefuses(c)

(* Mutant: a file published where nothing was stays.                       *)
Unlinks_BackupsOnly(c) == node[c.path] # Absent /\ backup[c.path] # Absent

Unlinks(c) ==
    /\ node[c.path] # Absent
    /\ \/ backup[c.path] # Absent
       \/ ~c.present /\ c.expected /\ c.path \notin staged

UndoNext == pc' = "rb_change" /\ todo' = todo - 1

(* ensure_safe_worktree_parent_directories, for the next change.           *)
RollbackParents ==
    /\ pc = "rb_change"
    /\ \/ /\ todo = 0
          /\ pc' = "rb_dirs"
          /\ UNCHANGED <<node, authority, journal, ops, todo, mode, force, history, bounds>>
       \/ /\ todo > 0 /\ ~ParentsSafe(Change.path)
          /\ Refuse
       \/ /\ todo > 0 /\ ParentsSafe(Change.path)
          /\ node' = WithParents(node, Change.path)
          /\ pc' = "rb_check"
          /\ UNCHANGED <<authority, journal, ops, todo, mode, force, history, bounds>>

RollbackCheck ==
    /\ pc = "rb_check"
    /\ IF RollbackRefuses(Change)
       THEN Refuse
       ELSE /\ IF Unlinks(Change) THEN pc' = "rb_unlink" /\ UNCHANGED todo
               ELSE IF backup[Change.path] # Absent THEN pc' = "rb_restore" /\ UNCHANGED todo
               ELSE UndoNext
            /\ UNCHANGED <<node, authority, journal, ops, mode, force, history, bounds>>

(* remove_file fails unless a file is there, remove_dir unless an empty    *)
(* directory is.                                                           *)
Unlinkable(c) ==
    IF c.expected THEN IsFile(node, c.path)
                  ELSE node[c.path] = Dir /\ EmptyAt(node, c.path)

RollbackUnlink ==
    /\ pc = "rb_unlink"
    /\ IF ~Unlinkable(Change)
       THEN Refuse
       ELSE /\ node' = [node EXCEPT ![Change.path] = Absent]
            /\ IF backup[Change.path] # Absent THEN pc' = "rb_restore" /\ UNCHANGED todo ELSE UndoNext
            /\ UNCHANGED <<authority, journal, ops, mode, force, history, bounds>>

RollbackRestore ==
    /\ pc = "rb_restore"
    /\ IF node[Change.path] # Absent \/ \E a \in Ancestors(Change.path) : node[a] # Dir
       THEN Refuse
       ELSE /\ node' = Grafted(node, backup, Change.path)
            /\ backup' = Cleared(backup, Change.path)
            /\ UndoNext
            /\ UNCHANGED <<authority, txn, phase, changes, made, staged, ops, mode, force,
                           history, bounds>>

(* Journaled directories are removed, children first, while they are empty *)
(* (their missing parents are created once more on the way).               *)
Reparented == [p \in Path |-> IF node[p] = Absent /\ \E d \in made : p \in Ancestors(d)
                              THEN Dir ELSE node[p]]

EmptyMade ==
    {d \in made : /\ Reparented[d] = Dir
                  /\ \A q \in Subtree(d) : Reparented[q] # Absent => q \in made /\ Reparented[q] = Dir}

RollbackDirs ==
    /\ pc = "rb_dirs"
    /\ IF \E d \in made : ~ParentsSafe(d)
       THEN Refuse
       ELSE /\ node' = [p \in Path |-> IF p \in EmptyMade THEN Absent ELSE Reparented[p]]
            /\ pc' = "rb_index"
            /\ UNCHANGED <<authority, journal, ops, todo, mode, force, history, bounds>>

(* Mutant: the Index is left on the target.                                *)
RollbackIndex_Skipped ==
    /\ pc = "rb_index"
    /\ pc' = "rb_phase"
    /\ UNCHANGED <<node, authority, journal, ops, todo, mode, force, history, bounds>>

RollbackIndex ==
    /\ pc = "rb_index"
    /\ index' = "before"
    /\ pc' = "rb_phase"
    /\ UNCHANGED <<node, head, journal, ops, todo, mode, force, history, bounds>>

SetRolledBack ==
    /\ pc = "rb_phase"
    /\ phase' = "rolled_back"
    /\ pc' = IF mode = "recover" THEN "replay" ELSE "finish"
    /\ UNCHANGED <<node, authority, txn, changes, made, staged, backup, ops, todo, mode, force,
                   history, bounds>>

-----------------------------------------------------------------------------
(* recover_transaction.                                                    *)
Recover(m) ==
    /\ pc = "idle"
    /\ txn = "formal"
    /\ mode' = m
    /\ StartRollback
    /\ UNCHANGED <<node, authority, journal, force, history, bounds>>

(* The replay plans with force; reset_for_replay clears the journal before *)
(* the old staged and backup directories go.                               *)
Replay ==
    /\ pc = "replay"
    /\ IF PreflightOK(TRUE)
       THEN /\ pc' = "reset"
            /\ force' = TRUE
            /\ phase' = "prepared"
            /\ changes' = <<>>
            /\ made' = {}
            /\ ops' = [NoOps EXCEPT !.write = Writes(TRUE)]
       ELSE pc' = "idle" /\ UNCHANGED <<force, phase, changes, made, ops>>
    /\ UNCHANGED <<node, authority, txn, staged, backup, todo, mode, history, bounds>>

ResetDirectories ==
    /\ pc = "reset"
    /\ staged' = {}
    /\ backup' = Nothing
    /\ pc' = "restage"
    /\ UNCHANGED <<node, authority, txn, phase, changes, made, ops, todo, mode, force, history, bounds>>

Restage ==
    /\ pc = "restage"
    /\ staged' = ops.write
    /\ ops' = NoOps
    /\ pc' = "preflight"
    /\ UNCHANGED <<node, authority, txn, phase, changes, made, backup, todo, mode, force, history, bounds>>

-----------------------------------------------------------------------------
Crash ==
    /\ pc # "idle"
    /\ crashes < Cases[case].crashes
    /\ crashes' = crashes + 1
    /\ pc' = "idle"
    /\ ops' = NoOps
    /\ todo' = 0
    /\ UNCHANGED <<node, authority, journal, mode, force, history, case, edits, faults>>

(* The points between a check of a path and the operation it licenses.     *)
CheckedPath == IF pc \in {"parents", "intent", "rename"} THEN {Cur}
               ELSE IF pc = "rb_unlink" THEN {Change.path} ELSE {}

(* The user writes, deletes or creates one path.                           *)
UserEdit(p, c) ==
    /\ edits < Cases[case].edits
    /\ c # node[p]
    /\ WellFormed([node EXCEPT ![p] = c])
    /\ node' = [node EXCEPT ![p] = c]
    /\ edits' = edits + 1
    /\ touched' = touched \cup {p}
    /\ raced' = raced \cup (CheckedPath \cap Subtree(p))
                     \cup {q \in {p} : CheckedPath \cap Ancestors(p) # {}}
    /\ UNCHANGED <<authority, journal, local, before, case, crashes, faults>>

Command ==
    \/ Preflight \/ Publish \/ BeginApply \/ BeginOp \/ EnsureParents \/ BackUpIntent
    \/ BackUpRename \/ PublishFile \/ WriteIndex \/ SetIndexUpdated \/ PublishHead
    \/ SetHeadUpdated \/ Finish \/ RollbackHead \/ RollbackParents \/ RollbackCheck \/ RollbackUnlink
    \/ RollbackRestore \/ RollbackDirs \/ RollbackIndex \/ SetRolledBack \/ Replay
    \/ ResetDirectories \/ Restage

Next ==
    \/ Command
    \/ \E f \in BOOLEAN : Checkout(f)
    \/ \E m \in {"recover", "abort"} : Recover(m)
    \/ Crash
    \/ \E p \in Path, c \in Node : UserEdit(p, c)

(* A running command keeps running; someone runs recover on an unfinished  *)
(* transaction.                                                            *)
Fairness == WF_vars(Command) /\ WF_vars(\E m \in {"recover", "abort"} : Recover(m))

Spec == Init /\ [][Next]_vars /\ Fairness

-----------------------------------------------------------------------------
(* Properties.                                                             *)

(* A rollback that reports success (whatever crashes and earlier rollbacks *)
(* came before it) has put back Index and HEAD, holds no file in the       *)
(* backup that finish or reset_for_replay would now discard, and, if the   *)
(* user left the worktree alone, every file is the original again, nothing *)
(* is left over, and only empty directories may be missing                 *)
(* (CheckoutTransaction::rollback).                                        *)
RollbackRestoresOriginal ==
    txn = "formal" /\ phase = "rolled_back" /\ pc \in {"replay", "finish"} =>
        /\ index = "before" /\ head = "before"
        /\ touched = {} =>
            \A p \in Path : node[p] = before[p] \/ (before[p] = Dir /\ node[p] = Absent)
        /\ \A p \in Path : ~IsFile(backup, p)

(* HEAD and Index move last: whenever HEAD names the target the Index does *)
(* too, unless a rollback is under way, and outside a transaction the two  *)
(* agree (publish_checkout_authority, rollback).                           *)
AuthorityFollowsWorktree ==
    /\ head = "after" => index = "target"
    /\ txn # "formal" => (index = "target") = (head = "after")

(* Without --force, user content disappears only through the user, or when *)
(* an edit falls between the check of its path and the rename (unlink) the *)
(* check licenses (ensure_workspace_unchanged, back_up).                   *)
Known(p) == {Absent, Dir, Target[p], Current[p]}
Lost(p) == {node[p], backup[p]} \ ({node'[p], backup'[p]} \cup Known(p))

UnforcedKeepsEdits ==
    [][\A p \in Path : Lost(p) # {} => \/ edits' # edits \/ force \/ p \in raced]_vars

(* A rollback died after it had put the file a back in place of a          *)
(* directory: the next one begins with the change of a/b, whose parent is  *)
(* now that file, and refuses (checkout.rs:1090).                          *)
Stranded ==
    /\ pc = "idle"
    /\ \E j, k \in 1..Len(changes) :
        /\ changes[j].path \in Ancestors(changes[k].path)
        /\ changes[j].present /\ backup[changes[j].path] = Absent
        /\ IsFile(node, changes[j].path)

(* A published transaction is eventually completed or rolled back, unless  *)
(* an edit of the user stands in the way or a rollback was interrupted in  *)
(* that one place (rollback, recover_transaction).                         *)
TransactionSettles == txn = "formal" ~> (txn # "formal" \/ edits > 0 \/ Stranded)

(* What the comment at checkout.rs:1348 says: recovery goes back along the *)
(* journal idempotently, and a recovery that is itself interrupted can be  *)
(* repeated.                                                               *)
RecoverSettles == txn = "formal" ~> (txn # "formal" \/ edits > 0)

(* Where a checkout leads from the tree t: the files of the target, the    *)
(* directories they need, and what neither Commit has business with.       *)
Goal(t) == [p \in Path |->
    IF Target[p] # Absent THEN Target[p]
    ELSE IF \E q \in Subtree(p) : Target[q] # Absent THEN Dir
    ELSE IF \E a \in Ancestors(p) \cup {p} : Target[a] # Absent \/ Current[a] # Absent
         THEN Absent ELSE t[p]]

(* No directory stands where the current Commit has a file, the target has *)
(* none, and the target has files below.  Of a worktree that --force has   *)
(* to repair this need not be true, and then checkout is not atomic        *)
(* (checkout.rs:700, checkout.rs:1127).                                    *)
Apart(t, current, target) ==
    \A p, q \in Path :
        current[p] # Absent /\ target[p] = Absent /\ q \in Subtree(p) /\ target[q] # Absent
            => t[p] # Dir

StartsApart ==
    \A i \in DOMAIN Cases : \A t \in Cases[i].trees : Apart(t, Cases[i].current, Cases[i].target)

World(t, i, h) == [tree |-> t, index |-> i, head |-> h]

Atomic == INSTANCE AtomicChange WITH
    Worlds <- {World(t, i, h) : t \in [Path -> Node], i \in {"before", "target"},
                                h \in {"before", "after"}},
    world <- IF txn = "formal" THEN World(before, "before", "before") ELSE World(node, index, head),
    pending <- IF txn = "formal" THEN {World(Goal(before), "target", "after")} ELSE {}

(* Worktree, Index and HEAD change together or not at all: up to the first *)
(* edit by the user the specification implements AtomicChange!Spec.        *)
AllOrNothing == Atomic!Init /\ [][edits' > 0 \/ Atomic!Next]_(Atomic!vars)
=============================================================================

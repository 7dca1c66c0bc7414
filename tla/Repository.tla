----------------------------- MODULE Repository -----------------------------
(***************************************************************************)
(* One standalone repository shared by several workspaces and processes:   *)
(* the object store, every WorkspaceIndex, the Commits, branches and HEADs *)
(* (local/repository/history.rs, local/metadata/sqlite.rs), the three      *)
(* advisory locks (local/repository/lock.rs) and the commands that meet on *)
(* them: add, commit, gc, restore --staged, checkout and recover           *)
(* (app/{add,commit,gc,restore,recover}.rs, worktree/checkout.rs).         *)
(*                                                                         *)
(* A process runs one command in one workspace.  The object and the write  *)
(* lock belong to the repository, the worktree lock to a workspace, and    *)
(* all three are tried, never awaited: a command that finds one taken      *)
(* fails without effect, so it is simply not enabled.  A crash releases    *)
(* the locks and leaves a published checkout transaction behind.           *)
(*                                                                         *)
(* Abstractions: a file is the object of its content, so an Index and a    *)
(* Commit's tree are sets of objects; the Index version is its revision;   *)
(* what checkout does to the worktree is CheckoutTransaction, of which     *)
(* only the journal, Index and HEAD remain here.                           *)
(***************************************************************************)
EXTENDS Naturals, Sequences, FiniteSets

CONSTANTS
    Workspaces, Processes, Branches, Objects,
    None,                     \* no transaction, no Commit
    StartObjects,             \* the tree of the first Commit
    StartHead,                \* the HEAD of each workspace at the start
    MaxCommits, MaxVersion, MaxCrashes

CommitId == 1..MaxCommits
Heads == Branches \cup CommitId      \* HeadState: attached or detached

ASSUME ConstantsAssumption ==
    /\ MaxCommits \in Nat \ {0} /\ MaxVersion \in Nat /\ MaxCrashes \in Nat
    /\ Workspaces # {} /\ StartObjects \subseteq Objects
    /\ StartHead \in [Workspaces -> Branches \cup {1}]
    /\ \A b \in Branches : b \notin CommitId
    /\ \A v, w \in Workspaces : StartHead[v] \in Branches /\ v # w => StartHead[v] # StartHead[w]

VARIABLES
    objects,    \* the loose objects in the store
    index,      \* index[w]: what the WorkspaceIndex of w refers to
    version,    \* version[w]: its revision
    commits,    \* the stored Commits; a Commit's id is its position
    refs,       \* refs[b]: the Commit of branch b
    head,       \* head[w]: the HEAD of w
    txn,        \* txn[w]: the published checkout transaction of w, or None
    proc,       \* proc[p]: the command process p runs
    refused,    \* history: recover was refused for HEAD's sake
    crashes

vars == <<objects, index, version, commits, refs, head, txn, proc, refused, crashes>>
metadata == <<index, version, commits, refs, head>>

Locks == {"objects", "write", "shared", "exclusive"}
Commands == {"none", "add", "add_all", "commit", "gc", "checkout", "recover", "abort"}
PCs == {"idle", "publish", "store", "advance", "sweep", "index", "head", "finish",
        "rb_head", "rb_index"}

Commit == [parent : CommitId \cup {None}, tree : SUBSET Objects]
Transaction == [before : SUBSET Objects, headBefore : Heads, commitBefore : CommitId,
                headAfter : Heads, target : CommitId]
Process == [cmd : Commands, pc : PCs, ws : Workspaces, locks : SUBSET Locks,
            seen : 0..MaxVersion,             \* the Index version it read
            base : SUBSET Objects,            \* the Index it read
            data : SUBSET Objects]            \* staged (add) or marked (gc) objects

ASSUME NoneAssumption == None \notin Transaction

TypeOK ==
    /\ objects \subseteq Objects
    /\ index \in [Workspaces -> SUBSET Objects]
    /\ version \in [Workspaces -> 0..MaxVersion]
    /\ commits \in Seq(Commit) /\ Len(commits) \in 1..MaxCommits
    /\ refs \in [Branches -> CommitId]
    /\ head \in [Workspaces -> Heads]
    /\ txn \in [Workspaces -> Transaction \cup {None}]
    /\ proc \in [Processes -> Process]
    /\ refused \in BOOLEAN
    /\ crashes \in 0..MaxCrashes

Idle(w) == [cmd |-> "none", pc |-> "idle", ws |-> w, locks |-> {}, seen |-> 0,
            base |-> {}, data |-> {}]

(* A repository after its first Commit: `workspace create --branch` made   *)
(* the other branches, every Index is clean.                               *)
Init ==
    /\ objects = StartObjects
    /\ index = [w \in Workspaces |-> StartObjects]
    /\ version = [w \in Workspaces |-> 0]
    /\ commits = <<[parent |-> None, tree |-> StartObjects]>>
    /\ refs = [b \in Branches |-> 1]
    /\ head = StartHead
    /\ txn = [w \in Workspaces |-> None]
    /\ proc = [p \in Processes |-> Idle(CHOOSE w \in Workspaces : TRUE)]
    /\ refused = FALSE
    /\ crashes = 0

-----------------------------------------------------------------------------
Free(lock) == \A p \in Processes : lock \notin proc[p].locks

(* worktree.lock of w: shared by add, exclusive for checkout and recover.  *)
Readable(w) == \A p \in Processes : proc[p].ws = w => "exclusive" \notin proc[p].locks
Writable(w) == \A p \in Processes :
                   proc[p].ws = w => proc[p].locks \cap {"shared", "exclusive"} = {}

(* ensure_no_unfinished_transactions looks at the caller's own workspace.  *)
Settled(w) == txn[w] = None

Resolve(h) == IF h \in Branches THEN refs[h] ELSE h
Tree(c) == commits[c].tree

(* ensure_branch_available, and the unique index behind it: no workspace   *)
(* but w is attached to the branch.                                        *)
Available(h, w) == h \in Branches => \A v \in Workspaces \ {w} : head[v] # h

Start(p, cmd, pc, w, locks) ==
    proc' = [proc EXCEPT ![p] = [Idle(w) EXCEPT !.cmd = cmd, !.pc = pc, !.locks = locks,
                                                !.seen = version[w], !.base = index[w]]]
Goto(p, pc) == proc' = [proc EXCEPT ![p].pc = pc]
End(p) == proc' = [proc EXCEPT ![p] = Idle(proc[p].ws)]

At(p, cmds, pc) == proc[p].cmd \in cmds /\ proc[p].pc = pc

(* write_index_if_version: the Index and its revision change together.     *)
WriteIndex(w, files) ==
    /\ version[w] < MaxVersion
    /\ index' = [index EXCEPT ![w] = files]
    /\ version' = [version EXCEPT ![w] = @ + 1]

-----------------------------------------------------------------------------
(* add: the object lock and the shared worktree lock from before the Index *)
(* is read until the end, the write lock only for the final CAS.           *)
AddBegin(p, w, cmd) ==
    /\ proc[p].pc = "idle"
    /\ Free("objects") /\ Readable(w) /\ Settled(w)
    /\ Start(p, cmd, "publish", w, {"objects", "shared"})
    /\ UNCHANGED <<objects, metadata, txn, refused, crashes>>

(* chunk_file publishes (or finds) one object.                             *)
AddObject(p, o) ==
    /\ At(p, {"add", "add_all"}, "publish")
    /\ o \notin proc[p].data
    /\ objects' = objects \cup {o}
    /\ proc' = [proc EXCEPT ![p].data = @ \cup {o}]
    /\ UNCHANGED <<metadata, txn, refused, crashes>>

(* Mutant: the Index read at the start is written back without the CAS.    *)
VersionMatches_Ignored(p) == TRUE

(* The Index is still the one the scan started from.                       *)
VersionMatches(p) == version[proc[p].ws] = proc[p].seen

(* There is something to publish: a file was staged, or --all may drop one. *)
Stages(p) == proc[p].cmd = "add_all" \/ proc[p].data # {}

(* update_index: add --all drops what the scan did not find.               *)
AddIndex(p) ==
    LET w == proc[p].ws IN
    /\ At(p, {"add", "add_all"}, "publish") /\ Stages(p)
    /\ Free("write") /\ Settled(w) /\ VersionMatches(p)
    /\ WriteIndex(w, IF proc[p].cmd = "add" THEN proc[p].base \cup proc[p].data
                                            ELSE proc[p].data)
    /\ End(p)
    /\ UNCHANGED <<objects, commits, refs, head, txn, refused, crashes>>

(* add leaves the Index alone: it returns early with nothing staged, or    *)
(* fails because the write lock is taken or the Index has changed, and     *)
(* what it published stays unreferenced.                                   *)
AddUnpublished(p) ==
    /\ At(p, {"add", "add_all"}, "publish")
    /\ ~Stages(p) \/ ~Free("write") \/ ~VersionMatches(p)
    /\ End(p)
    /\ UNCHANGED <<objects, metadata, txn, refused, crashes>>

-----------------------------------------------------------------------------
(* restore --staged: paths of the Index go back to HEAD's tree, under the  *)
(* write lock alone.                                                       *)
RestoreStaged(w, S) ==
    LET tree == Tree(Resolve(head[w])) IN
    /\ Free("write") /\ Settled(w)
    /\ S \cap (index[w] \cup tree) # {}
    /\ WriteIndex(w, (index[w] \ S) \cup (tree \cap S))
    /\ UNCHANGED <<objects, commits, refs, head, txn, proc, refused, crashes>>

-----------------------------------------------------------------------------
(* verify_index_manifest.                                                  *)
PayloadVerified(w) == index[w] \subseteq objects

(* create_commit: everything happens under the write lock.                 *)
CommitBegin(p, w) ==
    /\ proc[p].pc = "idle"
    /\ Free("write") /\ Settled(w)
    /\ PayloadVerified(w)
    /\ index[w] # Tree(Resolve(head[w]))
    /\ Start(p, "commit", "store", w, {"write"})
    /\ UNCHANGED <<objects, metadata, txn, refused, crashes>>

(* persist_engine_graph: Directories and the Commit first, HEAD last.      *)
CommitStore(p) ==
    /\ At(p, {"commit"}, "store")
    /\ Len(commits) < MaxCommits
    /\ commits' = Append(commits, [parent |-> Resolve(head[proc[p].ws]), tree |-> proc[p].base])
    /\ Goto(p, "advance")
    /\ UNCHANGED <<objects, index, version, refs, head, txn, refused, crashes>>

(* Mutant: a Commit on a detached HEAD moves a branch as well, unchecked.  *)
AdvanceHead_MovesBranch(p) ==
    LET w == proc[p].ws
        id == Len(commits) IN
    /\ At(p, {"commit"}, "advance")
    /\ \E b \in Branches :
          /\ head[w] \in Branches => b = head[w]
          /\ refs' = [refs EXCEPT ![b] = id]
          /\ head' = [head EXCEPT ![w] = b]
    /\ End(p)
    /\ UNCHANGED <<objects, index, version, commits, txn, refused, crashes>>

(* advance_head: the CAS of the branch, or of a detached HEAD.  Under the  *)
(* write lock nobody moves either, so the CAS never fails here.            *)
AdvanceHead(p) ==
    LET w == proc[p].ws
        id == Len(commits) IN
    /\ At(p, {"commit"}, "advance")
    /\ \/ /\ head[w] \in Branches
          /\ refs[head[w]] = commits[id].parent
          /\ refs' = [refs EXCEPT ![head[w]] = id]
          /\ UNCHANGED head
       \/ /\ head[w] = commits[id].parent
          /\ head' = [head EXCEPT ![w] = id]
          /\ UNCHANGED refs
    /\ End(p)
    /\ UNCHANGED <<objects, index, version, commits, txn, refused, crashes>>

-----------------------------------------------------------------------------
(* Mutant: no Index is marked.                                             *)
Referenced_NoIndex(w) == UNION {Tree(c) : c \in 1..Len(commits)}

(* Mutant: Commits are not marked.                                         *)
Referenced_NoCommits(w) == UNION {index[v] : v \in Workspaces}

(* mark_referenced_chunks: every Index and every stored Commit, reachable  *)
(* from a branch or not.                                                   *)
Referenced(w) == (UNION {index[v] : v \in Workspaces}) \cup (UNION {Tree(c) : c \in 1..Len(commits)})

(* gc: the object and the write lock for mark and sweep.                   *)
GcBegin(p, w) ==
    /\ proc[p].pc = "idle"
    /\ Free("objects") /\ Free("write") /\ Settled(w)
    /\ proc' = [proc EXCEPT ![p] = [Idle(w) EXCEPT !.cmd = "gc", !.pc = "sweep",
                                    !.locks = {"objects", "write"}, !.data = Referenced(w)]]
    /\ UNCHANGED <<objects, metadata, txn, refused, crashes>>

GcSweep(p, o) ==
    /\ At(p, {"gc"}, "sweep")
    /\ o \in objects \ proc[p].data
    /\ objects' = objects \ {o}
    /\ UNCHANGED <<metadata, txn, proc, refused, crashes>>

GcEnd(p) ==
    /\ At(p, {"gc"}, "sweep")
    /\ objects \subseteq proc[p].data
    /\ End(p)
    /\ UNCHANGED <<objects, metadata, txn, refused, crashes>>

-----------------------------------------------------------------------------
(* Mutant: the journal records HEAD but not the Commit it names.           *)
NewTransaction_NoCommit(w, h) ==
    [before |-> index[w], headBefore |-> head[w], commitBefore |-> None,
     headAfter |-> h, target |-> Resolve(h)]

(* CheckoutTransaction::create.                                            *)
NewTransaction(w, h) ==
    [before |-> index[w], headBefore |-> head[w], commitBefore |-> Resolve(head[w]),
     headAfter |-> h, target |-> Resolve(h)]

(* checkout: worktree and write lock, the journal published before         *)
(* anything changes.  prepare_file_caches reads the payload of the files   *)
(* the plan writes; any part of the target's tree may be that, since the   *)
(* worktree is not modelled here, so the whole of it is asked for.         *)
(* CommitsBacked says it is always there.  A HEAD without a Commit, which  *)
(* checkout refuses, does not occur after Init.                            *)
CheckoutBegin(p, w, h, force) ==
    /\ proc[p].pc = "idle"
    /\ Writable(w) /\ Free("write") /\ Settled(w)
    /\ force \/ index[w] = Tree(Resolve(head[w]))
    /\ h \in Branches \cup 1..Len(commits)
    /\ Available(h, w)
    /\ Tree(Resolve(h)) \subseteq objects
    /\ txn' = [txn EXCEPT ![w] = NewTransaction(w, h)]
    /\ Start(p, "checkout", "index", w, {"exclusive", "write"})
    /\ UNCHANGED <<objects, metadata, refused, crashes>>

(* publish_checkout_authority, the Index.                                  *)
CheckoutIndex(p) ==
    LET w == proc[p].ws IN
    /\ At(p, {"checkout", "recover"}, "index")
    /\ WriteIndex(w, Tree(txn[w].target))
    /\ Goto(p, "head")
    /\ UNCHANGED <<objects, commits, refs, head, txn, refused, crashes>>

(* Mutant: a HEAD that has already moved is an error.                      *)
HeadMoves_NotIdempotent(w, from, to) == head[w] = from /\ Available(to, w)

(* transition_head succeeds: HEAD is there already, or is where the        *)
(* journal says and the branch is free.                                    *)
HeadMoves(w, from, to) == head[w] = to \/ (head[w] = from /\ Available(to, w))

(* publish_head: both HEADs must still resolve as journaled; otherwise the *)
(* transaction is preserved.                                               *)
CheckoutHead(p) ==
    LET w == proc[p].ws
        t == txn[w] IN
    /\ At(p, {"checkout", "recover"}, "head")
    /\ IF /\ Resolve(t.headBefore) = t.commitBefore
          /\ Resolve(t.headAfter) = t.target
          /\ HeadMoves(w, t.headBefore, t.headAfter)
       THEN /\ head' = [head EXCEPT ![w] = t.headAfter]
            /\ Goto(p, "finish")
       ELSE End(p) /\ UNCHANGED head
    /\ UNCHANGED <<objects, index, version, commits, refs, txn, refused, crashes>>

CheckoutFinish(p) ==
    /\ At(p, {"checkout", "recover"}, "finish")
    /\ txn' = [txn EXCEPT ![proc[p].ws] = None]
    /\ End(p)
    /\ UNCHANGED <<objects, metadata, refused, crashes>>

(* A checkout, or the replay of one, that fails while it changes the       *)
(* worktree rolls back (rollback_checkout_error).                          *)
CheckoutFail(p) ==
    /\ At(p, {"checkout", "recover"}, "index")
    /\ proc' = [proc EXCEPT ![p].cmd = "abort", ![p].pc = "rb_head"]
    /\ UNCHANGED <<objects, metadata, txn, refused, crashes>>

-----------------------------------------------------------------------------
(* recover [--abort]: completing needs the target's payload first.         *)
Recover(p, w, cmd) ==
    /\ proc[p].pc = "idle"
    /\ Writable(w) /\ Free("write") /\ ~Settled(w)
    /\ cmd = "abort" \/ Tree(txn[w].target) \subseteq objects
    /\ Start(p, cmd, "rb_head", w, {"exclusive", "write"})
    /\ UNCHANGED <<objects, metadata, txn, refused, crashes>>

(* rollback: HEAD goes back, and must then name the Commit of the start.   *)
RollbackHead(p) ==
    LET w == proc[p].ws
        t == txn[w] IN
    /\ At(p, {"recover", "abort"}, "rb_head")
    /\ IF HeadMoves(w, t.headAfter, t.headBefore)
       THEN head' = [head EXCEPT ![w] = t.headBefore] ELSE UNCHANGED head
    /\ IF HeadMoves(w, t.headAfter, t.headBefore) /\ Resolve(t.headBefore) = t.commitBefore
       THEN Goto(p, "rb_index") /\ UNCHANGED refused
       ELSE End(p) /\ refused' = TRUE
    /\ UNCHANGED <<objects, index, version, commits, refs, txn, crashes>>

(* The Index goes back; --abort then ends, recover replays the checkout.   *)
RollbackIndex(p) ==
    LET w == proc[p].ws IN
    /\ At(p, {"recover", "abort"}, "rb_index")
    /\ WriteIndex(w, txn[w].before)
    /\ \/ proc[p].cmd = "abort" /\ End(p) /\ txn' = [txn EXCEPT ![w] = None]
       \/ proc[p].cmd = "recover" /\ Goto(p, "index") /\ UNCHANGED txn
    /\ UNCHANGED <<objects, commits, refs, head, refused, crashes>>

Crash(p) ==
    /\ proc[p].pc # "idle"
    /\ crashes < MaxCrashes
    /\ crashes' = crashes + 1
    /\ End(p)
    /\ UNCHANGED <<objects, metadata, txn, refused>>

-----------------------------------------------------------------------------
Next ==
    \/ \E w \in Workspaces, S \in SUBSET Objects : RestoreStaged(w, S)
    \/ \E p \in Processes :
        \/ \E w \in Workspaces :
             \/ \E cmd \in {"add", "add_all"} : AddBegin(p, w, cmd)
             \/ CommitBegin(p, w)
             \/ GcBegin(p, w)
             \/ \E h \in Heads, force \in BOOLEAN : CheckoutBegin(p, w, h, force)
             \/ \E cmd \in {"recover", "abort"} : Recover(p, w, cmd)
        \/ \E o \in Objects : AddObject(p, o) \/ GcSweep(p, o)
        \/ AddIndex(p) \/ AddUnpublished(p) \/ CommitStore(p) \/ AdvanceHead(p) \/ GcEnd(p)
        \/ CheckoutIndex(p) \/ CheckoutHead(p) \/ CheckoutFinish(p) \/ CheckoutFail(p)
        \/ RollbackHead(p) \/ RollbackIndex(p) \/ Crash(p)

Spec == Init /\ [][Next]_vars

-----------------------------------------------------------------------------
(* Properties.                                                             *)

(* Every Commit can be materialised: gc never removes an object a Commit   *)
(* refers to, and a Commit is stored only after its payload was verified   *)
(* (app/gc.rs, build_commit_graph).                                        *)
CommitsBacked == \A c \in 1..Len(commits) : Tree(c) \subseteq objects

(* Every Index refers to stored objects only: gc and a concurrent add      *)
(* never leave an Index whose content is gone.                             *)
IndexBacked == \A w \in Workspaces : index[w] \subseteq objects

(* A branch only ever moves from a Commit to its child: no interleaving of *)
(* commit, checkout and recovery loses history (advance_head).             *)
BranchesGrow ==
    [][\A b \in Branches : refs'[b] # refs[b] => commits'[refs'[b]].parent = refs[b]]_vars

(* add extends the Index as it is when the CAS happens: a restore --staged *)
(* or another add since the scan began is never undone (update_index).     *)
AddKeepsOthersWork ==
    [][\A p \in Processes : proc[p].cmd = "add" /\ version'[proc[p].ws] # version[proc[p].ws]
            /\ proc'[p].pc = "idle"
          => index'[proc[p].ws] = index[proc[p].ws] \cup proc[p].data]_vars

(* Rolling a checkout back is never refused because of what HEAD or the    *)
(* branch has become since (CheckoutTransaction::rollback).                *)
RecoveryNotRefused == ~refused
=============================================================================

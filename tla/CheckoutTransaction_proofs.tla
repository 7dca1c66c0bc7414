--------------------- MODULE CheckoutTransaction_proofs ---------------------
(***************************************************************************)
(* checkout and its recovery, for any tree of paths, any pair of Commits   *)
(* and any number of crashes, edits and failing writes.                    *)
(*                                                                         *)
(* The journal is what the argument runs along.  Pending is the number of  *)
(* its changes a rollback has still to undo (all of them, while none is    *)
(* under way, however often one was interrupted): every file in the backup *)
(* lies at or below the path of a pending change (BackupInv), and, as long *)
(* as the user changes nothing, every original file is in the worktree or  *)
(* in the backup and every other file is one a pending change published    *)
(* (FileInv), every directory is an original or a journaled one (DirInv).  *)
(* A second layer, XInv, makes the rollback exact and apply complete: with *)
(* it checkout implements AtomicChange.                                    *)
(***************************************************************************)
EXTENDS CheckoutTransaction, NaturalsInduction, WellFoundedInduction, TLAPS

Applying == {"op", "parents", "intent", "rename", "publish_file"}
Undoing == {"rb_head", "rb_change", "rb_check", "rb_unlink", "rb_restore"}
Undone == {"rb_dirs", "rb_index", "rb_phase", "replay"}

RolledBack == pc = "finish" /\ phase = "rolled_back"

Pending == IF pc \in Undoing THEN todo
           ELSE IF pc \in Undone \/ RolledBack THEN 0
           ELSE Len(changes)

(* The three trees are trees.                                              *)
TreeInv == WellFormed(node) /\ WellFormed(backup) /\ WellFormed(before)

(* What Index, HEAD and the transaction are at each control point.         *)
AuthorityInv ==
    /\ pc \in {"preflight", "publish", "apply", "index", "rb_phase", "replay", "reset", "restage"}
              \cup Applying => index = "before" /\ head = "before"
    /\ pc \in {"index_phase", "head"} => index = "target" /\ head = "before"
    /\ pc = "head_phase" => index = "target" /\ head = "after"
    /\ pc \in {"rb_change", "rb_check", "rb_unlink", "rb_restore", "rb_dirs", "rb_index"}
        => head = "before"
    /\ pc = "finish" => IF phase = "rolled_back" THEN index = "before" /\ head = "before"
                                                 ELSE index = "target" /\ head = "after"
    /\ pc # "idle" => txn # "none"
    /\ pc \notin {"idle", "preflight", "publish"} => txn = "formal"
    /\ AuthorityFollowsWorktree

(* Where a command stands in its plan and in its journal.                  *)
PlanInv ==
    /\ pc \notin Undoing => todo = 0
    /\ pc \in {"rb_check", "rb_unlink", "rb_restore"} => todo > 0
    /\ pc \in {"parents", "intent", "rename", "publish_file"} => ops # NoOps
    /\ pc = "parents" => Kind = "write"
    /\ pc \in {"reset", "restage", "preflight", "publish", "apply"} => changes = <<>>
    /\ pc = "rename" => /\ changes # <<>>
                        /\ changes[Len(changes)].path = Cur

(* No path is journaled twice, and what the backup holds is journaled.     *)
BackupInv ==
    /\ \A j, k \in 1..Len(changes) : changes[j].path = changes[k].path => j = k
    /\ \A q \in Path : IsFile(backup, q) =>
        \E k \in 1..Len(changes) : k <= Pending /\ q \in Subtree(changes[k].path)
    /\ txn # "formal" => backup = Nothing
    /\ pc \in {"restage", "preflight", "publish", "apply"} \cup Applying /\ changes = <<>>
        => backup = Nothing
    /\ pc \in Applying => \A k \in 1..Len(changes) :
        changes[k].present => \/ backup[changes[k].path] # Absent
                              \/ pc = "rename" /\ k = Len(changes)

(* Without --force, only content the two Commits know is backed up or      *)
(* unlinked.                                                               *)
Excused(t, p) == t[p] \in Known(p) \/ p \in raced
UnforcedInv ==
    /\ pc = "rb_unlink" => Excused(node, Change.path)
    /\ ~force =>
        /\ pc \in {"publish", "apply"} \cup Applying => ops.displace = {}
        /\ pc \in {"parents", "intent", "rename"} => \A q \in Subtree(Cur) : Excused(node, q)
        /\ \A p \in Path : IsFile(backup, p) => Excused(backup, p)

(* While the user changes nothing: what is still to be written differs     *)
(* from the original and is still staged, and what is expected was not     *)
(* there.                                                                  *)
Quiet == touched = {} /\ txn # "none"
Ready == {"publish", "apply"} \cup Applying
WriteInv == Quiet =>
    /\ pc \in Ready => \A p \in ops.write :
        p \in staged /\ Target[p] # Absent /\ before[p] # Target[p]
    /\ \A k \in 1..Len(changes) : changes[k].expected =>
        before[changes[k].path] # Target[changes[k].path] /\ Target[changes[k].path] # Absent
    /\ pc \in Applying /\ Kind # "write" =>
        \A k \in 1..Len(changes) : ~changes[k].expected
    /\ pc \in {"rename", "publish_file"} /\ Kind = "write" =>
        \E k \in 1..Len(changes) : changes[k].path = Cur /\ changes[k].expected
    /\ pc = "rb_unlink" /\ Change.expected => node[Change.path] = Target[Change.path]

(* ... every original file is somewhere, the backup holds only original    *)
(* files, and any other file is the output of a pending change.            *)
Output(k, q) == /\ changes[k].path = q /\ changes[k].expected
                /\ q \notin staged
                /\ node[q] = Target[q]
                /\ changes[k].present => backup[q] # Absent
FileInv == Quiet => \A q \in Path :
    /\ IsFile(before, q) => node[q] = before[q] \/ backup[q] = before[q]
    /\ IsFile(backup, q) => backup[q] = before[q]
    /\ IsFile(node, q) /\ node[q] # before[q] =>
        \E k \in 1..Len(changes) : k <= Pending /\ Output(k, q)

(* ... every directory is an original or a journaled one.                  *)
Owned(q) == before[q] = Dir \/ q \in made
OwnedAbove(p) == \A a \in Ancestors(p) : Owned(a)
DirInv == Quiet =>
    /\ \A q \in Path : node[q] = Dir => Owned(q)
    /\ changes # <<>> => \A q \in Path : backup[q] = Dir => Owned(q)
    /\ \A d \in made : OwnedAbove(d)
    /\ \A k \in 1..Len(changes) : OwnedAbove(changes[k].path)
    /\ pc \in Ready => \A d \in ops.displace : OwnedAbove(d)
    /\ pc \in {"intent", "rename"} => OwnedAbove(Cur)
    /\ pc \in {"rb_index", "rb_phase", "replay", "reset", "restage", "preflight", "publish", "apply"}
       \/ RolledBack => \A q \in Path : node[q] = Dir => before[q] = Dir

IInv == /\ TypeOK /\ TreeInv /\ AuthorityInv /\ PlanInv /\ BackupInv /\ UnforcedInv
        /\ WriteInv /\ FileInv /\ DirInv

-----------------------------------------------------------------------------
(* Paths and trees.                                                        *)

(* What makes a a proper ancestor of p.                                    *)
LEMMA AboveDef ==
  ASSUME NEW p \in Path, NEW a
  PROVE  a \in Ancestors(p) <=>
            /\ a \in Path
            /\ \A S \in SUBSET Path :
                Parent[p] \in S \cup {0} /\ (\A q \in S : Parent[q] \in S \cup {0}) => a \in S
  BY DEF Ancestors, Above

LEMMA AncestorsArePaths ==
  ASSUME NEW p \in Path, NEW a \in Ancestors(p)
  PROVE  a \in Path
  BY AboveDef

(* The parent is an ancestor.                                              *)
LEMMA ParentAbove ==
  ASSUME NEW p \in Path, Parent[p] # 0
  PROVE  Parent[p] \in Ancestors(p)
  <1>1. Parent[p] \in Path
    BY ConstantsAssumption DEF ConstantsAssumption, Path
  <1>. QED BY <1>1, AboveDef

(* The ancestors of an ancestor are ancestors.                             *)
LEMMA AboveTransitive ==
  ASSUME NEW p \in Path, NEW a \in Ancestors(p), NEW b \in Ancestors(a)
  PROVE  b \in Ancestors(p)
  <1>1. a \in Path /\ b \in Path
    BY AncestorsArePaths
  <1>2. ASSUME NEW S \in SUBSET Path, Parent[p] \in S \cup {0},
               \A q \in S : Parent[q] \in S \cup {0}
        PROVE  b \in S
    <2>1. a \in S
      BY <1>2, AboveDef
    <2>. QED BY <1>2, AboveDef
  <1>. QED BY AboveDef

(* An ancestor comes before the path.                                      *)
LEMMA AboveIsLess ==
  ASSUME NEW p \in Path, NEW a \in Ancestors(p)
  PROVE  a < p
  <1>. DEFINE S == {q \in Path : q < p}
  <1>1. Parent[p] \in S \cup {0}
    BY ConstantsAssumption DEF ConstantsAssumption, Path
  <1>2. \A q \in S : Parent[q] \in S \cup {0}
    BY ConstantsAssumption DEF ConstantsAssumption, Path
  <1>3. S \in SUBSET Path
    OBVIOUS
  <1>4. a \in S
    <2>. HIDE DEF S
    <2>. QED BY <1>1, <1>2, <1>3, AboveDef
  <1>. QED BY <1>4

(* An ancestor is the parent or an ancestor of the parent.                 *)
LEMMA AboveUnfold ==
  ASSUME NEW p \in Path, NEW a \in Ancestors(p)
  PROVE  Parent[p] \in Path /\ (a = Parent[p] \/ a \in Ancestors(Parent[p]))
  <1>1. Parent[p] \in Path
    <2>1. SUFFICES ASSUME Parent[p] = 0 PROVE FALSE
      BY ConstantsAssumption DEF ConstantsAssumption, Path
    <2>2. a \in {}
      BY <2>1, AboveDef
    <2>. QED BY <2>2
  <1>. DEFINE S == {x \in Path : x = Parent[p] \/ x \in Ancestors(Parent[p])}
  <1>2. Parent[p] \in S \cup {0}
    BY <1>1
  <1>3. ASSUME NEW x \in S PROVE Parent[x] \in S \cup {0}
    <2>1. SUFFICES ASSUME Parent[x] # 0 PROVE Parent[x] \in S
      OBVIOUS
    <2>2. Parent[x] \in Ancestors(x) /\ Parent[x] \in Path
      BY <2>1, ParentAbove, AncestorsArePaths
    <2>3. CASE x = Parent[p]
      BY <2>2, <2>3
    <2>4. CASE x \in Ancestors(Parent[p])
      BY <2>2, <2>4, <1>1, AboveTransitive
    <2>. QED BY <2>3, <2>4
  <1>4. S \in SUBSET Path
    OBVIOUS
  <1>5. a \in S
    <2>. HIDE DEF S
    <2>. QED BY <1>2, <1>3, <1>4, AboveDef
  <1>. QED BY <1>1, <1>5

(* Two ancestors of a path are equal or one is above the other.            *)
LEMMA AboveIsChain ==
  ASSUME NEW p \in Path, NEW a \in Ancestors(p), NEW b \in Ancestors(p)
  PROVE  b = a \/ a \in Ancestors(b) \/ b \in Ancestors(a)
  <1>1. a \in Path /\ b \in Path
    BY AncestorsArePaths
  <1>. DEFINE S == {x \in Path : x = a \/ a \in Ancestors(x) \/ x \in Ancestors(a)}
  <1>2. Parent[p] \in S \cup {0}
    BY AboveUnfold
  <1>3. ASSUME NEW x \in S PROVE Parent[x] \in S \cup {0}
    <2>1. SUFFICES ASSUME Parent[x] # 0 PROVE Parent[x] \in S
      OBVIOUS
    <2>2. Parent[x] \in Ancestors(x) /\ Parent[x] \in Path
      BY <2>1, ParentAbove, AncestorsArePaths
    <2>3. CASE x = a
      BY <2>2, <2>3
    <2>4. CASE a \in Ancestors(x)
      BY <2>4, AboveUnfold
    <2>5. CASE x \in Ancestors(a)
      BY <2>2, <2>5, <1>1, AboveTransitive
    <2>. QED BY <2>3, <2>4, <2>5
  <1>4. S \in SUBSET Path
    OBVIOUS
  <1>5. b \in S
    <2>. HIDE DEF S
    <2>. QED BY <1>2, <1>3, <1>4, AboveDef
  <1>. QED BY <1>5

(* The members of a subtree, and how subtrees and ancestors meet.          *)
LEMMA SubtreeFacts ==
  ASSUME NEW p \in Path
  PROVE  /\ \A q : q \in Subtree(p) <=> q \in Path /\ (q = p \/ p \in Ancestors(q))
         /\ p \in Subtree(p)
         /\ \A q \in Path : \A a \in Ancestors(q) : a \in Path /\ a < q
         /\ \A q \in Path : \A a \in Ancestors(q) : a \in Subtree(p) => q \in Subtree(p)
         /\ \A q \in Subtree(p) : \A a \in Ancestors(q) : a \in Subtree(p) \/ a \in Ancestors(p)
         /\ \A a \in Ancestors(p) : a \notin Subtree(p)
         /\ \A q \in Subtree(p) : Subtree(q) \subseteq Subtree(p)
  <1>1. \A q : q \in Subtree(p) <=> q \in Path /\ (q = p \/ p \in Ancestors(q))
    BY DEF Subtree
  <1>2. \A q \in Path : \A a \in Ancestors(q) : a \in Path /\ a < q
    BY AncestorsArePaths, AboveIsLess
  <1>3. ASSUME NEW q \in Path, NEW a \in Ancestors(q), a \in Subtree(p)
        PROVE  q \in Subtree(p)
    BY <1>1, <1>3, AboveTransitive
  <1>4. ASSUME NEW q \in Subtree(p), NEW a \in Ancestors(q)
        PROVE  a \in Subtree(p) \/ a \in Ancestors(p)
    <2>1. CASE q = p
      BY <2>1
    <2>2. CASE p \in Ancestors(q)
      <3>1. q \in Path /\ a \in Path
        BY <1>1, <1>2
      <3>2. a = p \/ p \in Ancestors(a) \/ a \in Ancestors(p)
        BY <2>2, <3>1, AboveIsChain
      <3>. QED BY <3>1, <3>2, <1>1
    <2>. QED BY <1>1, <2>1, <2>2
  <1>5. ASSUME NEW a \in Ancestors(p), a \in Subtree(p) PROVE FALSE
    <2>1. a \in Path /\ a < p
      BY <1>2
    <2>2. a = p \/ p < a
      BY <1>1, <1>2, <1>5
    <2>. QED BY <2>1, <2>2 DEF Path
  <1>6. ASSUME NEW q \in Subtree(p), NEW r \in Subtree(q) PROVE r \in Subtree(p)
    <2>1. q \in Path
      BY <1>1
    <2>2. r \in Path /\ (r = q \/ q \in Ancestors(r))
      BY DEF Subtree
    <2>. QED BY <2>2, <1>3, <1>6
  <1>. QED BY <1>1, <1>2, <1>3, <1>4, <1>5, <1>6

(* A path that is not a directory has nothing below it.                    *)
LEMMA LeafFacts ==
  ASSUME NEW t, WellFormed(t), NEW p \in Path, t[p] # Dir
  PROVE  EmptyAt(t, p) /\ \A q \in Subtree(p) : q # p => t[q] = Absent
  BY SubtreeFacts DEF WellFormed, EmptyAt

(* What stands somewhere stands in directories.                            *)
LEMMA InDirectories ==
  ASSUME NEW t, WellFormed(t), NEW p \in Path, t[p] # Absent
  PROVE  \A a \in Ancestors(p) : t[a] = Dir
  BY DEF WellFormed

(* Changing one path keeps a tree a tree.                                  *)
LEMMA SetIsTree ==
  ASSUME NEW t \in [Path -> Node], WellFormed(t), NEW p \in Path, NEW c \in Node,
         c # Absent => \A a \in Ancestors(p) : t[a] = Dir,
         c = Dir \/ \A q \in Subtree(p) : q # p => t[q] = Absent
  PROVE  [t EXCEPT ![p] = c] \in [Path -> Node] /\ WellFormed([t EXCEPT ![p] = c])
  <1>. DEFINE u == [t EXCEPT ![p] = c]
  <1>1. u \in [Path -> Node] /\ u[p] = c /\ \A q \in Path : q # p => u[q] = t[q]
    OBVIOUS
  <1>2. ASSUME NEW q \in Path, u[q] # Absent, NEW a \in Ancestors(q) PROVE u[a] = Dir
    <2>. HIDE DEF u
    <2>0. a \in Path
      BY AncestorsArePaths
    <2>1. CASE q = p
      <3>1. a # p
        BY <2>1, SubtreeFacts
      <3>. QED BY <2>0, <2>1, <3>1, <1>1, <1>2
    <2>2. CASE q # p /\ a # p
      BY <2>0, <2>2, <1>1, <1>2 DEF WellFormed
    <2>3. CASE q # p /\ a = p
      BY <2>3, <1>1, <1>2, SubtreeFacts
    <2>. QED BY <2>1, <2>2, <2>3
  <1>. QED BY <1>2 DEF WellFormed

(* Moving a path away keeps a tree a tree.                                 *)
LEMMA ClearedFacts ==
  ASSUME NEW t \in [Path -> Node], WellFormed(t), NEW p \in Path
  PROVE  /\ Cleared(t, p) \in [Path -> Node]
         /\ WellFormed(Cleared(t, p))
         /\ \A q \in Path : Cleared(t, p)[q] = IF q \in Subtree(p) THEN Absent ELSE t[q]
  <1>1. \A q \in Path : Cleared(t, p)[q] = IF q \in Subtree(p) THEN Absent ELSE t[q]
    BY DEF Cleared
  <1>2. Cleared(t, p) \in [Path -> Node]
    BY DEF Cleared, Node, MaybeFile
  <1>3. WellFormed(Cleared(t, p))
    BY <1>1, SubtreeFacts DEF WellFormed
  <1>. QED BY <1>1, <1>2, <1>3

(* Creating the missing parents of a path.                                 *)
LEMMA WithParentsFacts ==
  ASSUME NEW t \in [Path -> Node], NEW p \in Path
  PROVE  /\ WithParents(t, p) \in [Path -> Node]
         /\ \A q \in Path : WithParents(t, p)[q] =
                IF q \in Ancestors(p) /\ t[q] = Absent THEN Dir ELSE t[q]
         /\ WellFormed(t) /\ (\A a \in Ancestors(p) : t[a] \in {Dir, Absent})
                => WellFormed(WithParents(t, p))
  <1>1. \A q \in Path : WithParents(t, p)[q] =
            IF q \in Ancestors(p) /\ t[q] = Absent THEN Dir ELSE t[q]
    BY DEF WithParents
  <1>2. WithParents(t, p) \in [Path -> Node]
    BY DEF WithParents, Node
  <1>3. ASSUME WellFormed(t), \A a \in Ancestors(p) : t[a] \in {Dir, Absent},
               NEW q \in Path, WithParents(t, p)[q] # Absent, NEW a \in Ancestors(q)
        PROVE  WithParents(t, p)[a] = Dir
    <2>1. a \in Path
      BY AncestorsArePaths
    <2>2. CASE t[q] # Absent
      BY <1>1, <1>3, <2>1, <2>2, ConstantsAssumption DEF WellFormed, ConstantsAssumption
    <2>3. CASE q \in Ancestors(p)
      BY <1>1, <1>3, <2>1, <2>3, AboveTransitive
    <2>. QED BY <1>1, <1>3, <2>2, <2>3
  <1>. QED BY <1>1, <1>2, <1>3 DEF WellFormed

(* Putting a subtree of one tree into another.                             *)
LEMMA GraftedFacts ==
  ASSUME NEW t \in [Path -> Node], NEW from \in [Path -> Node], NEW p \in Path
  PROVE  /\ Grafted(t, from, p) \in [Path -> Node]
         /\ \A q \in Path : Grafted(t, from, p)[q] = IF q \in Subtree(p) THEN from[q] ELSE t[q]
         /\ WellFormed(t) /\ WellFormed(from) /\ (\A a \in Ancestors(p) : t[a] = Dir)
                => WellFormed(Grafted(t, from, p))
  <1>1. \A q \in Path : Grafted(t, from, p)[q] = IF q \in Subtree(p) THEN from[q] ELSE t[q]
    BY DEF Grafted
  <1>2. Grafted(t, from, p) \in [Path -> Node]
    BY DEF Grafted
  <1>3. ASSUME WellFormed(t), WellFormed(from), \A a \in Ancestors(p) : t[a] = Dir,
               NEW q \in Path, Grafted(t, from, p)[q] # Absent, NEW a \in Ancestors(q)
        PROVE  Grafted(t, from, p)[a] = Dir
    BY <1>1, <1>3, SubtreeFacts DEF WellFormed
  <1>. QED BY <1>1, <1>2, <1>3 DEF WellFormed

(* The backup after a path has been moved into it, its parents created.    *)
LEMMA StoredFacts ==
  ASSUME NEW t \in [Path -> Node], NEW from \in [Path -> Node], NEW p \in Path,
         WellFormed(t), WellFormed(from), from[p] # Absent,
         \A a \in Ancestors(p) : t[a] \in {Dir, Absent}
  PROVE  /\ WithParents(Grafted(t, from, p), p) \in [Path -> Node]
         /\ WellFormed(WithParents(Grafted(t, from, p), p))
         /\ \A q \in Path : WithParents(Grafted(t, from, p), p)[q] =
                IF q \in Subtree(p) THEN from[q]
                ELSE IF q \in Ancestors(p) /\ t[q] = Absent THEN Dir ELSE t[q]
  <1>. DEFINE g == Grafted(t, from, p)
              w == WithParents(g, p)
  <1>1. g \in [Path -> Node] /\ \A q \in Path : g[q] = IF q \in Subtree(p) THEN from[q] ELSE t[q]
    BY GraftedFacts
  <1>. HIDE DEF g
  <1>2. w \in [Path -> Node] /\ \A q \in Path : w[q] = IF q \in Ancestors(p) /\ g[q] = Absent THEN Dir ELSE g[q]
    BY <1>1, WithParentsFacts
  <1>. HIDE DEF w
  <1>3. \A q \in Path : w[q] = IF q \in Subtree(p) THEN from[q]
                ELSE IF q \in Ancestors(p) /\ t[q] = Absent THEN Dir ELSE t[q]
    BY <1>1, <1>2, SubtreeFacts
  <1>4. ASSUME NEW q \in Path, w[q] # Absent, NEW a \in Ancestors(q) PROVE w[a] = Dir
    <2>1. a \in Path
      BY AncestorsArePaths
    <2>2. a \in Ancestors(p) => w[a] = Dir
      BY <1>3, SubtreeFacts
    <2>3. CASE q \in Subtree(p)
      BY <1>3, <1>4, <2>1, <2>2, <2>3, SubtreeFacts DEF WellFormed
    <2>4. CASE q \in Ancestors(p)
      BY <2>2, <2>4, AboveTransitive
    <2>5. CASE q \notin Subtree(p) /\ q \notin Ancestors(p)
      <3>1. t[q] # Absent
        BY <1>3, <1>4, <2>5
      <3>2. t[a] = Dir /\ a \notin Subtree(p)
        BY <3>1, <2>5, SubtreeFacts DEF WellFormed
      <3>. QED BY <3>2, <2>1, <1>3, ConstantsAssumption DEF ConstantsAssumption
    <2>. QED BY <2>3, <2>4, <2>5
  <1>. QED BY <1>2, <1>3, <1>4 DEF WellFormed, g, w

(* A set of paths has a smallest member.                                   *)
LEMMA SmallestFacts ==
  ASSUME NEW T \in SUBSET Path, T # {}
  PROVE  Smallest(T) \in T /\ Smallest(T) \in Path /\ \A q \in T : Smallest(T) <= q
  <1>1. T \subseteq Nat
    BY ConstantsAssumption DEF ConstantsAssumption, Path
  <1>2. IsWellFoundedOn(OpToRel(<, Nat), Nat)
    BY NatLessThanWellFounded
  <1>3. PICK m \in T : \A k \in T : ~(<<k, m>> \in OpToRel(<, Nat))
    BY <1>1, <1>2, WFMin
  <1>4. \A k \in T : ~(k < m)
    BY <1>1, <1>3 DEF OpToRel
  <1>5. \A k \in T : m <= k
    BY <1>1, <1>4
  <1>. QED BY <1>5 DEF Smallest

(* The operation under way.                                                *)
LEMMA CurFacts ==
  ASSUME ops \in Plans, ops # NoOps
  PROVE  /\ Kind \in {"displace", "remove", "write"}
         /\ Cur \in Path
         /\ Kind = "displace" => Cur \in ops.displace
         /\ Kind = "remove" => Cur \in ops.remove
         /\ Kind = "write" => Cur \in ops.write /\ ops.displace = {} /\ ops.remove = {}
  <1>1. ops.displace \in SUBSET Path /\ ops.remove \in SUBSET Path /\ ops.write \in SUBSET Path
    BY DEF Plans
  <1>2. ops = [displace |-> ops.displace, remove |-> ops.remove, write |-> ops.write]
    BY DEF Plans
  <1>3. CASE ops.displace # {}
    <2>1. Kind = "displace"
      BY <1>3 DEF Kind
    <2>2. Cur = Smallest(ops.displace)
      BY <2>1 DEF Cur
    <2>. QED BY <1>1, <1>3, <2>1, <2>2, SmallestFacts
  <1>4. CASE ops.displace = {} /\ ops.remove # {}
    <2>1. Kind = "remove"
      BY <1>4 DEF Kind
    <2>2. Cur = Smallest(ops.remove)
      BY <2>1 DEF Cur
    <2>. QED BY <1>1, <1>4, <2>1, <2>2, SmallestFacts
  <1>5. CASE ops.displace = {} /\ ops.remove = {}
    <2>1. Kind = "write"
      BY <1>5 DEF Kind
    <2>2. Cur = Smallest(ops.write)
      BY <2>1 DEF Cur
    <2>3. ops.write # {}
      BY <1>2, <1>5 DEF NoOps
    <2>. QED BY <1>1, <1>5, <2>1, <2>2, <2>3, SmallestFacts
  <1>. QED BY <1>3, <1>4, <1>5

(* What is left after the operation under way.                             *)
LEMMA NextOpFacts ==
  ASSUME ops \in Plans, ops # NoOps, NextOp
  PROVE  /\ ops' \in Plans
         /\ ops'.displace \subseteq ops.displace
         /\ ops'.write \subseteq ops.write
         /\ Kind = "write" => ops'.write = ops.write \ {Cur}
         /\ Kind' # "write" => Kind # "write"
  <1>1. ops' = [ops EXCEPT ![Kind] = @ \ {Cur}] /\ Kind \in {"displace", "remove", "write"}
    BY CurFacts DEF NextOp
  <1>2. CASE Kind = "displace"
    <2>1. ops' = [ops EXCEPT !.displace = ops.displace \ {Cur}]
      BY <1>1, <1>2
    <2>2. /\ ops' \in Plans /\ ops'.displace = ops.displace \ {Cur}
          /\ ops'.remove = ops.remove /\ ops'.write = ops.write
      BY <2>1 DEF Plans
    <2>. QED BY <1>2, <2>2
  <1>3. CASE Kind = "remove"
    <2>1. ops' = [ops EXCEPT !.remove = ops.remove \ {Cur}]
      BY <1>1, <1>3
    <2>2. /\ ops' \in Plans /\ ops'.displace = ops.displace
          /\ ops'.remove = ops.remove \ {Cur} /\ ops'.write = ops.write
      BY <2>1 DEF Plans
    <2>. QED BY <1>3, <2>2
  <1>4. CASE Kind = "write"
    <2>1. ops' = [ops EXCEPT !.write = ops.write \ {Cur}]
      BY <1>1, <1>4
    <2>2. /\ ops' \in Plans /\ ops'.displace = ops.displace
          /\ ops'.remove = ops.remove /\ ops'.write = ops.write \ {Cur}
      BY <2>1 DEF Plans
    <2>3. Kind' = "write"
      BY <1>4, <2>2, CurFacts DEF Kind
    <2>. QED BY <1>4, <2>2, <2>3
  <1>. QED BY <1>1, <1>2, <1>3, <1>4

(* A command that ends or dies with the transaction where it is.           *)
LEMMA ToIdle ==
  ASSUME IInv, pc' = "idle", todo' = 0, ops' \in Plans, UNCHANGED <<node, authority,
      journal, force, history, case>>, mode' \in {"checkout", "recover", "abort"},
      crashes' \in 0..Cases[case].crashes, edits' \in 0..Cases[case].edits, faults' \in
      0..Cases[case].faults
  PROVE  IInv'
  <1>. USE DEF IInv
  <1>1. /\ node' = node /\ index' = index /\ head' = head /\ txn' = txn
        /\ phase' = phase /\ changes' = changes /\ made' = made /\ staged' = staged
        /\ backup' = backup /\ force' = force /\ before' = before /\ touched' = touched
        /\ raced' = raced /\ case' = case
    BY DEF authority, journal, history
  <1>2. Target' = Target /\ Current' = Current
    BY DEF Target, Current
  <1>3. pc' = "idle" /\ todo' = 0 /\ ops' \in Plans
    OBVIOUS
  <1>4. Len(changes) \in Nat /\ todo \in 0..Len(changes)
    BY DEF TypeOK, Changes
  <1>5. Pending' = Len(changes) /\ Pending <= Len(changes)
    BY <1>1, <1>4 DEF Pending, Undoing, Undone, RolledBack
  <1>6. TypeOK'
    BY <1>1, <1>3 DEF TypeOK, PCs
  <1>7. TreeInv'
    BY <1>1 DEF TreeInv
  <1>8. AuthorityInv'
    BY <1>1, <1>3 DEF AuthorityInv, AuthorityFollowsWorktree, Applying
  <1>9. PlanInv'
    BY <1>1, <1>3 DEF TypeOK, PlanInv, Undoing
  <1>10. BackupInv'
    BY <1>1, <1>3, <1>5 DEF TypeOK, AuthorityInv, PlanInv, BackupInv, Applying, IsFile
  <1>11. UnforcedInv'
    BY <1>1, <1>2, <1>3 DEF TypeOK, UnforcedInv, Excused, Known, Applying, IsFile
  <1>12. WriteInv'
    BY <1>1, <1>2, <1>3 DEF TypeOK, AuthorityInv, PlanInv, WriteInv, Quiet, Ready,
        Applying
  <1>13. FileInv'
    BY <1>1, <1>2, <1>5 DEF TypeOK, AuthorityInv, FileInv, Quiet, Output, IsFile
  <1>14. DirInv'
    BY <1>1, <1>3 DEF TypeOK, AuthorityInv, PlanInv, DirInv, Quiet, Owned, OwnedAbove,
        Ready, Applying, RolledBack
  <1>. QED BY <1>6, <1>7, <1>8, <1>9, <1>10, <1>11, <1>12, <1>13, <1>14

(* A rollback starts with the whole journal to undo.                       *)
LEMMA ToRollback ==
  ASSUME IInv, pc \in Applying \cup {"index", "idle"}, txn = "formal", StartRollback,
      UNCHANGED <<node, authority, journal, force, history, case>>, mode' \in
      {"checkout", "recover", "abort"}, crashes' \in 0..Cases[case].crashes, edits' \in
      0..Cases[case].edits, faults' \in 0..Cases[case].faults
  PROVE  IInv'
  <1>. USE DEF IInv
  <1>1. /\ node' = node /\ index' = index /\ head' = head /\ txn' = txn
        /\ phase' = phase /\ changes' = changes /\ made' = made /\ staged' = staged
        /\ backup' = backup /\ force' = force /\ before' = before /\ touched' = touched
        /\ raced' = raced /\ case' = case
    BY DEF authority, journal, history
  <1>2. Target' = Target /\ Current' = Current
    BY DEF Target, Current
  <1>3. pc' = "rb_head" /\ todo' = Len(changes) /\ ops' = NoOps /\ txn = "formal"
    BY DEF StartRollback
  <1>4. Len(changes) \in Nat
    BY DEF TypeOK, Changes
  <1>5. Pending' = Pending
    BY <1>1, <1>2, <1>3, <1>4 DEF Pending, Undoing, Undone, RolledBack, Applying
  <1>6. TypeOK'
    BY <1>1, <1>3 DEF TypeOK, PCs, Phases, Plans, NoOps
  <1>7. TreeInv'
    BY <1>1 DEF TreeInv
  <1>8. AuthorityInv'
    BY <1>1, <1>3 DEF AuthorityInv, AuthorityFollowsWorktree, Applying
  <1>9. PlanInv'
    BY <1>1, <1>3 DEF TypeOK, PlanInv, Undoing
  <1>10. BackupInv'
    BY <1>1, <1>3, <1>5 DEF TypeOK, AuthorityInv, PlanInv, BackupInv, Applying, IsFile
  <1>11. UnforcedInv'
    BY <1>1, <1>2, <1>3 DEF TypeOK, UnforcedInv, Excused, Known, Applying, IsFile
  <1>12. WriteInv'
    BY <1>1, <1>2, <1>3 DEF TypeOK, AuthorityInv, PlanInv, WriteInv, Quiet, Ready,
        Applying
  <1>13. FileInv'
    BY <1>1, <1>2, <1>3, <1>5 DEF TypeOK, AuthorityInv, FileInv, Quiet, Output, IsFile
  <1>14. DirInv'
    BY <1>1, <1>3 DEF TypeOK, AuthorityInv, PlanInv, DirInv, Quiet, Owned, OwnedAbove,
        Ready, Applying, RolledBack
  <1>. QED BY <1>6, <1>7, <1>8, <1>9, <1>10, <1>11, <1>12, <1>13, <1>14

(* The operation under way is done.                                        *)
LEMMA ToNextOp ==
  ASSUME IInv, pc \in {"op", "intent", "publish_file"}, ops # NoOps, NextOp, UNCHANGED <<node,
      authority, journal, todo, mode, force, history, bounds>>
  PROVE  IInv'
  <1>. USE DEF IInv
  <1>1. /\ node' = node /\ index' = index /\ head' = head /\ txn' = txn
        /\ phase' = phase /\ changes' = changes /\ made' = made /\ staged' = staged
        /\ backup' = backup /\ todo' = todo /\ mode' = mode /\ force' = force
        /\ before' = before /\ touched' = touched /\ raced' = raced /\ case' = case
        /\ crashes' = crashes /\ edits' = edits /\ faults' = faults
    BY DEF authority, journal, history, bounds
  <1>2. Target' = Target /\ Current' = Current
    BY <1>1 DEF Target, Current
  <1>3. Change' = Change
    BY <1>1, <1>2 DEF Change
  <1>4. pc' = "op" /\ pc \in {"op", "intent", "publish_file"}
    BY DEF NextOp
  <1>5. /\ ops' \in Plans
        /\ ops'.displace \subseteq ops.displace /\ ops'.write \subseteq ops.write
        /\ Kind' # "write" => Kind # "write"
    BY NextOpFacts DEF TypeOK
  <1>6. Pending' = Pending
    BY <1>1, <1>2, <1>3, <1>4, <1>5 DEF Pending, Undoing, Undone, RolledBack
  <1>7. TypeOK'
    BY <1>1, <1>4, <1>5 DEF TypeOK, PCs, Phases, Plans, NoOps
  <1>8. TreeInv'
    BY <1>1 DEF TreeInv
  <1>9. AuthorityInv'
    BY <1>1, <1>4 DEF AuthorityInv, AuthorityFollowsWorktree, Applying
  <1>10. PlanInv'
    BY <1>1, <1>4, <1>5 DEF TypeOK, PlanInv, Undoing
  <1>11. BackupInv'
    BY <1>1, <1>4, <1>6 DEF TypeOK, AuthorityInv, PlanInv, BackupInv, Applying, IsFile
  <1>12. UnforcedInv'
    BY <1>1, <1>2, <1>3, <1>4, <1>5 DEF TypeOK, UnforcedInv, Excused, Known, Applying,
        IsFile
  <1>13. WriteInv'
    BY <1>1, <1>2, <1>3, <1>4, <1>5 DEF TypeOK, AuthorityInv, PlanInv, WriteInv, Quiet,
        Ready, Applying
  <1>14. FileInv'
    BY <1>1, <1>2, <1>6 DEF TypeOK, AuthorityInv, FileInv, Quiet, Output, IsFile
  <1>15. DirInv'
    BY <1>1, <1>4, <1>5 DEF TypeOK, AuthorityInv, PlanInv, DirInv, Quiet, Owned,
        OwnedAbove, Ready, Applying, RolledBack
  <1>. QED BY <1>7, <1>8, <1>9, <1>10, <1>11, <1>12, <1>13, <1>14, <1>15

(* A checkout starts with a fresh draft.                                   *)
LEMMA CheckoutStep ==
  ASSUME IInv, NEW f \in BOOLEAN, Checkout(f)
  PROVE  IInv'
  <1>. USE DEF IInv
  <1>1. /\ node' = node /\ index' = index /\ head' = head /\ ops' = ops /\ todo' = todo
        /\ case' = case /\ crashes' = crashes /\ edits' = edits /\ faults' = faults
    BY DEF Checkout, authority, journal, local, history, bounds
  <1>2. Target' = Target /\ Current' = Current
    BY <1>1 DEF Target, Current
  <1>3. Kind' = Kind /\ Cur' = Cur
    BY <1>1, <1>2 DEF Kind, Cur
  <1>4. pc = "idle" /\ index = "before" /\ head = "before"
    BY DEF Checkout
  <1>5. pc' = "preflight" /\ txn' = "draft" /\ phase' = "prepared" /\ mode' = "checkout" /\ force' = f
    BY DEF Checkout
  <1>6. changes' = <<>> /\ made' = {} /\ backup' = Nothing /\ touched' = {} /\ raced' = {}
    BY DEF Checkout
  <1>7. before' = node
    BY DEF Checkout
  <1>8. staged' \in SUBSET Path
    BY DEF Checkout, Writes
  <1>9. Nothing \in [Path -> Node] /\ \A p \in Path : Nothing[p] = Absent
    BY DEF Nothing, Node, MaybeFile
  <1>10. todo = 0 /\ changes' \in Seq(Changes) /\ Len(changes') = 0
    BY <1>1, <1>2, <1>3, <1>4, <1>5, <1>6, <1>7, <1>8, <1>9 DEF PlanInv, Undoing
  <1>11. \A p \in Path : ~IsFile(Nothing, p)
    BY <1>1, <1>2, <1>3, <1>4, <1>5, <1>6, <1>7, <1>8, <1>9, <1>10, ConstantsAssumption
        DEF IsFile, ConstantsAssumption
  <1>12. TypeOK'
    BY <1>1, <1>2, <1>3, <1>4, <1>5, <1>6, <1>7, <1>8, <1>9, <1>10, <1>11 DEF TypeOK,
        PCs, Phases, Plans, NoOps
  <1>13. TreeInv'
    BY <1>1, <1>2, <1>3, <1>4, <1>5, <1>6, <1>7, <1>8, <1>9, <1>10, <1>11 DEF TreeInv,
        WellFormed
  <1>14. AuthorityInv'
    BY <1>1, <1>4, <1>5 DEF AuthorityInv, AuthorityFollowsWorktree, Applying
  <1>15. PlanInv'
    BY <1>1, <1>3, <1>4, <1>5, <1>6, <1>10 DEF TypeOK, PlanInv, Undoing
  <1>16. BackupInv'
    BY <1>1, <1>2, <1>3, <1>4, <1>5, <1>6, <1>7, <1>8, <1>9, <1>10, <1>11 DEF TypeOK,
        AuthorityInv, PlanInv, BackupInv, Applying, IsFile
  <1>17. UnforcedInv'
    BY <1>1, <1>2, <1>3, <1>4, <1>5, <1>6, <1>7, <1>8, <1>9, <1>10, <1>11 DEF TypeOK,
        UnforcedInv, Excused, Known, Applying, IsFile
  <1>18. WriteInv'
    BY <1>1, <1>2, <1>3, <1>4, <1>5, <1>6, <1>7, <1>8, <1>10 DEF TypeOK, AuthorityInv,
        PlanInv, WriteInv, Quiet, Ready, Applying
  <1>19. FileInv'
    BY <1>1, <1>2, <1>3, <1>4, <1>5, <1>6, <1>7, <1>8, <1>9, <1>10, <1>11 DEF TypeOK,
        AuthorityInv, FileInv, Quiet, Output, IsFile
  <1>20. DirInv'
    BY <1>1, <1>3, <1>4, <1>5, <1>6, <1>7, <1>10 DEF TypeOK, AuthorityInv, PlanInv,
        DirInv, Quiet, Owned, OwnedAbove, Ready, Applying, RolledBack
  <1>. QED BY <1>12, <1>13, <1>14, <1>15, <1>16, <1>17, <1>18, <1>19, <1>20

(* The second preflight plans the operations.                              *)
LEMMA PreflightStep ==
  ASSUME IInv, Preflight, PreflightOK(force), Writes(force) \subseteq staged
  PROVE  IInv'
  <1>. USE DEF IInv
  <1>1. /\ node' = node /\ index' = index /\ head' = head /\ txn' = txn
        /\ phase' = phase /\ changes' = changes /\ made' = made /\ staged' = staged
        /\ backup' = backup /\ todo' = todo /\ mode' = mode /\ force' = force
        /\ before' = before /\ touched' = touched /\ raced' = raced /\ case' = case
        /\ crashes' = crashes /\ edits' = edits /\ faults' = faults
    BY DEF Preflight, authority, journal, local, history, bounds
  <1>2. Target' = Target /\ Current' = Current
    BY <1>1 DEF Target, Current
  <1>3. Change' = Change
    BY <1>1, <1>2 DEF Change
  <1>4. pc = "preflight" /\ pc' = "publish"
    BY DEF Preflight
  <1>5. ops' = [displace |-> Displacements(force), remove |-> Removals(force), write |-> Writes(force)]
    BY DEF Preflight
  <1>6. Displacements(force) \subseteq Path /\ Removals(force) \subseteq Path /\ Writes(force) \subseteq Path
    BY AncestorsArePaths DEF Displacements, Blockers, Removals, Writes
  <1>7. ops'.displace = Displacements(force) /\ ops'.write = Writes(force) /\ ops' \in Plans
    BY <1>1, <1>5, <1>6 DEF Plans
  <1>8. changes = <<>> /\ \A p \in Path : ~IsFile(backup, p)
    BY <1>1, <1>2, <1>3, <1>4, <1>5, <1>6, <1>7 DEF PlanInv, BackupInv
  <1>9. Writes(force) \subseteq staged
    OBVIOUS
  <1>10. \A p \in Writes(force) : Target[p] \in Contents /\ node[p] # Target[p]
    <2>. SUFFICES ASSUME NEW p \in Writes(force) PROVE Target[p] \in Contents /\ node[p] # Target[p]
      OBVIOUS
    <2>1. p \in Path /\ Target[p] # Absent
      BY DEF Writes
    <2>2. Target[p] \in Contents
      BY <2>1, ConstantsAssumption DEF ConstantsAssumption, Target, TypeOK, MaybeFile
    <2>3. SUFFICES ASSUME force, Blockers(p) # {} PROVE node[p] # Target[p]
      BY <2>2 DEF Writes
    <2>4. CASE node[p] = Dir
      BY <2>2, <2>4, ConstantsAssumption DEF ConstantsAssumption
    <2>5. CASE \E a \in Ancestors(p) : IsFile(node, a)
      <3>1. node[p] = Absent
        BY <2>1, <2>5, ConstantsAssumption DEF ConstantsAssumption, TreeInv, WellFormed, IsFile
      <3>. QED BY <3>1, <2>1
    <2>. QED BY <2>3, <2>4, <2>5 DEF Blockers
  <1>11. Pending' = Pending
    BY <1>1, <1>2, <1>3, <1>4, <1>5, <1>6, <1>7, <1>8, <1>9, <1>10 DEF Pending, Undoing,
        Undone, RolledBack, TypeOK, PlanInv
  <1>12. TypeOK'
    BY <1>1, <1>4, <1>5, <1>7 DEF TypeOK, PCs, Phases, Plans, NoOps
  <1>13. TreeInv'
    BY <1>1 DEF TreeInv
  <1>14. AuthorityInv'
    BY <1>1, <1>4 DEF AuthorityInv, AuthorityFollowsWorktree, Applying
  <1>15. PlanInv'
    BY <1>1, <1>4, <1>5, <1>7 DEF TypeOK, PlanInv, Undoing
  <1>16. BackupInv'
    BY <1>1, <1>4, <1>11 DEF TypeOK, AuthorityInv, PlanInv, BackupInv, Applying, IsFile
  <1>17. UnforcedInv'
    BY <1>1, <1>2, <1>3, <1>4, <1>5, <1>7 DEF TypeOK, UnforcedInv, Excused, Known,
        Applying, IsFile, Displacements
  <1>18. WriteInv'
    <2>1. ASSUME Quiet, NEW p \in Writes(force) PROVE before[p] # Target[p]
      BY <1>1, <1>2, <1>3, <1>4, <1>5, <1>6, <1>7, <1>8, <1>9, <1>10, <1>11, <2>1 DEF FileInv, IsFile
    <2>2. \A p \in Writes(force) : Target[p] # Absent
      BY DEF Writes
    <2>. QED BY <1>1, <1>2, <1>3, <1>4, <1>5, <1>6, <1>7, <1>8, <1>9, <1>10, <1>11, <2>1, <2>2 DEF TypeOK, AuthorityInv, PlanInv, WriteInv, Quiet, Ready, Applying
  <1>19. FileInv'
    BY <1>1, <1>2, <1>11 DEF TypeOK, AuthorityInv, FileInv, Quiet, Output, IsFile
  <1>20. DirInv'
    <2>1. ASSUME Quiet, NEW d \in Displacements(force) PROVE OwnedAbove(d)
      <3>1. d \in Path /\ node[d] # Absent
        BY <1>1, <1>2, <1>3, <1>4, <1>5, <1>6, <1>7, <1>8, <1>9, <1>10, <1>11, ConstantsAssumption DEF ConstantsAssumption, Displacements, Blockers, IsFile
      <3>2. \A a \in Ancestors(d) : a \in Path /\ node[a] = Dir
        BY <3>1, AncestorsArePaths DEF TreeInv, WellFormed
      <3>. QED BY <2>1, <3>2 DEF DirInv, OwnedAbove
    <2>. QED BY <1>1, <1>2, <1>3, <1>4, <1>5, <1>6, <1>7, <1>8, <1>9, <1>10, <1>11, <2>1 DEF TypeOK, AuthorityInv, PlanInv, DirInv, Quiet, Owned, OwnedAbove, Ready, Applying, RolledBack
  <1>. QED BY <1>12, <1>13, <1>14, <1>15, <1>16, <1>17, <1>18, <1>19, <1>20

(* The draft becomes the transaction.                                      *)
LEMMA PublishStep ==
  ASSUME IInv, Publish
  PROVE  IInv'
  <1>. USE DEF IInv
  <1>1. /\ node' = node /\ index' = index /\ head' = head /\ phase' = phase
        /\ changes' = changes /\ made' = made /\ staged' = staged /\ backup' = backup
        /\ ops' = ops /\ todo' = todo /\ mode' = mode /\ force' = force
        /\ before' = before /\ touched' = touched /\ raced' = raced /\ case' = case
        /\ crashes' = crashes /\ edits' = edits /\ faults' = faults
    BY DEF Publish, authority, journal, local, history, bounds
  <1>2. Target' = Target /\ Current' = Current
    BY <1>1 DEF Target, Current
  <1>3. Kind' = Kind /\ Cur' = Cur
    BY <1>1, <1>2 DEF Kind, Cur
  <1>4. Change' = Change
    BY <1>1, <1>2, <1>3 DEF Change
  <1>5. pc = "publish" /\ pc' = "apply" /\ txn' = "formal"
    BY DEF Publish
  <1>6. Pending' = Pending
    BY <1>1, <1>2, <1>3, <1>4, <1>5 DEF Pending, Undoing, Undone, RolledBack, TypeOK,
        PlanInv
  <1>7. TypeOK'
    BY <1>1, <1>5 DEF TypeOK, PCs, Phases, Plans, NoOps
  <1>8. TreeInv'
    BY <1>1 DEF TreeInv
  <1>9. AuthorityInv'
    BY <1>1, <1>5 DEF AuthorityInv, AuthorityFollowsWorktree, Applying
  <1>10. PlanInv'
    BY <1>1, <1>3, <1>5 DEF TypeOK, PlanInv, Undoing
  <1>11. BackupInv'
    BY <1>1, <1>5, <1>6 DEF TypeOK, AuthorityInv, PlanInv, BackupInv, Applying, IsFile
  <1>12. UnforcedInv'
    BY <1>1, <1>2, <1>3, <1>4, <1>5 DEF TypeOK, UnforcedInv, Excused, Known, Applying,
        IsFile
  <1>13. WriteInv'
    BY <1>1, <1>2, <1>3, <1>4, <1>5 DEF TypeOK, AuthorityInv, PlanInv, WriteInv, Quiet,
        Ready, Applying
  <1>14. FileInv'
    BY <1>1, <1>2, <1>5, <1>6 DEF TypeOK, AuthorityInv, FileInv, Quiet, Output, IsFile
  <1>15. DirInv'
    BY <1>1, <1>3, <1>5 DEF TypeOK, AuthorityInv, PlanInv, DirInv, Quiet, Owned,
        OwnedAbove, Ready, Applying, RolledBack
  <1>. QED BY <1>7, <1>8, <1>9, <1>10, <1>11, <1>12, <1>13, <1>14, <1>15

(* The journal says applying.                                              *)
LEMMA BeginApplyStep ==
  ASSUME IInv, BeginApply
  PROVE  IInv'
  <1>. USE DEF IInv
  <1>1. /\ node' = node /\ index' = index /\ head' = head /\ txn' = txn
        /\ changes' = changes /\ made' = made /\ staged' = staged /\ backup' = backup
        /\ ops' = ops /\ todo' = todo /\ mode' = mode /\ force' = force
        /\ before' = before /\ touched' = touched /\ raced' = raced /\ case' = case
        /\ crashes' = crashes /\ edits' = edits /\ faults' = faults
    BY DEF BeginApply, authority, journal, local, history, bounds
  <1>2. Target' = Target /\ Current' = Current
    BY <1>1 DEF Target, Current
  <1>3. Kind' = Kind /\ Cur' = Cur
    BY <1>1, <1>2 DEF Kind, Cur
  <1>4. Change' = Change
    BY <1>1, <1>2, <1>3 DEF Change
  <1>5. pc = "apply" /\ pc' = "op" /\ phase' = "applying"
    BY DEF BeginApply
  <1>6. Pending' = Pending /\ changes = <<>>
    BY <1>1, <1>2, <1>3, <1>4, <1>5 DEF Pending, Undoing, Undone, RolledBack, TypeOK,
        PlanInv
  <1>7. TypeOK'
    BY <1>1, <1>5 DEF TypeOK, PCs, Phases, Plans, NoOps
  <1>8. TreeInv'
    BY <1>1 DEF TreeInv
  <1>9. AuthorityInv'
    BY <1>1, <1>5 DEF AuthorityInv, AuthorityFollowsWorktree, Applying
  <1>10. PlanInv'
    BY <1>1, <1>3, <1>5 DEF TypeOK, PlanInv, Undoing
  <1>11. BackupInv'
    BY <1>1, <1>5, <1>6 DEF TypeOK, AuthorityInv, PlanInv, BackupInv, Applying, IsFile
  <1>12. UnforcedInv'
    BY <1>1, <1>2, <1>3, <1>4, <1>5 DEF TypeOK, UnforcedInv, Excused, Known, Applying,
        IsFile
  <1>13. WriteInv'
    BY <1>1, <1>2, <1>3, <1>4, <1>5 DEF TypeOK, AuthorityInv, PlanInv, WriteInv, Quiet,
        Ready, Applying
  <1>14. FileInv'
    BY <1>1, <1>2, <1>6 DEF TypeOK, AuthorityInv, FileInv, Quiet, Output, IsFile
  <1>15. DirInv'
    BY <1>1, <1>3, <1>5 DEF TypeOK, AuthorityInv, PlanInv, DirInv, Quiet, Owned,
        OwnedAbove, Ready, Applying, RolledBack
  <1>. QED BY <1>7, <1>8, <1>9, <1>10, <1>11, <1>12, <1>13, <1>14, <1>15

(* All operations are done.                                                *)
LEMMA BeginOpDoneStep ==
  ASSUME IInv, BeginOp, ops = NoOps
  PROVE  IInv'
  <1>. USE DEF IInv
  <1>1. /\ node' = node /\ index' = index /\ head' = head /\ txn' = txn
        /\ changes' = changes /\ made' = made /\ staged' = staged /\ backup' = backup
        /\ ops' = ops /\ todo' = todo /\ mode' = mode /\ force' = force
        /\ before' = before /\ touched' = touched /\ raced' = raced /\ case' = case
        /\ crashes' = crashes /\ edits' = edits /\ faults' = faults
    BY DEF BeginOp, authority, journal, local, history, bounds
  <1>2. Target' = Target /\ Current' = Current
    BY <1>1 DEF Target, Current
  <1>3. Kind' = Kind /\ Cur' = Cur
    BY <1>1, <1>2 DEF Kind, Cur
  <1>4. Change' = Change
    BY <1>1, <1>2, <1>3 DEF Change
  <1>5. pc = "op" /\ pc' = "index" /\ phase' = "workspace_applied"
    BY DEF BeginOp
  <1>6. Pending' = Pending
    BY <1>1, <1>2, <1>3, <1>4, <1>5 DEF Pending, Undoing, Undone, RolledBack, TypeOK,
        PlanInv
  <1>7. TypeOK'
    BY <1>1, <1>5 DEF TypeOK, PCs, Phases, Plans, NoOps
  <1>8. TreeInv'
    BY <1>1 DEF TreeInv
  <1>9. AuthorityInv'
    BY <1>1, <1>5 DEF AuthorityInv, AuthorityFollowsWorktree, Applying
  <1>10. PlanInv'
    BY <1>1, <1>3, <1>5 DEF TypeOK, PlanInv, Undoing
  <1>11. BackupInv'
    BY <1>1, <1>5, <1>6 DEF TypeOK, AuthorityInv, PlanInv, BackupInv, Applying, IsFile
  <1>12. UnforcedInv'
    BY <1>1, <1>2, <1>3, <1>4, <1>5 DEF TypeOK, UnforcedInv, Excused, Known, Applying,
        IsFile
  <1>13. WriteInv'
    BY <1>1, <1>2, <1>3, <1>4, <1>5 DEF TypeOK, AuthorityInv, PlanInv, WriteInv, Quiet,
        Ready, Applying
  <1>14. FileInv'
    BY <1>1, <1>2, <1>6 DEF TypeOK, AuthorityInv, FileInv, Quiet, Output, IsFile
  <1>15. DirInv'
    BY <1>1, <1>3, <1>5 DEF TypeOK, AuthorityInv, PlanInv, DirInv, Quiet, Owned,
        OwnedAbove, Ready, Applying, RolledBack
  <1>. QED BY <1>7, <1>8, <1>9, <1>10, <1>11, <1>12, <1>13, <1>14, <1>15

(* The path of the next operation is what preflight saw.                   *)
LEMMA BeginOpGoStep ==
  ASSUME IInv, pc = "op", ops # NoOps, Unchanged(Kind, Cur), pc' \in {"intent",
      "parents"}, pc' = "parents" <=> Kind = "write", Kind = "remove" => node[Cur] #
      Absent, UNCHANGED <<node, authority, journal, ops, todo, mode, force, history,
      bounds>>
  PROVE  IInv'
  <1>. USE DEF IInv
  <1>1. /\ node' = node /\ index' = index /\ head' = head /\ txn' = txn
        /\ phase' = phase /\ changes' = changes /\ made' = made /\ staged' = staged
        /\ backup' = backup /\ ops' = ops /\ todo' = todo /\ mode' = mode
        /\ force' = force /\ before' = before /\ touched' = touched /\ raced' = raced
        /\ case' = case /\ crashes' = crashes /\ edits' = edits /\ faults' = faults
    BY DEF authority, journal, history, bounds
  <1>2. Target' = Target /\ Current' = Current
    BY <1>1 DEF Target, Current
  <1>3. Kind' = Kind /\ Cur' = Cur
    BY DEF Kind, Cur
  <1>4. Change' = Change
    BY <1>1, <1>2, <1>3 DEF Change
  <1>5. pc = "op" /\ ops # NoOps /\ pc' \in {"intent", "parents"} /\ (pc' = "parents" <=> Kind = "write")
    OBVIOUS
  <1>6. Cur \in Path /\ (Kind = "displace" => Cur \in ops.displace) /\ Kind \in {"displace", "remove", "write"}
    BY <1>5, CurFacts DEF TypeOK
  <1>7. ~force => \A q \in Subtree(Cur) : node[q] \in Known(q)
    <2>. SUFFICES ASSUME ~force, NEW q \in Subtree(Cur) PROVE node[q] \in Known(q)
      OBVIOUS
    <2>1. Kind # "displace"
      BY <1>6 DEF UnforcedInv, Applying
    <2>2. node[Cur] = Current[Cur] \/ node[Cur] = Target[Cur]
      BY <2>1 DEF Unchanged
    <2>3. node[Cur] # Dir
      BY <1>1, <1>3, <1>6, <2>2, ConstantsAssumption DEF ConstantsAssumption, Target,
          Current, TypeOK, MaybeFile
    <2>4. q = Cur \/ node[q] = Absent
      BY <1>1, <1>3, <1>6, <2>3, LeafFacts DEF TreeInv
    <2>. QED BY <2>2, <2>4 DEF Known
  <1>8. Quiet /\ pc' = "intent" => OwnedAbove(Cur)
    <2>. SUFFICES ASSUME Quiet, pc' = "intent" PROVE OwnedAbove(Cur)
      OBVIOUS
    <2>1. CASE Kind = "displace"
      BY <1>3, <1>5, <1>6, <2>1 DEF DirInv, Ready, Applying
    <2>2. CASE Kind = "remove"
      <3>1. \A a \in Ancestors(Cur) : a \in Path /\ node[a] = Dir
        BY <1>1, <1>2, <1>3, <1>4, <1>5, <1>6, <1>7, <2>2, AncestorsArePaths DEF TreeInv, WellFormed
      <3>. QED BY <3>1 DEF DirInv, OwnedAbove
    <2>. QED BY <1>1, <1>2, <1>3, <1>4, <1>5, <1>6, <1>7, <2>1, <2>2
  <1>9. Pending' = Pending
    BY <1>1, <1>2, <1>3, <1>4, <1>5, <1>6, <1>7, <1>8 DEF Pending, Undoing, Undone,
        RolledBack, TypeOK, PlanInv
  <1>10. TypeOK'
    BY <1>1, <1>5, <1>8 DEF TypeOK, PCs, Phases, Plans, NoOps
  <1>11. TreeInv'
    BY <1>1, <1>8 DEF TreeInv
  <1>12. AuthorityInv'
    BY <1>1, <1>5, <1>8 DEF AuthorityInv, AuthorityFollowsWorktree, Applying
  <1>13. PlanInv'
    BY <1>1, <1>3, <1>5, <1>8 DEF TypeOK, PlanInv, Undoing
  <1>14. BackupInv'
    BY <1>1, <1>5, <1>8, <1>9 DEF TypeOK, AuthorityInv, PlanInv, BackupInv, Applying,
        IsFile
  <1>15. UnforcedInv'
    BY <1>1, <1>2, <1>3, <1>4, <1>5, <1>6, <1>7, <1>8 DEF TypeOK, UnforcedInv, Excused,
        Known, Applying, IsFile
  <1>16. WriteInv'
    BY <1>1, <1>2, <1>3, <1>4, <1>5, <1>8 DEF TypeOK, AuthorityInv, PlanInv, WriteInv,
        Quiet, Ready, Applying
  <1>17. FileInv'
    BY <1>1, <1>2, <1>8, <1>9 DEF TypeOK, AuthorityInv, FileInv, Quiet, Output, IsFile
  <1>18. DirInv'
    BY <1>1, <1>3, <1>5, <1>8 DEF TypeOK, AuthorityInv, PlanInv, DirInv, Quiet, Owned,
        OwnedAbove, Ready, Applying, RolledBack
  <1>. QED BY <1>10, <1>11, <1>12, <1>13, <1>14, <1>15, <1>16, <1>17, <1>18

(* All parents are there.                                                  *)
LEMMA ParentsThereStep ==
  ASSUME IInv, EnsureParents, ParentsSafe(Cur), {a \in Ancestors(Cur) : node[a] =
      Absent} = {}
  PROVE  IInv'
  <1>. USE DEF IInv
  <1>1. /\ node' = node /\ index' = index /\ head' = head /\ txn' = txn
        /\ phase' = phase /\ changes' = changes /\ made' = made /\ staged' = staged
        /\ backup' = backup /\ ops' = ops /\ todo' = todo /\ mode' = mode
        /\ force' = force /\ before' = before /\ touched' = touched /\ raced' = raced
        /\ case' = case /\ crashes' = crashes /\ edits' = edits /\ faults' = faults
    BY DEF EnsureParents, authority, journal, history, bounds
  <1>2. Target' = Target /\ Current' = Current
    BY <1>1 DEF Target, Current
  <1>3. Kind' = Kind /\ Cur' = Cur
    BY <1>1, <1>2 DEF Kind, Cur
  <1>4. Change' = Change
    BY <1>1, <1>2, <1>3 DEF Change
  <1>5. pc = "parents" /\ pc' = "intent"
    BY DEF EnsureParents
  <1>6. Kind = "write" /\ ops # NoOps /\ Cur \in Path
    BY <1>5, CurFacts DEF PlanInv, TypeOK
  <1>7. Quiet => OwnedAbove(Cur)
    <2>1. \A a \in Ancestors(Cur) : a \in Path /\ node[a] = Dir
      BY <1>6, AncestorsArePaths DEF ParentsSafe
    <2>. QED BY <2>1 DEF DirInv, OwnedAbove
  <1>8. Pending' = Pending
    BY <1>1, <1>2, <1>3, <1>4, <1>5, <1>6, <1>7 DEF Pending, Undoing, Undone,
        RolledBack, TypeOK, PlanInv
  <1>9. TypeOK'
    BY <1>1, <1>5 DEF TypeOK, PCs, Phases, Plans, NoOps
  <1>10. TreeInv'
    BY <1>1 DEF TreeInv
  <1>11. AuthorityInv'
    BY <1>1, <1>5 DEF AuthorityInv, AuthorityFollowsWorktree, Applying
  <1>12. PlanInv'
    BY <1>1, <1>3, <1>5 DEF TypeOK, PlanInv, Undoing
  <1>13. BackupInv'
    BY <1>1, <1>5, <1>8 DEF TypeOK, AuthorityInv, PlanInv, BackupInv, Applying, IsFile
  <1>14. UnforcedInv'
    BY <1>1, <1>2, <1>3, <1>4, <1>5 DEF TypeOK, UnforcedInv, Excused, Known, Applying,
        IsFile
  <1>15. WriteInv'
    BY <1>1, <1>2, <1>3, <1>4, <1>5 DEF TypeOK, AuthorityInv, PlanInv, WriteInv, Quiet,
        Ready, Applying
  <1>16. FileInv'
    BY <1>1, <1>2, <1>8 DEF TypeOK, AuthorityInv, FileInv, Quiet, Output, IsFile
  <1>17. DirInv'
    BY <1>1, <1>3, <1>5, <1>6, <1>7 DEF TypeOK, AuthorityInv, PlanInv, DirInv, Quiet,
        Owned, OwnedAbove, Ready, Applying, RolledBack
  <1>. QED BY <1>9, <1>10, <1>11, <1>12, <1>13, <1>14, <1>15, <1>16, <1>17

(* A missing parent is journaled.                                          *)
LEMMA JournalParentStep ==
  ASSUME IInv, EnsureParents, ParentsSafe(Cur), {a \in Ancestors(Cur) : node[a] =
      Absent} # {}, Smallest({a \in Ancestors(Cur) : node[a] = Absent}) \notin made
  PROVE  IInv'
  <1>. USE DEF IInv
  <1>1. /\ node' = node /\ index' = index /\ head' = head /\ txn' = txn
        /\ phase' = phase /\ changes' = changes /\ staged' = staged /\ backup' = backup
        /\ pc' = pc /\ ops' = ops /\ todo' = todo /\ mode' = mode /\ force' = force
        /\ before' = before /\ touched' = touched /\ raced' = raced /\ case' = case
        /\ crashes' = crashes /\ edits' = edits /\ faults' = faults
    BY DEF EnsureParents, authority, journal, history, bounds
  <1>2. Target' = Target /\ Current' = Current
    BY <1>1 DEF Target, Current
  <1>3. Kind' = Kind /\ Cur' = Cur
    BY <1>1, <1>2 DEF Kind, Cur
  <1>4. Change' = Change
    BY <1>1, <1>2, <1>3 DEF Change
  <1>5. pc = "parents" /\ pc' = "parents"
    BY DEF EnsureParents
  <1>6. Kind = "write" /\ ops # NoOps /\ Cur \in Path
    BY <1>5, CurFacts DEF PlanInv, TypeOK
  <1>7. \A a \in Ancestors(Cur) : a \in Path
    BY <1>6, AncestorsArePaths
  <1>8. PICK m \in Ancestors(Cur) : m = Smallest({a \in Ancestors(Cur) : node[a] = Absent})
            /\ node[m] = Absent /\ \A a \in Ancestors(m) : node[a] = Dir /\ a \in Path
    <2>. DEFINE T == {a \in Ancestors(Cur) : node[a] = Absent}
                m == Smallest(T)
    <2>1. T \in SUBSET Path /\ T # {}
      BY <1>7
    <2>2. m \in T /\ m \in Path /\ \A q \in T : m <= q
      BY <2>1, SmallestFacts
    <2>3. ASSUME NEW a \in Ancestors(m) PROVE node[a] = Dir /\ a \in Path
      <3>1. a \in Ancestors(Cur) /\ a \in Path /\ a < m
        BY <1>1, <1>2, <1>3, <1>4, <1>5, <1>6, <1>7, <2>2, AboveTransitive, AboveIsLess, AncestorsArePaths
      <3>2. a \notin T
        BY <3>1, <2>2 DEF Path
      <3>. QED BY <3>1, <3>2 DEF ParentsSafe
    <2>. HIDE DEF m
    <2>4. m = Smallest(T)
      BY DEF m
    <2>. QED BY <2>2, <2>3, <2>4
  <1>9. m \in Path
    BY <1>1, <1>2, <1>3, <1>4, <1>5, <1>6, <1>7, <1>8
  <1>10. made' = made \cup {m}
    BY <1>1, <1>2, <1>3, <1>4, <1>5, <1>6, <1>7, <1>8, <1>9 DEF EnsureParents
  <1>11. Quiet => OwnedAbove(m)
    BY <1>1, <1>2, <1>3, <1>4, <1>5, <1>6, <1>7, <1>8, <1>9, <1>10 DEF DirInv,
        OwnedAbove
  <1>12. Pending' = Pending
    BY <1>1, <1>2, <1>3, <1>4, <1>5, <1>6, <1>7, <1>8, <1>9, <1>10, <1>11 DEF Pending,
        Undoing, Undone, RolledBack, TypeOK, PlanInv
  <1>13. TypeOK'
    BY <1>1, <1>2, <1>3, <1>4, <1>5, <1>6, <1>7, <1>8, <1>9, <1>10, <1>11, <1>12 DEF
        TypeOK, PCs, Phases, Plans, NoOps
  <1>14. TreeInv'
    BY <1>1 DEF TreeInv
  <1>15. AuthorityInv'
    BY <1>1, <1>5 DEF AuthorityInv, AuthorityFollowsWorktree, Applying
  <1>16. PlanInv'
    BY <1>1, <1>3, <1>5 DEF TypeOK, PlanInv, Undoing
  <1>17. BackupInv'
    BY <1>1, <1>5, <1>12 DEF TypeOK, AuthorityInv, PlanInv, BackupInv, Applying, IsFile
  <1>18. UnforcedInv'
    BY <1>1, <1>2, <1>3, <1>4, <1>5 DEF TypeOK, UnforcedInv, Excused, Known, Applying,
        IsFile
  <1>19. WriteInv'
    BY <1>1, <1>2, <1>3, <1>4, <1>5 DEF TypeOK, AuthorityInv, PlanInv, WriteInv, Quiet,
        Ready, Applying
  <1>20. FileInv'
    BY <1>1, <1>2, <1>12 DEF TypeOK, AuthorityInv, FileInv, Quiet, Output, IsFile
  <1>21. DirInv'
    BY <1>1, <1>3, <1>5, <1>6, <1>7, <1>8, <1>10, <1>11 DEF TypeOK, AuthorityInv,
        PlanInv, DirInv, Quiet, Owned, OwnedAbove, Ready, Applying, RolledBack
  <1>. QED BY <1>13, <1>14, <1>15, <1>16, <1>17, <1>18, <1>19, <1>20, <1>21

(* A missing parent is created.                                            *)
LEMMA MakeParentStep ==
  ASSUME IInv, EnsureParents, ParentsSafe(Cur), {a \in Ancestors(Cur) : node[a] =
      Absent} # {}, Smallest({a \in Ancestors(Cur) : node[a] = Absent}) \in made
  PROVE  IInv'
  <1>. USE DEF IInv
  <1>1. /\ index' = index /\ head' = head /\ txn' = txn /\ phase' = phase
        /\ changes' = changes /\ made' = made /\ staged' = staged /\ backup' = backup
        /\ pc' = pc /\ ops' = ops /\ todo' = todo /\ mode' = mode /\ force' = force
        /\ before' = before /\ touched' = touched /\ raced' = raced /\ case' = case
        /\ crashes' = crashes /\ edits' = edits /\ faults' = faults
    BY DEF EnsureParents, authority, journal, history, bounds
  <1>2. Target' = Target /\ Current' = Current
    BY <1>1 DEF Target, Current
  <1>3. Kind' = Kind /\ Cur' = Cur
    BY <1>1, <1>2 DEF Kind, Cur
  <1>4. Change' = Change
    BY <1>1, <1>2, <1>3 DEF Change
  <1>5. pc = "parents" /\ pc' = "parents"
    BY DEF EnsureParents
  <1>6. Kind = "write" /\ ops # NoOps /\ Cur \in Path
    BY <1>5, CurFacts DEF PlanInv, TypeOK
  <1>7. \A a \in Ancestors(Cur) : a \in Path
    BY <1>6, AncestorsArePaths
  <1>8. PICK m \in Ancestors(Cur) : m = Smallest({a \in Ancestors(Cur) : node[a] = Absent})
            /\ node[m] = Absent /\ \A a \in Ancestors(m) : node[a] = Dir /\ a \in Path
    <2>. DEFINE T == {a \in Ancestors(Cur) : node[a] = Absent}
                m == Smallest(T)
    <2>1. T \in SUBSET Path /\ T # {}
      BY <1>7
    <2>2. m \in T /\ m \in Path /\ \A q \in T : m <= q
      BY <2>1, SmallestFacts
    <2>3. ASSUME NEW a \in Ancestors(m) PROVE node[a] = Dir /\ a \in Path
      <3>1. a \in Ancestors(Cur) /\ a \in Path /\ a < m
        BY <1>1, <1>2, <1>3, <1>4, <1>5, <1>6, <1>7, <2>2, AboveTransitive, AboveIsLess, AncestorsArePaths
      <3>2. a \notin T
        BY <3>1, <2>2 DEF Path
      <3>. QED BY <3>1, <3>2 DEF ParentsSafe
    <2>. HIDE DEF m
    <2>4. m = Smallest(T)
      BY DEF m
    <2>. QED BY <2>2, <2>3, <2>4
  <1>9. m \in Path
    BY <1>1, <1>2, <1>3, <1>4, <1>5, <1>6, <1>7, <1>8
  <1>10. m \in made /\ node' = [node EXCEPT ![m] = Dir]
    BY <1>1, <1>8 DEF EnsureParents
  <1>11. node \in [Path -> Node]
    BY DEF TypeOK
  <1>12. node'[m] = Dir /\ \A q \in Path : q # m => node'[q] = node[q]
    BY <1>1, <1>2, <1>3, <1>4, <1>5, <1>6, <1>7, <1>8, <1>9, <1>10, <1>11
  <1>13. node' \in [Path -> Node] /\ WellFormed(node')
    BY <1>1, <1>2, <1>3, <1>4, <1>5, <1>6, <1>7, <1>8, <1>9, <1>10, <1>11, <1>12,
        SetIsTree DEF TreeInv, Node
  <1>14. m \notin Subtree(Cur) /\ \A q \in Subtree(Cur) : q \in Path
    BY <1>3, <1>6, <1>7, <1>8, SubtreeFacts
  <1>15. ~IsFile(node, m) /\ Dir \notin Contents
    BY <1>8, <1>10, <1>11, <1>12, <1>13, ConstantsAssumption DEF ConstantsAssumption,
        IsFile
  <1>16. Pending' = Pending
    BY <1>1, <1>2, <1>3, <1>4, <1>5, <1>6, <1>7, <1>8, <1>9, <1>10, <1>11, <1>12, <1>13,
        <1>14, <1>15 DEF Pending, Undoing, Undone, RolledBack, TypeOK, PlanInv
  <1>17. TypeOK'
    BY <1>1, <1>5, <1>10, <1>12, <1>13 DEF TypeOK
  <1>18. TreeInv'
    BY <1>1, <1>10, <1>12, <1>13 DEF TreeInv
  <1>19. AuthorityInv'
    BY <1>1, <1>5 DEF AuthorityInv, AuthorityFollowsWorktree, Applying
  <1>20. PlanInv'
    BY <1>1, <1>3, <1>5 DEF TypeOK, PlanInv, Undoing
  <1>21. BackupInv'
    BY <1>1, <1>5, <1>16 DEF TypeOK, AuthorityInv, PlanInv, BackupInv, Applying, IsFile
  <1>22. UnforcedInv'
    BY <1>1, <1>2, <1>3, <1>4, <1>5, <1>10, <1>12, <1>13 DEF TypeOK, UnforcedInv,
        Excused, Known, Applying, IsFile
  <1>23. WriteInv'
    BY <1>1, <1>2, <1>3, <1>4, <1>5, <1>10, <1>12, <1>13 DEF TypeOK, AuthorityInv,
        PlanInv, WriteInv, Quiet, Ready, Applying
  <1>24. FileInv'
    <2>. SUFFICES ASSUME Quiet, NEW q \in Path
                  PROVE  /\ IsFile(before, q) => node'[q] = before[q] \/ backup[q] = before[q]
                         /\ IsFile(backup, q) => backup[q] = before[q]
                         /\ IsFile(node', q) /\ node'[q] # before[q] =>
                            \E k \in 1..Len(changes) : k <= Pending /\ Output(k, q)'
      BY <1>1, <1>2, <1>8, <1>10, <1>11, <1>12, <1>13, <1>15, <1>16 DEF FileInv, Quiet,
          IsFile
    <2>1. CASE q = m
      BY <1>1, <1>2, <1>3, <1>4, <1>5, <1>6, <1>7, <1>8, <1>9, <1>10, <1>11, <1>12, <1>13, <1>14, <1>15, <1>16, <2>1 DEF FileInv, IsFile
    <2>2. CASE q # m
      BY <1>1, <1>2, <1>3, <1>4, <1>5, <1>6, <1>7, <1>8, <1>9, <1>10, <1>11, <1>12, <1>13, <1>14, <1>15, <1>16, <2>2 DEF FileInv, IsFile, Output
    <2>. QED BY <2>1, <2>2
  <1>25. DirInv'
    BY <1>1, <1>3, <1>5, <1>10, <1>12, <1>13 DEF TypeOK, AuthorityInv, PlanInv, DirInv,
        Quiet, Owned, OwnedAbove, Ready, Applying, RolledBack
  <1>. QED BY <1>17, <1>18, <1>19, <1>20, <1>21, <1>22, <1>23, <1>24, <1>25

(* The path was displaced before.                                          *)
LEMMA IntentAgainStep ==
  ASSUME IInv, BackUpIntent, Journaled(Cur) # {}
  PROVE  IInv'
  <1>. USE DEF IInv
  <1>1. /\ node' = node /\ index' = index /\ head' = head /\ txn' = txn
        /\ phase' = phase /\ made' = made /\ staged' = staged /\ backup' = backup
        /\ ops' = ops /\ todo' = todo /\ mode' = mode /\ force' = force
        /\ before' = before /\ touched' = touched /\ raced' = raced /\ case' = case
        /\ crashes' = crashes /\ edits' = edits /\ faults' = faults
    BY DEF BackUpIntent, authority, journal, local, history, bounds
  <1>2. Target' = Target /\ Current' = Current
    BY <1>1 DEF Target, Current
  <1>3. Kind' = Kind /\ Cur' = Cur
    BY <1>1, <1>2 DEF Kind, Cur
  <1>4. pc = "intent" /\ pc' = "publish_file"
    BY DEF BackUpIntent
  <1>5. ops # NoOps /\ Cur \in Path /\ Kind \in {"displace", "remove", "write"}
        /\ (Kind = "write" => Cur \in ops.write)
    BY <1>4, CurFacts DEF PlanInv, TypeOK
  <1>6. Len(changes) \in Nat /\ \A k \in 1..Len(changes) : changes[k] \in Changes
    BY DEF TypeOK
  <1>7. changes' = [k \in 1..Len(changes) |-> IF k \in Journaled(Cur) /\ Kind = "write"
                                     THEN [changes[k] EXCEPT !.expected = TRUE] ELSE changes[k]]
    BY DEF BackUpIntent
  <1>8. \A k \in 1..Len(changes) :
            /\ changes'[k] \in Changes
            /\ changes'[k].path = changes[k].path /\ changes'[k].present = changes[k].present
            /\ changes'[k].expected = (changes[k].expected \/ (changes[k].path = Cur /\ Kind = "write"))
    <2>. SUFFICES ASSUME NEW k \in 1..Len(changes)
                  PROVE  /\ changes'[k] \in Changes
                         /\ changes'[k].path = changes[k].path
                         /\ changes'[k].present = changes[k].present
                         /\ changes'[k].expected =
                            (changes[k].expected \/ (changes[k].path = Cur /\ Kind = "write"))
      OBVIOUS
    <2>1. changes[k] \in Changes
      BY <1>6, <1>7
    <2>2. CASE changes[k].path = Cur /\ Kind = "write"
      <3>1. changes'[k] = [changes[k] EXCEPT !.expected = TRUE]
        BY <1>6, <1>7, <2>2 DEF Journaled
      <3>. QED BY <2>1, <2>2, <3>1 DEF Changes
    <2>3. CASE ~(changes[k].path = Cur /\ Kind = "write")
      <3>1. changes'[k] = changes[k]
        BY <1>6, <1>7, <2>3 DEF Journaled
      <3>2. changes[k].expected \in BOOLEAN
        BY <2>1 DEF Changes
      <3>. QED BY <2>1, <2>3, <3>1, <3>2
    <2>. QED BY <2>2, <2>3
  <1>9. changes' \in Seq(Changes) /\ Len(changes') = Len(changes)
    <2>1. changes' \in [1..Len(changes) -> Changes]
      BY <1>6, <1>7, <1>8
    <2>. QED BY <2>1
  <1>10. PICK j \in 1..Len(changes) : changes[j].path = Cur
    BY DEF Journaled
  <1>11. changes # <<>> /\ changes' # <<>>
    BY <1>6, <1>7, <1>8, <1>9, <1>10
  <1>12. Pending' = Pending /\ Pending = Len(changes)
    BY <1>1, <1>2, <1>3, <1>4, <1>5, <1>6, <1>7, <1>8, <1>9, <1>10, <1>11 DEF Pending,
        Undoing, Undone, RolledBack, TypeOK, PlanInv
  <1>13. TypeOK'
    BY <1>1, <1>4, <1>7, <1>8, <1>9, <1>11 DEF TypeOK, PCs
  <1>14. TreeInv'
    BY <1>1 DEF TreeInv
  <1>15. AuthorityInv'
    BY <1>1, <1>4 DEF AuthorityInv, AuthorityFollowsWorktree, Applying
  <1>16. PlanInv'
    BY <1>1, <1>3, <1>4, <1>7, <1>8, <1>9, <1>11 DEF TypeOK, PlanInv, Undoing
  <1>17. BackupInv'
    BY <1>1, <1>4, <1>7, <1>8, <1>9, <1>11, <1>12 DEF TypeOK, AuthorityInv, PlanInv,
        BackupInv, Applying, IsFile
  <1>18. UnforcedInv'
    BY <1>1, <1>2, <1>3, <1>4 DEF TypeOK, UnforcedInv, Excused, Known, Applying, IsFile
  <1>19. WriteInv'
    <2>1. ASSUME Quiet, NEW k \in 1..Len(changes), changes'[k].expected
          PROVE  /\ before[changes[k].path] # Target[changes[k].path]
                 /\ Target[changes[k].path] # Absent
      <3>1. CASE changes[k].expected
        BY <2>1, <3>1 DEF WriteInv
      <3>2. CASE changes[k].path = Cur /\ Kind = "write"
        BY <1>1, <1>2, <1>3, <1>4, <1>5, <1>6, <1>7, <1>8, <1>9, <1>10, <1>11, <1>12, <2>1, <3>2 DEF WriteInv, Ready, Applying
      <3>. QED BY <1>1, <1>2, <1>3, <1>4, <1>5, <1>6, <1>7, <1>8, <1>9, <1>10, <1>11, <1>12, <2>1, <3>1, <3>2
    <2>2. ASSUME Quiet, Kind # "write", NEW k \in 1..Len(changes) PROVE ~changes'[k].expected
      BY <1>1, <1>2, <1>3, <1>4, <1>5, <1>6, <1>7, <1>8, <1>9, <1>10, <1>11, <1>12, <2>2 DEF WriteInv, Applying
    <2>3. Kind = "write" => changes'[j].path = Cur /\ changes'[j].expected
      BY <1>3, <1>5, <1>6, <1>7, <1>8, <1>9, <1>10, <1>11, <1>12
    <2>4. Quiet => \A p \in ops.write : p \in staged /\ Target[p] # Absent /\ before[p] # Target[p]
      BY <1>1, <1>2, <1>3, <1>4, <1>5, <1>6, <1>7, <1>8, <1>9, <1>10, <1>11, <1>12 DEF WriteInv, Ready, Applying
    <2>5. Quiet' = Quiet
      BY <1>1 DEF Quiet
    <2>. QED BY <1>1, <1>2, <1>3, <1>4, <1>5, <1>6, <1>7, <1>8, <1>9, <1>10, <1>11, <1>12, <2>1, <2>2, <2>3, <2>4, <2>5 DEF WriteInv, Ready, Applying
  <1>20. FileInv'
    BY <1>1, <1>2, <1>7, <1>8, <1>9, <1>11, <1>12 DEF TypeOK, AuthorityInv, FileInv,
        Quiet, Output, IsFile
  <1>21. DirInv'
    BY <1>1, <1>3, <1>4, <1>7, <1>8, <1>9, <1>11 DEF TypeOK, AuthorityInv, PlanInv,
        DirInv, Quiet, Owned, OwnedAbove, Ready, Applying, RolledBack
  <1>. QED BY <1>13, <1>14, <1>15, <1>16, <1>17, <1>18, <1>19, <1>20, <1>21

(* The change is journaled before it happens.                              *)
LEMMA IntentStep ==
  ASSUME IInv, BackUpIntent, Journaled(Cur) = {}, ParentsSafe(Cur), ~Vanished
  PROVE  IInv'
  <1>. USE DEF IInv
  <1>1. /\ node' = node /\ index' = index /\ head' = head /\ txn' = txn
        /\ phase' = phase /\ made' = made /\ staged' = staged /\ backup' = backup
        /\ ops' = ops /\ todo' = todo /\ mode' = mode /\ force' = force
        /\ before' = before /\ touched' = touched /\ raced' = raced /\ case' = case
        /\ crashes' = crashes /\ edits' = edits /\ faults' = faults
    BY DEF BackUpIntent, authority, journal, local, history, bounds
  <1>2. Target' = Target /\ Current' = Current
    BY <1>1 DEF Target, Current
  <1>3. Kind' = Kind /\ Cur' = Cur
    BY <1>1, <1>2 DEF Kind, Cur
  <1>4. pc = "intent" /\ pc' = IF node[Cur] # Absent THEN "rename" ELSE "publish_file"
    BY DEF BackUpIntent
  <1>5. ops # NoOps /\ Cur \in Path /\ Kind \in {"displace", "remove", "write"}
        /\ (Kind = "write" => Cur \in ops.write)
    BY <1>4, CurFacts DEF PlanInv, TypeOK
  <1>6. Len(changes) \in Nat /\ \A k \in 1..Len(changes) : changes[k] \in Changes
    BY DEF TypeOK
  <1>7. changes' = Append(changes, [path |-> Cur, present |-> node[Cur] # Absent, expected |-> Kind = "write"])
    BY DEF BackUpIntent
  <1>8. changes' \in Seq(Changes) /\ Len(changes') = Len(changes) + 1
        /\ \A k \in 1..Len(changes) : changes'[k] = changes[k]
    <2>1. [path |-> Cur, present |-> node[Cur] # Absent, expected |-> Kind = "write"] \in Changes
      BY <1>1, <1>3, <1>4, <1>5, <1>7 DEF Changes
    <2>. QED BY <1>1, <1>2, <1>3, <1>4, <1>5, <1>6, <1>7, <2>1 DEF TypeOK
  <1>9. LET last == changes'[Len(changes')] IN
            last.path = Cur /\ (last.present <=> node[Cur] # Absent) /\ (last.expected <=> Kind = "write")
    <2>1. changes'[Len(changes')] = [path |-> Cur, present |-> node[Cur] # Absent, expected |-> Kind = "write"]
      BY <1>1, <1>3, <1>4, <1>5, <1>6, <1>7, <1>8
    <2>2. changes'[Len(changes')].path = Cur
      BY <2>1
    <2>3. changes'[Len(changes')].present = (node[Cur] # Absent)
      BY <2>1
    <2>4. changes'[Len(changes')].expected = (Kind = "write")
      BY <2>1
    <2>. QED BY <2>2, <2>3, <2>4
  <1>10. \A k \in 1..Len(changes') : k = Len(changes') \/ k \in 1..Len(changes)
    BY <1>6, <1>7, <1>8, <1>9
  <1>11. \A k \in 1..Len(changes) : changes[k].path # Cur
    BY DEF Journaled
  <1>12. changes' # <<>>
    BY <1>6, <1>7, <1>8, <1>9, <1>10, <1>11
  <1>13. Pending' = Len(changes') /\ Pending = Len(changes)
    BY <1>1, <1>2, <1>3, <1>4, <1>5, <1>6, <1>7, <1>8, <1>9, <1>10, <1>11, <1>12 DEF
        Pending, Undoing, Undone, RolledBack
  <1>14. TypeOK'
    BY <1>1, <1>4, <1>7, <1>8, <1>9, <1>10, <1>12, <1>13 DEF TypeOK, PCs
  <1>15. TreeInv'
    BY <1>1, <1>4 DEF TreeInv
  <1>16. AuthorityInv'
    BY <1>1, <1>4 DEF AuthorityInv, AuthorityFollowsWorktree, Applying
  <1>17. PlanInv'
    BY <1>1, <1>3, <1>4, <1>7, <1>8, <1>9, <1>10, <1>12, <1>13 DEF TypeOK, PlanInv,
        Undoing
  <1>18. BackupInv'
    BY <1>1, <1>2, <1>3, <1>4, <1>5, <1>6, <1>7, <1>8, <1>9, <1>10, <1>11, <1>12, <1>13
        DEF TypeOK, AuthorityInv, PlanInv, BackupInv, Applying, IsFile
  <1>19. UnforcedInv'
    BY <1>1, <1>2, <1>3, <1>4 DEF TypeOK, UnforcedInv, Excused, Known, Applying, IsFile
  <1>20. WriteInv'
    BY <1>1, <1>2, <1>3, <1>4, <1>5, <1>6, <1>7, <1>8, <1>9, <1>10, <1>11, <1>12, <1>13
        DEF TypeOK, AuthorityInv, PlanInv, WriteInv, Quiet, Ready, Applying
  <1>21. FileInv'
    BY <1>1, <1>2, <1>4, <1>7, <1>8, <1>9, <1>10, <1>12, <1>13 DEF TypeOK, AuthorityInv,
        FileInv, Quiet, Output, IsFile
  <1>22. DirInv'
    <2>1. Quiet => \A q \in Path : backup[q] = Dir => Owned(q)
      <3>1. CASE changes = <<>>
        BY <1>1, <1>2, <1>3, <1>4, <1>5, <1>6, <1>7, <1>8, <1>9, <1>10, <1>11, <1>12, <1>13, <3>1, ConstantsAssumption DEF ConstantsAssumption, BackupInv, Applying, Nothing
      <3>2. CASE changes # <<>>
        BY <3>2 DEF DirInv
      <3>. QED BY <3>1, <3>2
    <2>2. Quiet => OwnedAbove(Cur)
      BY <1>1, <1>3, <1>4, <1>5, <1>7, <1>9, <1>11 DEF DirInv
    <2>. QED BY <1>1, <1>2, <1>3, <1>4, <1>5, <1>6, <1>7, <1>8, <1>9, <1>10, <1>11, <1>12, <1>13, <2>1, <2>2 DEF TypeOK, AuthorityInv, PlanInv, DirInv, Quiet, Owned, OwnedAbove, Ready, Applying, RolledBack
  <1>. QED BY <1>14, <1>15, <1>16, <1>17, <1>18, <1>19, <1>20, <1>21, <1>22

(* The path moves into the backup.                                         *)
LEMMA RenameStep ==
  ASSUME IInv, BackUpRename, node[Cur] # Absent, backup[Cur] = Absent, ~(\E a \in
      Ancestors(Cur) : IsFile(backup, a))
  PROVE  IInv'
  <1>. USE DEF IInv
  <1>1. /\ index' = index /\ head' = head /\ txn' = txn /\ phase' = phase
        /\ changes' = changes /\ made' = made /\ staged' = staged /\ ops' = ops
        /\ todo' = todo /\ mode' = mode /\ force' = force /\ before' = before
        /\ touched' = touched /\ raced' = raced /\ case' = case /\ crashes' = crashes
        /\ edits' = edits /\ faults' = faults
    BY DEF BackUpRename, authority, journal, local, history, bounds
  <1>2. Target' = Target /\ Current' = Current
    BY <1>1 DEF Target, Current
  <1>3. Kind' = Kind /\ Cur' = Cur
    BY <1>1, <1>2 DEF Kind, Cur
  <1>4. Change' = Change
    BY <1>1, <1>2, <1>3 DEF Change
  <1>5. pc = "rename" /\ pc' = "publish_file"
    BY DEF BackUpRename
  <1>6. ops # NoOps /\ Cur \in Path /\ Kind \in {"displace", "remove", "write"}
        /\ (Kind = "write" => Cur \in ops.write)
    BY <1>5, CurFacts DEF PlanInv, TypeOK
  <1>7. Len(changes) \in Nat /\ \A k \in 1..Len(changes) : changes[k] \in Changes
    BY DEF TypeOK
  <1>8. node' = Cleared(node, Cur) /\ backup' = WithParents(Grafted(backup, node, Cur), Cur)
    BY DEF BackUpRename
  <1>9. node \in [Path -> Node] /\ backup \in [Path -> Node] /\ WellFormed(node) /\ WellFormed(backup)
    BY DEF TypeOK, TreeInv
  <1>10. \A a \in Ancestors(Cur) : a \in Path /\ backup[a] \in {Dir, Absent}
    BY <1>3, <1>6, <1>8, <1>9, AncestorsArePaths DEF IsFile, Node, MaybeFile
  <1>11. /\ node' \in [Path -> Node] /\ WellFormed(node')
        /\ \A q \in Path : node'[q] = IF q \in Subtree(Cur) THEN Absent ELSE node[q]
    BY <1>3, <1>6, <1>8, <1>9, <1>10, ClearedFacts
  <1>12. /\ backup' \in [Path -> Node] /\ WellFormed(backup')
        /\ \A q \in Path : backup'[q] = IF q \in Subtree(Cur) THEN node[q]
                ELSE IF q \in Ancestors(Cur) /\ backup[q] = Absent THEN Dir ELSE backup[q]
    BY <1>3, <1>6, <1>8, <1>9, <1>10, <1>11, StoredFacts
  <1>13. \A q \in Subtree(Cur) : q \in Path /\ backup[q] = Absent
    BY <1>3, <1>6, <1>8, <1>9, <1>10, <1>11, <1>12, LeafFacts, SubtreeFacts,
        ConstantsAssumption DEF ConstantsAssumption
  <1>14. Cur \in Subtree(Cur) /\ changes # <<>> /\ Len(changes) \in 1..Len(changes) /\ changes[Len(changes)].path = Cur
    BY <1>1, <1>2, <1>3, <1>4, <1>5, <1>6, <1>7, <1>8, <1>9, <1>10, <1>11, <1>12, <1>13,
        SubtreeFacts DEF PlanInv
  <1>15. Absent \notin Contents /\ Dir \notin Contents /\ Absent # Dir
    BY ConstantsAssumption DEF ConstantsAssumption
  <1>16. Quiet => \A q \in Subtree(Cur) : IsFile(node, q) => node[q] = before[q]
    <2>. SUFFICES ASSUME Quiet, NEW q \in Subtree(Cur), IsFile(node, q), node[q] # before[q]
                  PROVE  FALSE
      OBVIOUS
    <2>1. PICK k \in 1..Len(changes) : Output(k, q)
      BY <1>1, <1>2, <1>7, <1>8, <1>9, <1>10, <1>11, <1>12, <1>13, <1>14 DEF FileInv
    <2>2. Kind = "write"
      BY <1>1, <1>2, <1>3, <1>4, <1>5, <1>6, <1>7, <1>8, <1>9, <1>10, <1>11, <1>12, <1>13, <1>14, <1>15, <2>1 DEF WriteInv, Applying, Output
    <2>3. Cur \in staged /\ Target[Cur] # Absent
      BY <1>1, <1>2, <1>3, <1>4, <1>5, <1>6, <1>7, <1>8, <1>9, <1>10, <1>11, <1>12, <1>13, <1>14, <1>15, <2>2 DEF WriteInv, Ready, Applying
    <2>4. Cur \in Ancestors(q) /\ q \in Path
      BY <1>1, <1>2, <1>3, <1>4, <1>5, <1>6, <1>7, <1>8, <1>9, <1>10, <1>11, <1>12, <1>13, <1>14, <1>15, <2>1, <2>3, SubtreeFacts DEF Output
    <2>5. Target[q] # Absent
      BY <1>1, <1>2, <1>3, <1>4, <1>5, <1>6, <1>7, <1>8, <1>9, <1>10, <1>11, <1>12, <1>13, <1>14, <1>15, <2>1 DEF Output, IsFile
    <2>. QED BY <2>3, <2>4, <2>5, TreesAssumption DEF TreesAssumption, Target, TypeOK
  <1>17. Pending' = Pending /\ Pending = Len(changes)
    BY <1>1, <1>2, <1>3, <1>4, <1>5, <1>6, <1>7, <1>8, <1>9, <1>10, <1>11, <1>12, <1>13,
        <1>14, <1>15, <1>16 DEF Pending, Undoing, Undone, RolledBack, TypeOK, PlanInv
  <1>18. TypeOK'
    BY <1>1, <1>5, <1>8, <1>11, <1>12 DEF TypeOK, PCs
  <1>19. TreeInv'
    BY <1>1, <1>8, <1>11, <1>12 DEF TreeInv
  <1>20. AuthorityInv'
    BY <1>1, <1>5 DEF AuthorityInv, AuthorityFollowsWorktree, Applying
  <1>21. PlanInv'
    BY <1>1, <1>3, <1>5 DEF TypeOK, PlanInv, Undoing
  <1>22. BackupInv'
    <2>1. ASSUME NEW q \in Path, IsFile(backup', q)
          PROVE  \E k \in 1..Len(changes) : k <= Pending /\ q \in Subtree(changes[k].path)
      <3>1. CASE q \in Subtree(Cur)
        BY <1>1, <1>2, <1>3, <1>4, <1>5, <1>6, <1>7, <1>8, <1>9, <1>10, <1>11, <1>12, <1>13, <1>14, <1>15, <1>16, <1>17, <3>1
      <3>2. CASE q \notin Subtree(Cur)
        <4>1. IsFile(backup, q)
          BY <1>1, <1>2, <1>3, <1>4, <1>5, <1>6, <1>7, <1>8, <1>9, <1>10, <1>11, <1>12, <1>13, <1>14, <1>15, <1>16, <1>17, <2>1, <3>2 DEF IsFile
        <4>. QED BY <4>1 DEF BackupInv
      <3>. QED BY <3>1, <3>2
    <2>2. ASSUME NEW k \in 1..Len(changes), changes[k].present
          PROVE  backup'[changes[k].path] # Absent
      <3>1. CASE k = Len(changes)
        BY <1>1, <1>2, <1>3, <1>4, <1>5, <1>6, <1>7, <1>8, <1>9, <1>10, <1>11, <1>12, <1>13, <1>14, <1>15, <1>16, <1>17, <3>1
      <3>2. CASE k # Len(changes)
        <4>1. backup[changes[k].path] # Absent /\ changes[k].path \in Path
          BY <1>1, <1>2, <1>3, <1>4, <1>5, <1>6, <1>7, <1>8, <1>9, <1>10, <1>11, <1>12, <1>13, <1>14, <1>15, <1>16, <1>17, <2>2, <3>2 DEF BackupInv, Applying, Changes
        <4>. QED BY <1>1, <1>2, <1>3, <1>4, <1>5, <1>6, <1>7, <1>8, <1>9, <1>10, <1>11, <1>12, <1>13, <1>14, <1>15, <1>16, <1>17, <4>1
      <3>. QED BY <3>1, <3>2
    <2>. QED BY <1>1, <1>2, <1>3, <1>4, <1>5, <1>6, <1>7, <1>8, <1>9, <1>10, <1>11, <1>12, <1>13, <1>14, <1>15, <1>16, <1>17, <2>1, <2>2 DEF BackupInv, Applying, AuthorityInv, IsFile
  <1>23. UnforcedInv'
    <2>1. ASSUME ~force, NEW p \in Path, IsFile(backup', p) PROVE backup'[p] \in Known(p) \/ p \in raced
      <3>1. CASE p \in Subtree(Cur)
        BY <1>1, <1>2, <1>3, <1>4, <1>5, <1>6, <1>7, <1>8, <1>9, <1>10, <1>11, <1>12, <1>13, <1>14, <1>15, <1>16, <1>17, <2>1, <3>1 DEF UnforcedInv, Excused
      <3>2. CASE p \notin Subtree(Cur)
        <4>1. IsFile(backup, p) /\ backup'[p] = backup[p]
          BY <1>1, <1>2, <1>3, <1>4, <1>5, <1>6, <1>7, <1>8, <1>9, <1>10, <1>11, <1>12, <1>13, <1>14, <1>15, <1>16, <1>17, <2>1, <3>2 DEF IsFile
        <4>. QED BY <2>1, <4>1 DEF UnforcedInv, Excused
      <3>. QED BY <3>1, <3>2
    <2>. QED BY <1>1, <1>2, <1>3, <1>4, <1>5, <1>6, <1>7, <1>8, <1>9, <1>10, <1>11, <1>12, <1>13, <1>14, <1>15, <1>16, <1>17, <2>1 DEF UnforcedInv, Excused, Known, Applying, IsFile
  <1>24. WriteInv'
    BY <1>1, <1>2, <1>3, <1>4, <1>5, <1>8, <1>11 DEF TypeOK, AuthorityInv, PlanInv,
        WriteInv, Quiet, Ready, Applying
  <1>25. FileInv'
    <2>. SUFFICES ASSUME Quiet, NEW q \in Path
                  PROVE  /\ IsFile(before, q) => node'[q] = before[q] \/ backup'[q] = before[q]
                         /\ IsFile(backup', q) => backup'[q] = before[q]
                         /\ IsFile(node', q) /\ node'[q] # before[q] =>
                            \E k \in 1..Len(changes) : k <= Pending /\ Output(k, q)'
      BY <1>1, <1>2, <1>7, <1>8, <1>9, <1>10, <1>11, <1>12, <1>13, <1>14, <1>16, <1>17
          DEF FileInv, Quiet, IsFile
    <2>1. CASE q \in Subtree(Cur)
      <3>1. IsFile(before, q) => node[q] = before[q]
        BY <1>1, <1>2, <1>3, <1>4, <1>5, <1>6, <1>7, <1>8, <1>9, <1>10, <1>11, <1>12, <1>13, <1>14, <1>15, <1>16, <1>17, <2>1 DEF FileInv, IsFile
      <3>. QED BY <1>1, <1>2, <1>3, <1>4, <1>5, <1>6, <1>7, <1>8, <1>9, <1>10, <1>11, <1>12, <1>13, <1>14, <1>15, <1>16, <1>17, <2>1, <3>1 DEF IsFile
    <2>2. CASE q \notin Subtree(Cur)
      <3>1. node'[q] = node[q] /\ (backup[q] # Absent => backup'[q] = backup[q])
            /\ (IsFile(backup', q) => IsFile(backup, q))
        BY <1>1, <1>2, <1>3, <1>4, <1>5, <1>6, <1>7, <1>8, <1>9, <1>10, <1>11, <1>12, <1>13, <1>14, <1>15, <1>16, <1>17, <2>2 DEF IsFile
      <3>2. /\ IsFile(before, q) => node[q] = before[q] \/ backup[q] = before[q]
            /\ IsFile(backup, q) => backup[q] = before[q]
            /\ IsFile(node, q) /\ node[q] # before[q] =>
                \E k \in 1..Len(changes) : k <= Pending /\ Output(k, q)
        BY DEF FileInv
      <3>3. \A k : Output(k, q) => Output(k, q)'
        BY <1>1, <1>2, <1>7, <1>8, <1>9, <1>10, <1>11, <1>12, <1>13, <1>14, <1>16,
            <1>17, <3>1 DEF Output
      <3>. QED BY <1>1, <1>2, <1>3, <1>4, <1>5, <1>6, <1>7, <1>8, <1>9, <1>10, <1>11, <1>12, <1>13, <1>14, <1>15, <1>16, <1>17, <3>1, <3>2, <3>3 DEF IsFile
    <2>. QED BY <2>1, <2>2
  <1>26. DirInv'
    <2>1. ASSUME Quiet PROVE OwnedAbove(Cur)
      BY <1>1, <1>3, <1>6, <1>8, <1>10, <1>11, <1>12, <1>13, <1>14, <1>16, <2>1 DEF
          DirInv
    <2>2. ASSUME Quiet, NEW q \in Path, backup'[q] = Dir PROVE Owned(q)
      BY <1>1, <1>2, <1>3, <1>4, <1>5, <1>6, <1>7, <1>8, <1>9, <1>10, <1>11, <1>12, <1>13, <1>14, <1>15, <1>16, <1>17, <2>1, <2>2 DEF DirInv, OwnedAbove
    <2>3. ASSUME Quiet, NEW q \in Path, node'[q] = Dir PROVE Owned(q)
      BY <1>1, <1>2, <1>3, <1>4, <1>5, <1>6, <1>7, <1>8, <1>9, <1>10, <1>11, <1>12, <1>13, <1>14, <1>15, <1>16, <1>17, <2>3 DEF DirInv
    <2>. QED BY <1>1, <1>2, <1>3, <1>4, <1>5, <1>6, <1>7, <1>8, <1>9, <1>10, <1>11, <1>12, <1>13, <1>14, <1>15, <1>16, <1>17, <2>2, <2>3 DEF TypeOK, AuthorityInv, PlanInv, DirInv, Quiet, Owned, OwnedAbove, Ready, Applying, RolledBack
  <1>. QED BY <1>18, <1>19, <1>20, <1>21, <1>22, <1>23, <1>24, <1>25, <1>26

(* The staged file is renamed into place.                                  *)
LEMMA PublishFileStep ==
  ASSUME IInv, PublishFile, Kind = "write", node[Cur] = Absent, \A a \in Ancestors(Cur)
      : node[a] = Dir
  PROVE  IInv'
  <1>. USE DEF IInv
  <1>1. /\ index' = index /\ head' = head /\ txn' = txn /\ phase' = phase
        /\ changes' = changes /\ made' = made /\ backup' = backup /\ todo' = todo
        /\ mode' = mode /\ force' = force /\ before' = before /\ touched' = touched
        /\ raced' = raced /\ case' = case /\ crashes' = crashes /\ edits' = edits
        /\ faults' = faults
    BY DEF PublishFile, NextOp, authority, journal, local, history, bounds
  <1>2. Target' = Target /\ Current' = Current
    BY <1>1 DEF Target, Current
  <1>3. Change' = Change
    BY <1>1, <1>2 DEF Change
  <1>4. pc = "publish_file" /\ pc' = "op" /\ NextOp
    BY DEF PublishFile, NextOp
  <1>5. ops # NoOps /\ Cur \in Path /\ Cur \in ops.write
    BY <1>4, CurFacts DEF PlanInv, TypeOK
  <1>6. Len(changes) \in Nat /\ \A k \in 1..Len(changes) : changes[k] \in Changes
    BY DEF TypeOK
  <1>7. ops' \in Plans /\ ops'.displace \subseteq ops.displace /\ ops'.write = ops.write \ {Cur}
        /\ (Kind' # "write" => Kind # "write")
    BY <1>1, <1>2, <1>3, <1>4, <1>5, <1>6, NextOpFacts DEF TypeOK
  <1>8. node' = [node EXCEPT ![Cur] = Target[Cur]] /\ staged' = staged \ {Cur}
    BY DEF PublishFile
  <1>9. Target[Cur] \in MaybeFile /\ MaybeFile \subseteq Node /\ Dir \notin MaybeFile
    BY <1>2, <1>5, <1>7, <1>8, ConstantsAssumption DEF ConstantsAssumption, Target,
        TypeOK, MaybeFile, Node
  <1>10. node \in [Path -> Node] /\ WellFormed(node)
    BY DEF TypeOK, TreeInv
  <1>11. node'[Cur] = Target[Cur] /\ \A q \in Path : q # Cur => node'[q] = node[q]
    BY <1>2, <1>5, <1>7, <1>8, <1>9, <1>10
  <1>12. \A q \in Subtree(Cur) : q # Cur => node[q] = Absent
    BY <1>5, <1>7, <1>8, <1>9, <1>10, <1>11, LeafFacts, ConstantsAssumption DEF
        ConstantsAssumption
  <1>13. node' \in [Path -> Node] /\ WellFormed(node')
    BY <1>1, <1>2, <1>3, <1>4, <1>5, <1>6, <1>7, <1>8, <1>9, <1>10, <1>11, <1>12,
        SetIsTree
  <1>14. Absent \notin Contents /\ Dir \notin Contents /\ Absent # Dir
    BY ConstantsAssumption DEF ConstantsAssumption
  <1>15. Pending' = Pending /\ Pending = Len(changes)
    BY <1>1, <1>2, <1>3, <1>4, <1>5, <1>6, <1>7, <1>8, <1>9, <1>10, <1>11, <1>12, <1>13,
        <1>14 DEF Pending, Undoing, Undone, RolledBack, TypeOK, PlanInv
  <1>16. TypeOK'
    BY <1>1, <1>4, <1>7, <1>8, <1>11, <1>13 DEF TypeOK, PCs
  <1>17. TreeInv'
    BY <1>1, <1>8, <1>11, <1>13 DEF TreeInv
  <1>18. AuthorityInv'
    BY <1>1, <1>4 DEF AuthorityInv, AuthorityFollowsWorktree, Applying
  <1>19. PlanInv'
    BY <1>1, <1>4, <1>7 DEF TypeOK, PlanInv, Undoing
  <1>20. BackupInv'
    BY <1>1, <1>4, <1>15 DEF TypeOK, AuthorityInv, PlanInv, BackupInv, Applying, IsFile
  <1>21. UnforcedInv'
    BY <1>1, <1>2, <1>3, <1>4, <1>7, <1>8, <1>11, <1>13 DEF TypeOK, UnforcedInv,
        Excused, Known, Applying, IsFile
  <1>22. WriteInv'
    BY <1>1, <1>2, <1>3, <1>4, <1>7, <1>8, <1>11, <1>13 DEF TypeOK, AuthorityInv,
        PlanInv, WriteInv, Quiet, Ready, Applying
  <1>23. FileInv'
    <2>. SUFFICES ASSUME Quiet, NEW q \in Path
                  PROVE  /\ IsFile(before, q) => node'[q] = before[q] \/ backup[q] = before[q]
                         /\ IsFile(backup, q) => backup[q] = before[q]
                         /\ IsFile(node', q) /\ node'[q] # before[q] =>
                            \E k \in 1..Len(changes) : k <= Pending /\ Output(k, q)'
      BY <1>1, <1>2, <1>6, <1>8, <1>9, <1>10, <1>11, <1>12, <1>13, <1>15 DEF FileInv,
          Quiet, IsFile
    <2>0. /\ IsFile(before, q) => node[q] = before[q] \/ backup[q] = before[q]
          /\ IsFile(backup, q) => backup[q] = before[q]
          /\ IsFile(node, q) /\ node[q] # before[q] =>
              \E k \in 1..Len(changes) : k <= Pending /\ Output(k, q)
      BY DEF FileInv
    <2>1. CASE q = Cur
      <3>1. PICK k \in 1..Len(changes) : changes[k].path = Cur /\ changes[k].expected
        BY <1>1, <1>2, <1>3, <1>4, <1>5, <1>6, <1>7, <1>8, <1>9, <1>10, <1>11, <1>12, <1>13, <1>14, <1>15 DEF WriteInv
      <3>2. changes[k].present => backup[Cur] # Absent
        BY <1>1, <1>2, <1>3, <1>4, <1>5, <1>6, <1>7, <1>8, <1>9, <1>10, <1>11, <1>12, <1>13, <1>14, <1>15, <3>1 DEF BackupInv, Applying
      <3>3. Output(k, q)'
        BY <1>1, <1>2, <1>3, <1>4, <1>5, <1>6, <1>7, <1>8, <1>9, <1>10, <1>11, <1>12, <1>13, <1>14, <1>15, <2>1, <3>1, <3>2 DEF Output
      <3>. QED BY <1>1, <1>2, <1>3, <1>4, <1>5, <1>6, <1>7, <1>8, <1>9, <1>10, <1>11, <1>12, <1>13, <1>14, <1>15, <2>0, <2>1, <3>3 DEF IsFile
    <2>2. CASE q # Cur
      <3>1. \A k : Output(k, q) => Output(k, q)'
        BY <1>1, <1>2, <1>6, <1>8, <1>9, <1>10, <1>11, <1>12, <1>13, <1>15 DEF Output
      <3>. QED BY <1>1, <1>2, <1>3, <1>4, <1>5, <1>6, <1>7, <1>8, <1>9, <1>10, <1>11, <1>12, <1>13, <1>14, <1>15, <2>0, <2>2, <3>1 DEF IsFile
    <2>. QED BY <2>1, <2>2
  <1>24. DirInv'
    BY <1>1, <1>4, <1>5, <1>6, <1>7, <1>8, <1>9, <1>10, <1>11, <1>12, <1>13, <1>15 DEF
        TypeOK, AuthorityInv, PlanInv, DirInv, Quiet, Owned, OwnedAbove, Ready, Applying,
        RolledBack
  <1>. QED BY <1>16, <1>17, <1>18, <1>19, <1>20, <1>21, <1>22, <1>23, <1>24

(* The Index takes the target.                                             *)
LEMMA WriteIndexStep ==
  ASSUME IInv, WriteIndex, UNCHANGED faults
  PROVE  IInv'
  <1>. USE DEF IInv
  <1>1. /\ node' = node /\ head' = head /\ txn' = txn /\ phase' = phase
        /\ changes' = changes /\ made' = made /\ staged' = staged /\ backup' = backup
        /\ ops' = ops /\ todo' = todo /\ mode' = mode /\ force' = force
        /\ before' = before /\ touched' = touched /\ raced' = raced /\ case' = case
        /\ crashes' = crashes /\ edits' = edits /\ faults' = faults
    BY DEF WriteIndex, StartRollback, journal, history, TypeOK
  <1>2. Target' = Target /\ Current' = Current
    BY <1>1 DEF Target, Current
  <1>3. Kind' = Kind /\ Cur' = Cur
    BY <1>1, <1>2 DEF Kind, Cur
  <1>4. Change' = Change
    BY <1>1, <1>2, <1>3 DEF Change
  <1>5. pc = "index" /\ pc' = "index_phase" /\ index' = "target"
    BY <1>4 DEF WriteIndex, StartRollback, TypeOK
  <1>6. Pending' = Pending
    BY <1>1, <1>2, <1>3, <1>4, <1>5 DEF Pending, Undoing, Undone, RolledBack, TypeOK,
        PlanInv
  <1>7. TypeOK'
    BY <1>1, <1>5 DEF TypeOK, PCs, Phases, Plans, NoOps
  <1>8. TreeInv'
    BY <1>1 DEF TreeInv
  <1>9. AuthorityInv'
    BY <1>1, <1>5 DEF AuthorityInv, AuthorityFollowsWorktree, Applying
  <1>10. PlanInv'
    BY <1>1, <1>3, <1>5 DEF TypeOK, PlanInv, Undoing
  <1>11. BackupInv'
    BY <1>1, <1>5, <1>6 DEF TypeOK, AuthorityInv, PlanInv, BackupInv, Applying, IsFile
  <1>12. UnforcedInv'
    BY <1>1, <1>2, <1>3, <1>4, <1>5 DEF TypeOK, UnforcedInv, Excused, Known, Applying,
        IsFile
  <1>13. WriteInv'
    BY <1>1, <1>2, <1>3, <1>4, <1>5 DEF TypeOK, AuthorityInv, PlanInv, WriteInv, Quiet,
        Ready, Applying
  <1>14. FileInv'
    BY <1>1, <1>2, <1>6 DEF TypeOK, AuthorityInv, FileInv, Quiet, Output, IsFile
  <1>15. DirInv'
    BY <1>1, <1>3, <1>5 DEF TypeOK, AuthorityInv, PlanInv, DirInv, Quiet, Owned,
        OwnedAbove, Ready, Applying, RolledBack
  <1>. QED BY <1>7, <1>8, <1>9, <1>10, <1>11, <1>12, <1>13, <1>14, <1>15

(* The journal follows the Index.                                          *)
LEMMA SetIndexUpdatedStep ==
  ASSUME IInv, SetIndexUpdated
  PROVE  IInv'
  <1>. USE DEF IInv
  <1>1. /\ node' = node /\ index' = index /\ head' = head /\ txn' = txn
        /\ changes' = changes /\ made' = made /\ staged' = staged /\ backup' = backup
        /\ ops' = ops /\ todo' = todo /\ mode' = mode /\ force' = force
        /\ before' = before /\ touched' = touched /\ raced' = raced /\ case' = case
        /\ crashes' = crashes /\ edits' = edits /\ faults' = faults
    BY DEF SetIndexUpdated, authority, journal, history, bounds
  <1>2. Target' = Target /\ Current' = Current
    BY <1>1 DEF Target, Current
  <1>3. Kind' = Kind /\ Cur' = Cur
    BY <1>1, <1>2 DEF Kind, Cur
  <1>4. Change' = Change
    BY <1>1, <1>2, <1>3 DEF Change
  <1>5. pc = "index_phase" /\ pc' = "head" /\ phase' = "index_updated"
    BY DEF SetIndexUpdated
  <1>6. Pending' = Pending
    BY <1>1, <1>2, <1>3, <1>4, <1>5 DEF Pending, Undoing, Undone, RolledBack, TypeOK,
        PlanInv
  <1>7. TypeOK'
    BY <1>1, <1>5 DEF TypeOK, PCs, Phases, Plans, NoOps
  <1>8. TreeInv'
    BY <1>1 DEF TreeInv
  <1>9. AuthorityInv'
    BY <1>1, <1>5 DEF AuthorityInv, AuthorityFollowsWorktree, Applying
  <1>10. PlanInv'
    BY <1>1, <1>3, <1>5 DEF TypeOK, PlanInv, Undoing
  <1>11. BackupInv'
    BY <1>1, <1>5, <1>6 DEF TypeOK, AuthorityInv, PlanInv, BackupInv, Applying, IsFile
  <1>12. UnforcedInv'
    BY <1>1, <1>2, <1>3, <1>4, <1>5 DEF TypeOK, UnforcedInv, Excused, Known, Applying,
        IsFile
  <1>13. WriteInv'
    BY <1>1, <1>2, <1>3, <1>4, <1>5 DEF TypeOK, AuthorityInv, PlanInv, WriteInv, Quiet,
        Ready, Applying
  <1>14. FileInv'
    BY <1>1, <1>2, <1>6 DEF TypeOK, AuthorityInv, FileInv, Quiet, Output, IsFile
  <1>15. DirInv'
    BY <1>1, <1>3, <1>5 DEF TypeOK, AuthorityInv, PlanInv, DirInv, Quiet, Owned,
        OwnedAbove, Ready, Applying, RolledBack
  <1>. QED BY <1>7, <1>8, <1>9, <1>10, <1>11, <1>12, <1>13, <1>14, <1>15

(* HEAD takes the target.                                                  *)
LEMMA PublishHeadStep ==
  ASSUME IInv, PublishHead
  PROVE  IInv'
  <1>. USE DEF IInv
  <1>1. /\ node' = node /\ index' = index /\ txn' = txn /\ phase' = phase
        /\ changes' = changes /\ made' = made /\ staged' = staged /\ backup' = backup
        /\ ops' = ops /\ todo' = todo /\ mode' = mode /\ force' = force
        /\ before' = before /\ touched' = touched /\ raced' = raced /\ case' = case
        /\ crashes' = crashes /\ edits' = edits /\ faults' = faults
    BY DEF PublishHead, authority, journal, history, bounds
  <1>2. Target' = Target /\ Current' = Current
    BY <1>1 DEF Target, Current
  <1>3. Kind' = Kind /\ Cur' = Cur
    BY <1>1, <1>2 DEF Kind, Cur
  <1>4. Change' = Change
    BY <1>1, <1>2, <1>3 DEF Change
  <1>5. pc = "head" /\ pc' = "head_phase" /\ head' = "after"
    BY DEF PublishHead
  <1>6. Pending' = Pending
    BY <1>1, <1>2, <1>3, <1>4, <1>5 DEF Pending, Undoing, Undone, RolledBack, TypeOK,
        PlanInv
  <1>7. TypeOK'
    BY <1>1, <1>5 DEF TypeOK, PCs, Phases, Plans, NoOps
  <1>8. TreeInv'
    BY <1>1 DEF TreeInv
  <1>9. AuthorityInv'
    BY <1>1, <1>5 DEF AuthorityInv, AuthorityFollowsWorktree, Applying
  <1>10. PlanInv'
    BY <1>1, <1>3, <1>5 DEF TypeOK, PlanInv, Undoing
  <1>11. BackupInv'
    BY <1>1, <1>5, <1>6 DEF TypeOK, AuthorityInv, PlanInv, BackupInv, Applying, IsFile
  <1>12. UnforcedInv'
    BY <1>1, <1>2, <1>3, <1>4, <1>5 DEF TypeOK, UnforcedInv, Excused, Known, Applying,
        IsFile
  <1>13. WriteInv'
    BY <1>1, <1>2, <1>3, <1>4, <1>5 DEF TypeOK, AuthorityInv, PlanInv, WriteInv, Quiet,
        Ready, Applying
  <1>14. FileInv'
    BY <1>1, <1>2, <1>6 DEF TypeOK, AuthorityInv, FileInv, Quiet, Output, IsFile
  <1>15. DirInv'
    BY <1>1, <1>3, <1>5 DEF TypeOK, AuthorityInv, PlanInv, DirInv, Quiet, Owned,
        OwnedAbove, Ready, Applying, RolledBack
  <1>. QED BY <1>7, <1>8, <1>9, <1>10, <1>11, <1>12, <1>13, <1>14, <1>15

(* The journal follows HEAD.                                               *)
LEMMA SetHeadUpdatedStep ==
  ASSUME IInv, SetHeadUpdated
  PROVE  IInv'
  <1>. USE DEF IInv
  <1>1. /\ node' = node /\ index' = index /\ head' = head /\ txn' = txn
        /\ changes' = changes /\ made' = made /\ staged' = staged /\ backup' = backup
        /\ ops' = ops /\ todo' = todo /\ mode' = mode /\ force' = force
        /\ before' = before /\ touched' = touched /\ raced' = raced /\ case' = case
        /\ crashes' = crashes /\ edits' = edits /\ faults' = faults
    BY DEF SetHeadUpdated, authority, journal, history, bounds
  <1>2. Target' = Target /\ Current' = Current
    BY <1>1 DEF Target, Current
  <1>3. Kind' = Kind /\ Cur' = Cur
    BY <1>1, <1>2 DEF Kind, Cur
  <1>4. Change' = Change
    BY <1>1, <1>2, <1>3 DEF Change
  <1>5. pc = "head_phase" /\ pc' = "finish" /\ phase' = "head_updated"
    BY DEF SetHeadUpdated
  <1>6. Pending' = Pending
    BY <1>1, <1>2, <1>3, <1>4, <1>5 DEF Pending, Undoing, Undone, RolledBack, TypeOK,
        PlanInv
  <1>7. TypeOK'
    BY <1>1, <1>5 DEF TypeOK, PCs, Phases, Plans, NoOps
  <1>8. TreeInv'
    BY <1>1 DEF TreeInv
  <1>9. AuthorityInv'
    BY <1>1, <1>5 DEF AuthorityInv, AuthorityFollowsWorktree, Applying
  <1>10. PlanInv'
    BY <1>1, <1>3, <1>5 DEF TypeOK, PlanInv, Undoing
  <1>11. BackupInv'
    BY <1>1, <1>5, <1>6 DEF TypeOK, AuthorityInv, PlanInv, BackupInv, Applying, IsFile
  <1>12. UnforcedInv'
    BY <1>1, <1>2, <1>3, <1>4, <1>5 DEF TypeOK, UnforcedInv, Excused, Known, Applying,
        IsFile
  <1>13. WriteInv'
    BY <1>1, <1>2, <1>3, <1>4, <1>5 DEF TypeOK, AuthorityInv, PlanInv, WriteInv, Quiet,
        Ready, Applying
  <1>14. FileInv'
    BY <1>1, <1>2, <1>6 DEF TypeOK, AuthorityInv, FileInv, Quiet, Output, IsFile
  <1>15. DirInv'
    BY <1>1, <1>3, <1>5 DEF TypeOK, AuthorityInv, PlanInv, DirInv, Quiet, Owned,
        OwnedAbove, Ready, Applying, RolledBack
  <1>. QED BY <1>7, <1>8, <1>9, <1>10, <1>11, <1>12, <1>13, <1>14, <1>15

(* The transaction directory goes.                                         *)
LEMMA FinishStep ==
  ASSUME IInv, Finish
  PROVE  IInv'
  <1>. USE DEF IInv
  <1>1. /\ node' = node /\ index' = index /\ head' = head /\ phase' = phase
        /\ ops' = ops /\ todo' = todo /\ mode' = mode /\ force' = force
        /\ before' = before /\ touched' = touched /\ raced' = raced /\ case' = case
        /\ crashes' = crashes /\ edits' = edits /\ faults' = faults
    BY DEF Finish, authority, journal, local, history, bounds
  <1>2. Target' = Target /\ Current' = Current
    BY <1>1 DEF Target, Current
  <1>3. Kind' = Kind /\ Cur' = Cur
    BY <1>1, <1>2 DEF Kind, Cur
  <1>4. pc = "finish" /\ pc' = "idle" /\ txn' = "none"
    BY DEF Finish
  <1>5. changes' = <<>> /\ made' = {} /\ staged' = {} /\ backup' = Nothing
    BY DEF Finish
  <1>6. Nothing \in [Path -> Node] /\ \A p \in Path : Nothing[p] = Absent
    BY DEF Nothing, Node, MaybeFile
  <1>7. changes' \in Seq(Changes) /\ Len(changes') = 0 /\ todo = 0
    BY <1>1, <1>2, <1>3, <1>4, <1>5, <1>6 DEF PlanInv, Undoing
  <1>8. \A p \in Path : ~IsFile(Nothing, p)
    BY <1>1, <1>2, <1>3, <1>4, <1>5, <1>6, <1>7, ConstantsAssumption DEF IsFile,
        ConstantsAssumption
  <1>9. TypeOK'
    BY <1>1, <1>2, <1>3, <1>4, <1>5, <1>6, <1>7, <1>8 DEF TypeOK, PCs, Phases, Plans,
        NoOps
  <1>10. TreeInv'
    BY <1>1, <1>2, <1>3, <1>4, <1>5, <1>6, <1>7, <1>8 DEF TreeInv, WellFormed
  <1>11. AuthorityInv'
    BY <1>1, <1>4 DEF AuthorityInv, AuthorityFollowsWorktree, Applying
  <1>12. PlanInv'
    BY <1>1, <1>3, <1>4, <1>5, <1>7 DEF TypeOK, PlanInv, Undoing
  <1>13. BackupInv'
    BY <1>1, <1>2, <1>3, <1>4, <1>5, <1>6, <1>7, <1>8 DEF TypeOK, AuthorityInv, PlanInv,
        BackupInv, Applying, IsFile
  <1>14. UnforcedInv'
    BY <1>1, <1>2, <1>3, <1>4, <1>5, <1>6, <1>7, <1>8 DEF TypeOK, UnforcedInv, Excused,
        Known, Applying, IsFile
  <1>15. WriteInv'
    BY <1>1, <1>2, <1>3, <1>4, <1>5, <1>7 DEF WriteInv, Quiet
  <1>16. FileInv'
    BY <1>1, <1>2, <1>4, <1>5, <1>7 DEF FileInv, Quiet
  <1>17. DirInv'
    BY <1>1, <1>3, <1>4, <1>5, <1>7 DEF DirInv, Quiet
  <1>. QED BY <1>9, <1>10, <1>11, <1>12, <1>13, <1>14, <1>15, <1>16, <1>17

(* HEAD goes back first.                                                   *)
LEMMA RollbackHeadStep ==
  ASSUME IInv, RollbackHead
  PROVE  IInv'
  <1>. USE DEF IInv
  <1>1. /\ node' = node /\ index' = index /\ txn' = txn /\ phase' = phase
        /\ changes' = changes /\ made' = made /\ staged' = staged /\ backup' = backup
        /\ ops' = ops /\ todo' = todo /\ mode' = mode /\ force' = force
        /\ before' = before /\ touched' = touched /\ raced' = raced /\ case' = case
        /\ crashes' = crashes /\ edits' = edits /\ faults' = faults
    BY DEF RollbackHead, authority, journal, local, history, bounds
  <1>2. Target' = Target /\ Current' = Current
    BY <1>1 DEF Target, Current
  <1>3. Kind' = Kind /\ Cur' = Cur
    BY <1>1, <1>2 DEF Kind, Cur
  <1>4. Change' = Change
    BY <1>1, <1>2, <1>3 DEF Change
  <1>5. pc = "rb_head" /\ pc' = "rb_change" /\ head' = "before"
    BY DEF RollbackHead
  <1>6. Pending' = Pending
    BY <1>1, <1>2, <1>3, <1>4, <1>5 DEF Pending, Undoing, Undone, RolledBack, TypeOK,
        PlanInv
  <1>7. TypeOK'
    BY <1>1, <1>5 DEF TypeOK, PCs, Phases, Plans, NoOps
  <1>8. TreeInv'
    BY <1>1 DEF TreeInv
  <1>9. AuthorityInv'
    BY <1>1, <1>5 DEF AuthorityInv, AuthorityFollowsWorktree, Applying
  <1>10. PlanInv'
    BY <1>1, <1>3, <1>5 DEF TypeOK, PlanInv, Undoing
  <1>11. BackupInv'
    BY <1>1, <1>5, <1>6 DEF TypeOK, AuthorityInv, PlanInv, BackupInv, Applying, IsFile
  <1>12. UnforcedInv'
    BY <1>1, <1>2, <1>3, <1>4, <1>5 DEF TypeOK, UnforcedInv, Excused, Known, Applying,
        IsFile
  <1>13. WriteInv'
    BY <1>1, <1>2, <1>3, <1>4, <1>5 DEF TypeOK, AuthorityInv, PlanInv, WriteInv, Quiet,
        Ready, Applying
  <1>14. FileInv'
    BY <1>1, <1>2, <1>6 DEF TypeOK, AuthorityInv, FileInv, Quiet, Output, IsFile
  <1>15. DirInv'
    BY <1>1, <1>3, <1>5 DEF TypeOK, AuthorityInv, PlanInv, DirInv, Quiet, Owned,
        OwnedAbove, Ready, Applying, RolledBack
  <1>. QED BY <1>7, <1>8, <1>9, <1>10, <1>11, <1>12, <1>13, <1>14, <1>15

(* Nothing is left to undo.                                                *)
LEMMA RollbackDoneStep ==
  ASSUME IInv, RollbackParents, todo = 0
  PROVE  IInv'
  <1>. USE DEF IInv
  <1>1. /\ node' = node /\ index' = index /\ head' = head /\ txn' = txn
        /\ phase' = phase /\ changes' = changes /\ made' = made /\ staged' = staged
        /\ backup' = backup /\ ops' = ops /\ todo' = todo /\ mode' = mode
        /\ force' = force /\ before' = before /\ touched' = touched /\ raced' = raced
        /\ case' = case /\ crashes' = crashes /\ edits' = edits /\ faults' = faults
    BY DEF RollbackParents, authority, journal, history, bounds
  <1>2. Target' = Target /\ Current' = Current
    BY <1>1 DEF Target, Current
  <1>3. Kind' = Kind /\ Cur' = Cur
    BY <1>1, <1>2 DEF Kind, Cur
  <1>4. Change' = Change
    BY <1>1, <1>2, <1>3 DEF Change
  <1>5. pc = "rb_change" /\ pc' = "rb_dirs" /\ todo = 0
    BY DEF RollbackParents
  <1>6. Pending' = Pending
    BY <1>5 DEF Pending, Undoing, Undone, RolledBack, PlanInv
  <1>7. TypeOK'
    BY <1>1, <1>5 DEF TypeOK, PCs, Phases, Plans, NoOps
  <1>8. TreeInv'
    BY <1>1 DEF TreeInv
  <1>9. AuthorityInv'
    BY <1>1, <1>5 DEF AuthorityInv, AuthorityFollowsWorktree, Applying
  <1>10. PlanInv'
    BY <1>1, <1>3, <1>5 DEF TypeOK, PlanInv, Undoing
  <1>11. BackupInv'
    BY <1>1, <1>5, <1>6 DEF TypeOK, AuthorityInv, PlanInv, BackupInv, Applying, IsFile
  <1>12. UnforcedInv'
    BY <1>1, <1>2, <1>3, <1>4, <1>5 DEF TypeOK, UnforcedInv, Excused, Known, Applying,
        IsFile
  <1>13. WriteInv'
    BY <1>1, <1>2, <1>3, <1>4, <1>5 DEF TypeOK, AuthorityInv, PlanInv, WriteInv, Quiet,
        Ready, Applying
  <1>14. FileInv'
    BY <1>1, <1>2, <1>6 DEF TypeOK, AuthorityInv, FileInv, Quiet, Output, IsFile
  <1>15. DirInv'
    BY <1>1, <1>3, <1>5 DEF TypeOK, AuthorityInv, PlanInv, DirInv, Quiet, Owned,
        OwnedAbove, Ready, Applying, RolledBack
  <1>. QED BY <1>7, <1>8, <1>9, <1>10, <1>11, <1>12, <1>13, <1>14, <1>15

(* The parents of the next change are created.                             *)
LEMMA RollbackParentsStep ==
  ASSUME IInv, RollbackParents, todo > 0, ParentsSafe(Change.path)
  PROVE  IInv'
  <1>. USE DEF IInv
  <1>1. /\ index' = index /\ head' = head /\ txn' = txn /\ phase' = phase
        /\ changes' = changes /\ made' = made /\ staged' = staged /\ backup' = backup
        /\ ops' = ops /\ todo' = todo /\ mode' = mode /\ force' = force
        /\ before' = before /\ touched' = touched /\ raced' = raced /\ case' = case
        /\ crashes' = crashes /\ edits' = edits /\ faults' = faults
    BY DEF RollbackParents, authority, journal, history, bounds
  <1>2. Target' = Target /\ Current' = Current
    BY <1>1 DEF Target, Current
  <1>3. Kind' = Kind /\ Cur' = Cur
    BY <1>1, <1>2 DEF Kind, Cur
  <1>4. Change' = Change
    BY <1>1, <1>2, <1>3 DEF Change
  <1>5. pc = "rb_change" /\ pc' = "rb_check" /\ todo > 0
    BY DEF RollbackParents
  <1>6. todo \in 1..Len(changes) /\ Change = changes[todo] /\ Change \in Changes /\ Change.path \in Path
    <2>1. todo \in 1..Len(changes)
      BY <1>5 DEF TypeOK, PlanInv
    <2>2. Change \in Changes
      BY DEF TypeOK, Change
    <2>. QED BY <2>1, <2>2 DEF Change, Changes
  <1>7. node' = WithParents(node, Change.path)
    BY DEF RollbackParents
  <1>8. node \in [Path -> Node] /\ WellFormed(node)
    BY DEF TypeOK, TreeInv
  <1>9. /\ node' \in [Path -> Node] /\ WellFormed(node')
        /\ \A q \in Path : node'[q] = IF q \in Ancestors(Change.path) /\ node[q] = Absent THEN Dir ELSE node[q]
    BY <1>4, <1>6, <1>7, <1>8, WithParentsFacts DEF ParentsSafe
  <1>10. Absent \notin Contents /\ Dir \notin Contents /\ Absent # Dir
    BY ConstantsAssumption DEF ConstantsAssumption
  <1>11. Pending' = Pending
    BY <1>1, <1>2, <1>3, <1>4, <1>5, <1>6, <1>7, <1>8, <1>9, <1>10 DEF Pending, Undoing,
        Undone, RolledBack, TypeOK, PlanInv
  <1>12. TypeOK'
    BY <1>1, <1>5, <1>7, <1>9 DEF TypeOK, PCs
  <1>13. TreeInv'
    BY <1>1, <1>7, <1>9 DEF TreeInv
  <1>14. AuthorityInv'
    BY <1>1, <1>5 DEF AuthorityInv, AuthorityFollowsWorktree, Applying
  <1>15. PlanInv'
    BY <1>1, <1>3, <1>5 DEF TypeOK, PlanInv, Undoing
  <1>16. BackupInv'
    BY <1>1, <1>5, <1>11 DEF TypeOK, AuthorityInv, PlanInv, BackupInv, Applying, IsFile
  <1>17. UnforcedInv'
    BY <1>1, <1>2, <1>3, <1>4, <1>5, <1>7, <1>9 DEF TypeOK, UnforcedInv, Excused, Known,
        Applying, IsFile
  <1>18. WriteInv'
    BY <1>1, <1>2, <1>3, <1>4, <1>5, <1>7, <1>9 DEF TypeOK, AuthorityInv, PlanInv,
        WriteInv, Quiet, Ready, Applying
  <1>19. FileInv'
    <2>. SUFFICES ASSUME Quiet, NEW q \in Path
                  PROVE  /\ IsFile(before, q) => node'[q] = before[q] \/ backup[q] = before[q]
                         /\ IsFile(backup, q) => backup[q] = before[q]
                         /\ IsFile(node', q) /\ node'[q] # before[q] =>
                            \E k \in 1..Len(changes) : k <= Pending /\ Output(k, q)'
      BY <1>1, <1>2, <1>6, <1>7, <1>8, <1>9, <1>11 DEF FileInv, Quiet, IsFile
    <2>0. /\ IsFile(before, q) => node[q] = before[q] \/ backup[q] = before[q]
          /\ IsFile(backup, q) => backup[q] = before[q]
          /\ IsFile(node, q) /\ node[q] # before[q] =>
              \E k \in 1..Len(changes) : k <= Pending /\ Output(k, q)
      BY DEF FileInv
    <2>1. CASE node'[q] = node[q]
      <3>1. \A k : Output(k, q) => Output(k, q)'
        BY <1>1, <1>2, <1>6, <1>7, <1>8, <1>9, <2>1 DEF Output
      <3>. QED BY <2>0, <2>1, <3>1 DEF IsFile
    <2>2. CASE node'[q] = Dir /\ node[q] = Absent
      BY <1>1, <1>2, <1>3, <1>4, <1>5, <1>6, <1>7, <1>8, <1>9, <1>10, <1>11, <2>0, <2>2 DEF IsFile
    <2>. QED BY <1>1, <1>2, <1>3, <1>4, <1>5, <1>6, <1>7, <1>8, <1>9, <1>10, <1>11, <2>1, <2>2
  <1>20. DirInv'
    <2>1. ASSUME Quiet, NEW q \in Path, node'[q] = Dir PROVE Owned(q)
      BY <1>1, <1>2, <1>3, <1>4, <1>5, <1>6, <1>7, <1>8, <1>9, <1>10, <1>11, <2>1 DEF DirInv, OwnedAbove
    <2>. QED BY <1>1, <1>2, <1>3, <1>4, <1>5, <1>6, <1>7, <1>8, <1>9, <1>10, <1>11, <2>1 DEF TypeOK, AuthorityInv, PlanInv, DirInv, Quiet, Owned, OwnedAbove, Ready, Applying, RolledBack
  <1>. QED BY <1>12, <1>13, <1>14, <1>15, <1>16, <1>17, <1>18, <1>19, <1>20

(* What stands at the path is the published file or an empty directory.    *)
LEMMA RollbackToUnlinkStep ==
  ASSUME IInv, RollbackCheck, ~RollbackRefuses(Change), Unlinks(Change)
  PROVE  IInv'
  <1>. USE DEF IInv
  <1>1. /\ node' = node /\ index' = index /\ head' = head /\ txn' = txn
        /\ phase' = phase /\ changes' = changes /\ made' = made /\ staged' = staged
        /\ backup' = backup /\ ops' = ops /\ todo' = todo /\ mode' = mode
        /\ force' = force /\ before' = before /\ touched' = touched /\ raced' = raced
        /\ case' = case /\ crashes' = crashes /\ edits' = edits /\ faults' = faults
    BY DEF RollbackCheck, authority, journal, history, bounds
  <1>2. Target' = Target /\ Current' = Current
    BY <1>1 DEF Target, Current
  <1>3. Kind' = Kind /\ Cur' = Cur
    BY <1>1, <1>2 DEF Kind, Cur
  <1>4. Change' = Change
    BY <1>1, <1>2, <1>3 DEF Change
  <1>5. pc = "rb_check" /\ pc' = "rb_unlink"
    BY DEF RollbackCheck
  <1>6. todo \in 1..Len(changes) /\ Change = changes[todo] /\ Change \in Changes /\ Change.path \in Path
    <2>1. todo \in 1..Len(changes)
      BY <1>5 DEF TypeOK, PlanInv
    <2>2. Change \in Changes
      BY <2>1 DEF TypeOK, Change
    <2>. QED BY <2>1, <2>2 DEF Change, Changes
  <1>7. IF Change.expected THEN node[Change.path] = Target[Change.path] ELSE node[Change.path] = Dir
    BY DEF RollbackRefuses, Unlinks, RestoreRefuses, RemoveRefuses, OwnOutput
  <1>8. Pending' = Pending
    BY <1>1, <1>2, <1>3, <1>4, <1>5, <1>6, <1>7 DEF Pending, Undoing, Undone,
        RolledBack, TypeOK, PlanInv
  <1>9. TypeOK'
    BY <1>1, <1>5 DEF TypeOK, PCs, Phases, Plans, NoOps
  <1>10. TreeInv'
    BY <1>1 DEF TreeInv
  <1>11. AuthorityInv'
    BY <1>1, <1>5 DEF AuthorityInv, AuthorityFollowsWorktree, Applying
  <1>12. PlanInv'
    BY <1>1, <1>3, <1>5 DEF TypeOK, PlanInv, Undoing
  <1>13. BackupInv'
    BY <1>1, <1>5, <1>8 DEF TypeOK, AuthorityInv, PlanInv, BackupInv, Applying, IsFile
  <1>14. UnforcedInv'
    BY <1>1, <1>2, <1>3, <1>4, <1>5, <1>6, <1>7 DEF TypeOK, UnforcedInv, Excused, Known,
        Applying, IsFile
  <1>15. WriteInv'
    BY <1>1, <1>2, <1>3, <1>4, <1>5, <1>6, <1>7 DEF TypeOK, AuthorityInv, PlanInv,
        WriteInv, Quiet, Ready, Applying
  <1>16. FileInv'
    BY <1>1, <1>2, <1>8 DEF TypeOK, AuthorityInv, FileInv, Quiet, Output, IsFile
  <1>17. DirInv'
    BY <1>1, <1>3, <1>5 DEF TypeOK, AuthorityInv, PlanInv, DirInv, Quiet, Owned,
        OwnedAbove, Ready, Applying, RolledBack
  <1>. QED BY <1>9, <1>10, <1>11, <1>12, <1>13, <1>14, <1>15, <1>16, <1>17

(* Nothing stands at the path.                                             *)
LEMMA RollbackToRestoreStep ==
  ASSUME IInv, RollbackCheck, ~RollbackRefuses(Change), ~Unlinks(Change),
      backup[Change.path] # Absent
  PROVE  IInv'
  <1>. USE DEF IInv
  <1>1. /\ node' = node /\ index' = index /\ head' = head /\ txn' = txn
        /\ phase' = phase /\ changes' = changes /\ made' = made /\ staged' = staged
        /\ backup' = backup /\ ops' = ops /\ todo' = todo /\ mode' = mode
        /\ force' = force /\ before' = before /\ touched' = touched /\ raced' = raced
        /\ case' = case /\ crashes' = crashes /\ edits' = edits /\ faults' = faults
    BY DEF RollbackCheck, authority, journal, history, bounds
  <1>2. Target' = Target /\ Current' = Current
    BY <1>1 DEF Target, Current
  <1>3. Kind' = Kind /\ Cur' = Cur
    BY <1>1, <1>2 DEF Kind, Cur
  <1>4. Change' = Change
    BY <1>1, <1>2, <1>3 DEF Change
  <1>5. pc = "rb_check" /\ pc' = "rb_restore"
    BY DEF RollbackCheck
  <1>6. todo \in 1..Len(changes) /\ Change = changes[todo] /\ Change \in Changes /\ Change.path \in Path
    <2>1. todo \in 1..Len(changes)
      BY <1>5 DEF TypeOK, PlanInv
    <2>2. Change \in Changes
      BY <2>1 DEF TypeOK, Change
    <2>. QED BY <2>1, <2>2 DEF Change, Changes
  <1>7. Pending' = Pending
    BY <1>1, <1>2, <1>3, <1>4, <1>5, <1>6 DEF Pending, Undoing, Undone, RolledBack,
        TypeOK, PlanInv
  <1>8. TypeOK'
    BY <1>1, <1>5 DEF TypeOK, PCs, Phases, Plans, NoOps
  <1>9. TreeInv'
    BY <1>1 DEF TreeInv
  <1>10. AuthorityInv'
    BY <1>1, <1>5 DEF AuthorityInv, AuthorityFollowsWorktree, Applying
  <1>11. PlanInv'
    BY <1>1, <1>3, <1>5 DEF TypeOK, PlanInv, Undoing
  <1>12. BackupInv'
    BY <1>1, <1>5, <1>7 DEF TypeOK, AuthorityInv, PlanInv, BackupInv, Applying, IsFile
  <1>13. UnforcedInv'
    BY <1>1, <1>2, <1>3, <1>4, <1>5 DEF TypeOK, UnforcedInv, Excused, Known, Applying,
        IsFile
  <1>14. WriteInv'
    BY <1>1, <1>2, <1>3, <1>4, <1>5 DEF TypeOK, AuthorityInv, PlanInv, WriteInv, Quiet,
        Ready, Applying
  <1>15. FileInv'
    BY <1>1, <1>2, <1>7 DEF TypeOK, AuthorityInv, FileInv, Quiet, Output, IsFile
  <1>16. DirInv'
    BY <1>1, <1>3, <1>5 DEF TypeOK, AuthorityInv, PlanInv, DirInv, Quiet, Owned,
        OwnedAbove, Ready, Applying, RolledBack
  <1>. QED BY <1>8, <1>9, <1>10, <1>11, <1>12, <1>13, <1>14, <1>15, <1>16

(* The change never happened.                                              *)
LEMMA RollbackSkipStep ==
  ASSUME IInv, RollbackCheck, ~RollbackRefuses(Change), ~Unlinks(Change),
      backup[Change.path] = Absent
  PROVE  IInv'
  <1>. USE DEF IInv
  <1>1. /\ node' = node /\ index' = index /\ head' = head /\ txn' = txn
        /\ phase' = phase /\ changes' = changes /\ made' = made /\ staged' = staged
        /\ backup' = backup /\ ops' = ops /\ mode' = mode /\ force' = force
        /\ before' = before /\ touched' = touched /\ raced' = raced /\ case' = case
        /\ crashes' = crashes /\ edits' = edits /\ faults' = faults
    BY DEF RollbackCheck, authority, journal, history, bounds
  <1>2. Target' = Target /\ Current' = Current
    BY <1>1 DEF Target, Current
  <1>3. Kind' = Kind /\ Cur' = Cur
    BY <1>1, <1>2 DEF Kind, Cur
  <1>4. pc = "rb_check" /\ pc' = "rb_change" /\ todo' = todo - 1
    BY DEF RollbackCheck, UndoNext
  <1>5. todo \in 1..Len(changes) /\ Change = changes[todo] /\ Change \in Changes /\ Change.path \in Path
    <2>1. todo \in 1..Len(changes)
      BY <1>4 DEF TypeOK, PlanInv
    <2>2. Change \in Changes
      BY <2>1 DEF TypeOK, Change
    <2>. QED BY <2>1, <2>2 DEF Change, Changes
  <1>6. PICK p \in Path : p = Change.path /\ \A k \in 1..Len(changes) : changes[k].path = p => k = todo
    BY <1>5 DEF BackupInv
  <1>7. Absent \notin Contents /\ Dir \notin Contents /\ Absent # Dir
    BY ConstantsAssumption DEF ConstantsAssumption
  <1>8. \A q \in Subtree(p) : backup[q] = Absent
    BY <1>1, <1>2, <1>3, <1>4, <1>5, <1>6, <1>7, LeafFacts DEF TreeInv
  <1>9. Len(changes) \in Nat /\ todo' \in 0..Len(changes)
    BY <1>1, <1>4, <1>5, <1>6
  <1>10. Pending = todo /\ Pending' = todo - 1
    BY <1>4, <1>5, <1>6, <1>9 DEF Pending, Undoing
  <1>11. TypeOK'
    BY <1>1, <1>4, <1>9 DEF TypeOK, PCs, Phases, Plans, NoOps
  <1>12. TreeInv'
    BY <1>1 DEF TreeInv
  <1>13. AuthorityInv'
    BY <1>1, <1>4 DEF AuthorityInv, AuthorityFollowsWorktree, Applying
  <1>14. PlanInv'
    BY <1>1, <1>3, <1>4, <1>9 DEF TypeOK, PlanInv, Undoing
  <1>15. BackupInv'
    <2>1. ASSUME NEW q \in Path, IsFile(backup, q)
          PROVE  \E k \in 1..Len(changes) : k <= todo - 1 /\ q \in Subtree(changes[k].path)
      <3>1. PICK k \in 1..Len(changes) : k <= todo /\ q \in Subtree(changes[k].path)
        BY <1>1, <1>4, <1>5, <1>6, <1>9, <1>10, <2>1 DEF BackupInv
      <3>2. k # todo
        BY <1>1, <1>2, <1>3, <1>4, <1>5, <1>6, <1>7, <1>8, <1>9, <1>10, <2>1, <3>1 DEF IsFile
      <3>. QED BY <1>1, <1>2, <1>3, <1>4, <1>5, <1>6, <1>7, <1>8, <1>9, <1>10, <3>1, <3>2
    <2>. QED BY <1>1, <1>2, <1>3, <1>4, <1>5, <1>6, <1>7, <1>8, <1>9, <1>10, <2>1 DEF TypeOK, AuthorityInv, PlanInv, BackupInv, Applying, IsFile
  <1>16. UnforcedInv'
    BY <1>1, <1>2, <1>3, <1>4 DEF TypeOK, UnforcedInv, Excused, Known, Applying, IsFile
  <1>17. WriteInv'
    BY <1>1, <1>2, <1>3, <1>4 DEF TypeOK, AuthorityInv, PlanInv, WriteInv, Quiet, Ready,
        Applying
  <1>18. FileInv'
    <2>. SUFFICES ASSUME Quiet, NEW q \in Path, IsFile(node, q), node[q] # before[q]
                  PROVE  \E k \in 1..Len(changes) : k <= todo - 1 /\ Output(k, q)
      BY <1>1, <1>2, <1>4, <1>5, <1>6, <1>8, <1>9, <1>10 DEF AuthorityInv, FileInv,
          Quiet, Output, IsFile
    <2>1. PICK k \in 1..Len(changes) : k <= todo /\ Output(k, q)
      BY <1>10 DEF FileInv
    <2>2. k # todo
      BY <1>1, <1>2, <1>3, <1>4, <1>5, <1>6, <1>7, <1>8, <1>9, <1>10, <2>1 DEF Unlinks, Output, IsFile
    <2>. QED BY <1>1, <1>2, <1>3, <1>4, <1>5, <1>6, <1>7, <1>8, <1>9, <1>10, <2>1, <2>2
  <1>19. DirInv'
    BY <1>1, <1>3, <1>4 DEF TypeOK, AuthorityInv, PlanInv, DirInv, Quiet, Owned,
        OwnedAbove, Ready, Applying, RolledBack
  <1>. QED BY <1>11, <1>12, <1>13, <1>14, <1>15, <1>16, <1>17, <1>18, <1>19

(* The way is free for the backup.                                         *)
LEMMA UnlinkStep ==
  ASSUME IInv, RollbackUnlink, Unlinkable(Change), backup[Change.path] # Absent
  PROVE  IInv'
  <1>. USE DEF IInv
  <1>1. /\ index' = index /\ head' = head /\ txn' = txn /\ phase' = phase
        /\ changes' = changes /\ made' = made /\ staged' = staged /\ backup' = backup
        /\ ops' = ops /\ todo' = todo /\ mode' = mode /\ force' = force
        /\ before' = before /\ touched' = touched /\ raced' = raced /\ case' = case
        /\ crashes' = crashes /\ edits' = edits /\ faults' = faults
    BY DEF RollbackUnlink, authority, journal, history, bounds
  <1>2. Target' = Target /\ Current' = Current
    BY <1>1 DEF Target, Current
  <1>3. Kind' = Kind /\ Cur' = Cur
    BY <1>1, <1>2 DEF Kind, Cur
  <1>4. Change' = Change
    BY <1>1, <1>2, <1>3 DEF Change
  <1>5. pc = "rb_unlink" /\ pc' = "rb_restore"
    BY DEF RollbackUnlink
  <1>6. todo \in 1..Len(changes) /\ Change = changes[todo] /\ Change \in Changes /\ Change.path \in Path
    <2>1. todo \in 1..Len(changes)
      BY <1>5 DEF TypeOK, PlanInv
    <2>2. Change \in Changes
      BY <2>1 DEF TypeOK, Change
    <2>. QED BY <2>1, <2>2 DEF Change, Changes
  <1>7. PICK p \in Path : p = Change.path /\ \A k \in 1..Len(changes) : changes[k].path = p => k = todo
    BY <1>6 DEF BackupInv
  <1>8. Absent \notin Contents /\ Dir \notin Contents /\ Absent # Dir
    BY ConstantsAssumption DEF ConstantsAssumption
  <1>9. node' = [node EXCEPT ![p] = Absent]
    BY <1>1, <1>2, <1>3, <1>4, <1>5, <1>6, <1>7, <1>8 DEF RollbackUnlink
  <1>10. node \in [Path -> Node] /\ WellFormed(node) /\ Absent \in Node
    BY DEF TypeOK, TreeInv, Node, MaybeFile
  <1>11. node'[p] = Absent /\ \A q \in Path : q # p => node'[q] = node[q]
    BY <1>9, <1>10
  <1>12. IF Change.expected THEN IsFile(node, p) ELSE node[p] = Dir /\ EmptyAt(node, p)
    BY <1>4, <1>6, <1>7, <1>9, <1>10, <1>11 DEF Unlinkable
  <1>13. \A q \in Subtree(p) : q # p => node[q] = Absent
    <2>1. CASE Change.expected
      BY <1>1, <1>2, <1>3, <1>4, <1>5, <1>6, <1>7, <1>8, <1>9, <1>10, <1>11, <1>12, <2>1, LeafFacts DEF IsFile
    <2>2. CASE ~Change.expected
      BY <1>4, <1>6, <1>7, <1>12, <2>2 DEF EmptyAt
    <2>. QED BY <2>1, <2>2
  <1>14. node' \in [Path -> Node] /\ WellFormed(node')
    BY <1>9, <1>10, <1>11, <1>12, <1>13, SetIsTree
  <1>15. Quiet /\ IsFile(before, p) => node[p] # before[p]
    <2>1. Quiet /\ Change.expected => node[p] = Target[p] /\ before[p] # Target[p]
      BY <1>1, <1>2, <1>3, <1>4, <1>5, <1>6, <1>7, <1>8, <1>9, <1>10, <1>11, <1>12, <1>13, <1>14 DEF WriteInv
    <2>. QED BY <1>1, <1>2, <1>3, <1>4, <1>5, <1>6, <1>7, <1>8, <1>9, <1>10, <1>11, <1>12, <1>13, <1>14, <2>1 DEF IsFile
  <1>16. Len(changes) \in Nat
    BY DEF TypeOK
  <1>17. Pending = todo /\ Pending' = todo
    BY <1>1, <1>2, <1>3, <1>4, <1>5, <1>6, <1>7, <1>8, <1>9, <1>10, <1>11, <1>12, <1>13,
        <1>14, <1>15, <1>16 DEF Pending, Undoing
  <1>18. TypeOK'
    BY <1>1, <1>5, <1>9, <1>11, <1>14 DEF TypeOK, PCs
  <1>19. TreeInv'
    BY <1>1, <1>9, <1>11, <1>14 DEF TreeInv
  <1>20. AuthorityInv'
    BY <1>1, <1>5 DEF AuthorityInv, AuthorityFollowsWorktree, Applying
  <1>21. PlanInv'
    BY <1>1, <1>3, <1>5 DEF TypeOK, PlanInv, Undoing
  <1>22. BackupInv'
    BY <1>1, <1>5, <1>17 DEF TypeOK, AuthorityInv, PlanInv, BackupInv, Applying, IsFile
  <1>23. UnforcedInv'
    BY <1>1, <1>2, <1>3, <1>4, <1>5, <1>9, <1>11, <1>14 DEF TypeOK, UnforcedInv,
        Excused, Known, Applying, IsFile
  <1>24. WriteInv'
    BY <1>1, <1>2, <1>3, <1>4, <1>5, <1>9, <1>11, <1>14 DEF TypeOK, AuthorityInv,
        PlanInv, WriteInv, Quiet, Ready, Applying
  <1>25. FileInv'
    <2>. SUFFICES ASSUME Quiet, NEW q \in Path
                  PROVE  /\ IsFile(before, q) => node'[q] = before[q] \/ backup[q] = before[q]
                         /\ IsFile(backup, q) => backup[q] = before[q]
                         /\ IsFile(node', q) /\ node'[q] # before[q] =>
                            \E k \in 1..Len(changes) : k <= todo /\ Output(k, q)'
      BY <1>1, <1>2, <1>6, <1>7, <1>9, <1>10, <1>11, <1>12, <1>13, <1>14, <1>15, <1>16,
          <1>17 DEF FileInv, Quiet, IsFile
    <2>0. /\ IsFile(before, q) => node[q] = before[q] \/ backup[q] = before[q]
          /\ IsFile(backup, q) => backup[q] = before[q]
          /\ IsFile(node, q) /\ node[q] # before[q] =>
              \E k \in 1..Len(changes) : k <= todo /\ Output(k, q)
      BY <1>17 DEF FileInv
    <2>1. CASE q # p
      <3>1. \A k : Output(k, q) => Output(k, q)'
        BY <1>1, <1>2, <1>3, <1>4, <1>5, <1>6, <1>7, <1>8, <1>9, <1>10, <1>11, <1>12, <1>13, <1>14, <1>15, <1>16, <1>17, <2>1 DEF Output
      <3>2. \A k \in 1..Len(changes) : Output(k, q) => k # todo
        BY <1>1, <1>2, <1>3, <1>4, <1>5, <1>6, <1>7, <1>8, <1>9, <1>10, <1>11, <1>12, <1>13, <1>14, <1>15, <1>16, <1>17, <2>1 DEF Output
      <3>3. ASSUME IsFile(node', q), node'[q] # before[q]
            PROVE  \E k \in 1..Len(changes) : k <= todo /\ Output(k, q)'
        <4>1. IsFile(node, q) /\ node[q] # before[q]
          BY <1>1, <1>2, <1>3, <1>4, <1>5, <1>6, <1>7, <1>8, <1>9, <1>10, <1>11, <1>12, <1>13, <1>14, <1>15, <1>16, <1>17, <2>1, <3>3 DEF IsFile
        <4>2. PICK k \in 1..Len(changes) : k <= todo /\ Output(k, q)
          BY <2>0, <4>1
        <4>3. k # todo /\ Output(k, q)'
          BY <3>1, <3>2, <4>2
        <4>4. k <= todo - 1 /\ k <= todo
          BY <1>1, <1>6, <1>7, <1>17, <4>2, <4>3
        <4>. QED BY <4>3, <4>4
      <3>. QED BY <1>1, <1>2, <1>3, <1>4, <1>5, <1>6, <1>7, <1>8, <1>9, <1>10, <1>11, <1>12, <1>13, <1>14, <1>15, <1>16, <1>17, <2>0, <2>1, <3>3
    <2>2. CASE q = p
      BY <1>1, <1>2, <1>3, <1>4, <1>5, <1>6, <1>7, <1>8, <1>9, <1>10, <1>11, <1>12, <1>13, <1>14, <1>15, <1>16, <1>17, <2>0, <2>2 DEF IsFile
    <2>. QED BY <2>1, <2>2
  <1>26. DirInv'
    <2>1. ASSUME Quiet, NEW q \in Path, node'[q] = Dir PROVE Owned(q)
      BY <1>1, <1>2, <1>3, <1>4, <1>5, <1>6, <1>7, <1>8, <1>9, <1>10, <1>11, <1>12, <1>13, <1>14, <1>15, <1>16, <1>17, <2>1 DEF DirInv
    <2>. QED BY <1>1, <1>2, <1>3, <1>4, <1>5, <1>6, <1>7, <1>8, <1>9, <1>10, <1>11, <1>12, <1>13, <1>14, <1>15, <1>16, <1>17, <2>1 DEF TypeOK, AuthorityInv, PlanInv, DirInv, Quiet, Owned, OwnedAbove, Ready, Applying, RolledBack
  <1>. QED BY <1>18, <1>19, <1>20, <1>21, <1>22, <1>23, <1>24, <1>25, <1>26

(* A published file goes where nothing was.                                *)
LEMMA UnlinkNextStep ==
  ASSUME IInv, RollbackUnlink, Unlinkable(Change), backup[Change.path] = Absent
  PROVE  IInv'
  <1>. USE DEF IInv
  <1>1. /\ index' = index /\ head' = head /\ txn' = txn /\ phase' = phase
        /\ changes' = changes /\ made' = made /\ staged' = staged /\ backup' = backup
        /\ ops' = ops /\ mode' = mode /\ force' = force /\ before' = before
        /\ touched' = touched /\ raced' = raced /\ case' = case /\ crashes' = crashes
        /\ edits' = edits /\ faults' = faults
    BY DEF RollbackUnlink, authority, journal, history, bounds
  <1>2. Target' = Target /\ Current' = Current
    BY <1>1 DEF Target, Current
  <1>3. Kind' = Kind /\ Cur' = Cur
    BY <1>1, <1>2 DEF Kind, Cur
  <1>4. pc = "rb_unlink" /\ pc' = "rb_change" /\ todo' = todo - 1
    BY DEF RollbackUnlink, UndoNext
  <1>5. todo \in 1..Len(changes) /\ Change = changes[todo] /\ Change \in Changes /\ Change.path \in Path
    <2>1. todo \in 1..Len(changes)
      BY <1>4 DEF TypeOK, PlanInv
    <2>2. Change \in Changes
      BY <2>1 DEF TypeOK, Change
    <2>. QED BY <2>1, <2>2 DEF Change, Changes
  <1>6. PICK p \in Path : p = Change.path /\ \A k \in 1..Len(changes) : changes[k].path = p => k = todo
    BY <1>5 DEF BackupInv
  <1>7. Absent \notin Contents /\ Dir \notin Contents /\ Absent # Dir
    BY ConstantsAssumption DEF ConstantsAssumption
  <1>8. node' = [node EXCEPT ![p] = Absent]
    BY <1>1, <1>2, <1>3, <1>4, <1>5, <1>6, <1>7 DEF RollbackUnlink
  <1>9. node \in [Path -> Node] /\ WellFormed(node) /\ Absent \in Node
    BY DEF TypeOK, TreeInv, Node, MaybeFile
  <1>10. node'[p] = Absent /\ \A q \in Path : q # p => node'[q] = node[q]
    BY <1>8, <1>9
  <1>11. IF Change.expected THEN IsFile(node, p) ELSE node[p] = Dir /\ EmptyAt(node, p)
    BY <1>5, <1>6, <1>8, <1>9, <1>10 DEF Unlinkable
  <1>12. \A q \in Subtree(p) : q # p => node[q] = Absent
    <2>1. CASE Change.expected
      BY <1>1, <1>2, <1>3, <1>4, <1>5, <1>6, <1>7, <1>8, <1>9, <1>10, <1>11, <2>1, LeafFacts DEF IsFile
    <2>2. CASE ~Change.expected
      BY <1>5, <1>6, <1>11, <2>2 DEF EmptyAt
    <2>. QED BY <2>1, <2>2
  <1>13. node' \in [Path -> Node] /\ WellFormed(node')
    BY <1>8, <1>9, <1>10, <1>11, <1>12, SetIsTree
  <1>14. Quiet /\ IsFile(before, p) => node[p] # before[p]
    <2>1. Quiet /\ Change.expected => node[p] = Target[p] /\ before[p] # Target[p]
      BY <1>1, <1>2, <1>3, <1>4, <1>5, <1>6, <1>7, <1>8, <1>9, <1>10, <1>11, <1>12, <1>13 DEF WriteInv
    <2>. QED BY <1>1, <1>2, <1>3, <1>4, <1>5, <1>6, <1>7, <1>8, <1>9, <1>10, <1>11, <1>12, <1>13, <2>1 DEF IsFile
  <1>15. \A q \in Subtree(p) : backup[q] = Absent
    BY <1>1, <1>2, <1>3, <1>4, <1>5, <1>6, <1>7, <1>8, <1>9, <1>10, <1>11, <1>12, <1>13,
        <1>14, LeafFacts DEF TreeInv
  <1>16. Len(changes) \in Nat /\ todo' \in 0..Len(changes)
    BY <1>1, <1>4, <1>5, <1>6
  <1>17. Pending = todo /\ Pending' = todo - 1
    BY <1>4, <1>5, <1>6, <1>16 DEF Pending, Undoing
  <1>18. TypeOK'
    BY <1>1, <1>4, <1>8, <1>10, <1>13, <1>16 DEF TypeOK, PCs
  <1>19. TreeInv'
    BY <1>1, <1>8, <1>10, <1>13 DEF TreeInv
  <1>20. AuthorityInv'
    BY <1>1, <1>4 DEF AuthorityInv, AuthorityFollowsWorktree, Applying
  <1>21. PlanInv'
    BY <1>1, <1>3, <1>4, <1>16 DEF TypeOK, PlanInv, Undoing
  <1>22. BackupInv'
    <2>1. ASSUME NEW q \in Path, IsFile(backup, q)
          PROVE  \E k \in 1..Len(changes) : k <= todo - 1 /\ q \in Subtree(changes[k].path)
      <3>1. PICK k \in 1..Len(changes) : k <= todo /\ q \in Subtree(changes[k].path)
        BY <1>1, <1>4, <1>5, <1>6, <1>16, <1>17, <2>1 DEF BackupInv
      <3>2. k # todo
        BY <1>1, <1>2, <1>3, <1>4, <1>5, <1>6, <1>7, <1>8, <1>9, <1>10, <1>11, <1>12, <1>13, <1>14, <1>15, <1>16, <1>17, <2>1, <3>1 DEF IsFile
      <3>. QED BY <1>1, <1>2, <1>3, <1>4, <1>5, <1>6, <1>7, <1>8, <1>9, <1>10, <1>11, <1>12, <1>13, <1>14, <1>15, <1>16, <1>17, <3>1, <3>2
    <2>. QED BY <1>1, <1>2, <1>3, <1>4, <1>5, <1>6, <1>7, <1>8, <1>9, <1>10, <1>11, <1>12, <1>13, <1>14, <1>15, <1>16, <1>17, <2>1 DEF TypeOK, AuthorityInv, PlanInv, BackupInv, Applying, IsFile
  <1>23. UnforcedInv'
    BY <1>1, <1>2, <1>3, <1>4, <1>8, <1>10, <1>13 DEF TypeOK, UnforcedInv, Excused,
        Known, Applying, IsFile
  <1>24. WriteInv'
    BY <1>1, <1>2, <1>3, <1>4, <1>8, <1>10, <1>13 DEF TypeOK, AuthorityInv, PlanInv,
        WriteInv, Quiet, Ready, Applying
  <1>25. FileInv'
    <2>. SUFFICES ASSUME Quiet, NEW q \in Path
                  PROVE  /\ IsFile(before, q) => node'[q] = before[q] \/ backup[q] = before[q]
                         /\ IsFile(backup, q) => backup[q] = before[q]
                         /\ IsFile(node', q) /\ node'[q] # before[q] =>
                            \E k \in 1..Len(changes) : k <= todo - 1 /\ Output(k, q)'
      BY <1>1, <1>2, <1>4, <1>5, <1>6, <1>8, <1>9, <1>10, <1>11, <1>12, <1>13, <1>14,
          <1>15, <1>16, <1>17 DEF FileInv, Quiet, IsFile
    <2>0. /\ IsFile(before, q) => node[q] = before[q] \/ backup[q] = before[q]
          /\ IsFile(backup, q) => backup[q] = before[q]
          /\ IsFile(node, q) /\ node[q] # before[q] =>
              \E k \in 1..Len(changes) : k <= todo /\ Output(k, q)
      BY <1>17 DEF FileInv
    <2>1. CASE q # p
      <3>1. \A k : Output(k, q) => Output(k, q)'
        BY <1>1, <1>2, <1>3, <1>4, <1>5, <1>6, <1>7, <1>8, <1>9, <1>10, <1>11, <1>12, <1>13, <1>14, <1>15, <1>16, <1>17, <2>1 DEF Output
      <3>2. \A k \in 1..Len(changes) : Output(k, q) => k # todo
        BY <1>1, <1>2, <1>3, <1>4, <1>5, <1>6, <1>7, <1>8, <1>9, <1>10, <1>11, <1>12, <1>13, <1>14, <1>15, <1>16, <1>17, <2>1 DEF Output
      <3>3. ASSUME IsFile(node', q), node'[q] # before[q]
            PROVE  \E k \in 1..Len(changes) : k <= todo - 1 /\ Output(k, q)'
        <4>1. IsFile(node, q) /\ node[q] # before[q]
          BY <1>1, <1>2, <1>3, <1>4, <1>5, <1>6, <1>7, <1>8, <1>9, <1>10, <1>11, <1>12, <1>13, <1>14, <1>15, <1>16, <1>17, <2>1, <3>3 DEF IsFile
        <4>2. PICK k \in 1..Len(changes) : k <= todo /\ Output(k, q)
          BY <2>0, <4>1
        <4>3. k # todo /\ Output(k, q)'
          BY <3>1, <3>2, <4>2
        <4>4. k <= todo - 1 /\ k <= todo
          BY <1>4, <1>5, <1>6, <1>16, <1>17, <4>2, <4>3
        <4>. QED BY <4>3, <4>4
      <3>. QED BY <1>1, <1>2, <1>3, <1>4, <1>5, <1>6, <1>7, <1>8, <1>9, <1>10, <1>11, <1>12, <1>13, <1>14, <1>15, <1>16, <1>17, <2>0, <2>1, <3>3
    <2>2. CASE q = p
      BY <1>1, <1>2, <1>3, <1>4, <1>5, <1>6, <1>7, <1>8, <1>9, <1>10, <1>11, <1>12, <1>13, <1>14, <1>15, <1>16, <1>17, <2>0, <2>2 DEF IsFile
    <2>. QED BY <2>1, <2>2
  <1>26. DirInv'
    <2>1. ASSUME Quiet, NEW q \in Path, node'[q] = Dir PROVE Owned(q)
      BY <1>1, <1>2, <1>3, <1>4, <1>5, <1>6, <1>7, <1>8, <1>9, <1>10, <1>11, <1>12, <1>13, <1>14, <1>15, <1>16, <1>17, <2>1 DEF DirInv
    <2>. QED BY <1>1, <1>2, <1>3, <1>4, <1>5, <1>6, <1>7, <1>8, <1>9, <1>10, <1>11, <1>12, <1>13, <1>14, <1>15, <1>16, <1>17, <2>1 DEF TypeOK, AuthorityInv, PlanInv, DirInv, Quiet, Owned, OwnedAbove, Ready, Applying, RolledBack
  <1>. QED BY <1>18, <1>19, <1>20, <1>21, <1>22, <1>23, <1>24, <1>25, <1>26

(* The original moves back.                                                *)
LEMMA RestoreStep ==
  ASSUME IInv, RollbackRestore, node[Change.path] = Absent, \A a \in
      Ancestors(Change.path) : node[a] = Dir
  PROVE  IInv'
  <1>. USE DEF IInv
  <1>1. /\ index' = index /\ head' = head /\ txn' = txn /\ phase' = phase
        /\ changes' = changes /\ made' = made /\ staged' = staged /\ ops' = ops
        /\ mode' = mode /\ force' = force /\ before' = before /\ touched' = touched
        /\ raced' = raced /\ case' = case /\ crashes' = crashes /\ edits' = edits
        /\ faults' = faults
    BY DEF RollbackRestore, authority, journal, history, bounds
  <1>2. Target' = Target /\ Current' = Current
    BY <1>1 DEF Target, Current
  <1>3. Kind' = Kind /\ Cur' = Cur
    BY <1>1, <1>2 DEF Kind, Cur
  <1>4. pc = "rb_restore" /\ pc' = "rb_change" /\ todo' = todo - 1
    BY DEF RollbackRestore, UndoNext
  <1>5. todo \in 1..Len(changes) /\ Change = changes[todo] /\ Change \in Changes /\ Change.path \in Path
    <2>1. todo \in 1..Len(changes)
      BY <1>4 DEF TypeOK, PlanInv
    <2>2. Change \in Changes
      BY <2>1 DEF TypeOK, Change
    <2>. QED BY <2>1, <2>2 DEF Change, Changes
  <1>6. PICK p \in Path : p = Change.path /\ \A k \in 1..Len(changes) : changes[k].path = p => k = todo
    BY <1>5 DEF BackupInv
  <1>7. Absent \notin Contents /\ Dir \notin Contents /\ Absent # Dir
    BY ConstantsAssumption DEF ConstantsAssumption
  <1>8. node' = Grafted(node, backup, p) /\ backup' = Cleared(backup, p)
    BY <1>1, <1>2, <1>3, <1>4, <1>5, <1>6, <1>7 DEF RollbackRestore
  <1>9. node \in [Path -> Node] /\ backup \in [Path -> Node] /\ WellFormed(node) /\ WellFormed(backup)
    BY DEF TypeOK, TreeInv
  <1>10. /\ node' \in [Path -> Node] /\ WellFormed(node')
        /\ \A q \in Path : node'[q] = IF q \in Subtree(p) THEN backup[q] ELSE node[q]
    BY <1>1, <1>2, <1>3, <1>4, <1>5, <1>6, <1>7, <1>8, <1>9, GraftedFacts
  <1>11. /\ backup' \in [Path -> Node] /\ WellFormed(backup')
        /\ \A q \in Path : backup'[q] = IF q \in Subtree(p) THEN Absent ELSE backup[q]
    BY <1>8, <1>9, <1>10, ClearedFacts
  <1>12. \A q \in Subtree(p) : q \in Path /\ node[q] = Absent
    BY <1>1, <1>2, <1>3, <1>4, <1>5, <1>6, <1>7, <1>8, <1>9, <1>10, <1>11, LeafFacts,
        SubtreeFacts
  <1>13. p \in Subtree(p)
    BY SubtreeFacts
  <1>14. Len(changes) \in Nat /\ todo' \in 0..Len(changes)
    BY <1>1, <1>4, <1>5, <1>6
  <1>15. Pending = todo /\ Pending' = todo - 1
    BY <1>4, <1>5, <1>6, <1>14 DEF Pending, Undoing
  <1>16. TypeOK'
    BY <1>1, <1>4, <1>8, <1>10, <1>11, <1>14 DEF TypeOK, PCs
  <1>17. TreeInv'
    BY <1>1, <1>8, <1>10, <1>11 DEF TreeInv
  <1>18. AuthorityInv'
    BY <1>1, <1>4 DEF AuthorityInv, AuthorityFollowsWorktree, Applying
  <1>19. PlanInv'
    BY <1>1, <1>3, <1>4, <1>14 DEF TypeOK, PlanInv, Undoing
  <1>20. BackupInv'
    <2>1. ASSUME NEW q \in Path, IsFile(backup', q)
          PROVE  \E k \in 1..Len(changes) : k <= todo - 1 /\ q \in Subtree(changes[k].path)
      <3>1. q \notin Subtree(p) /\ IsFile(backup, q)
        BY <1>1, <1>2, <1>3, <1>4, <1>5, <1>6, <1>7, <1>8, <1>9, <1>10, <1>11, <1>12, <1>13, <1>14, <1>15, <2>1 DEF IsFile
      <3>2. PICK k \in 1..Len(changes) : k <= todo /\ q \in Subtree(changes[k].path)
        BY <1>1, <1>2, <1>3, <1>4, <1>5, <1>6, <1>7, <1>8, <1>9, <1>10, <1>11, <1>12, <1>13, <1>14, <1>15, <3>1 DEF BackupInv
      <3>3. k # todo
        BY <1>1, <1>2, <1>3, <1>4, <1>5, <1>6, <1>7, <1>8, <1>9, <1>10, <1>11, <1>12, <1>13, <1>14, <1>15, <3>1, <3>2
      <3>. QED BY <1>1, <1>2, <1>3, <1>4, <1>5, <1>6, <1>7, <1>8, <1>9, <1>10, <1>11, <1>12, <1>13, <1>14, <1>15, <3>2, <3>3
    <2>. QED BY <1>1, <1>2, <1>3, <1>4, <1>5, <1>6, <1>7, <1>8, <1>9, <1>10, <1>11, <1>12, <1>13, <1>14, <1>15, <2>1 DEF TypeOK, AuthorityInv, PlanInv, BackupInv, Applying, IsFile
  <1>21. UnforcedInv'
    <2>1. ASSUME NEW q \in Path, IsFile(backup', q) PROVE IsFile(backup, q) /\ backup'[q] = backup[q]
      BY <1>1, <1>2, <1>3, <1>4, <1>5, <1>6, <1>7, <1>8, <1>9, <1>10, <1>11, <1>12, <1>13, <1>14, <1>15, <2>1 DEF IsFile
    <2>. QED BY <1>1, <1>2, <1>3, <1>4, <1>5, <1>6, <1>7, <1>8, <1>9, <1>10, <1>11, <1>12, <1>13, <1>14, <1>15, <2>1 DEF UnforcedInv, Excused, Known, Applying, IsFile
  <1>22. WriteInv'
    BY <1>1, <1>2, <1>3, <1>4, <1>8, <1>10 DEF TypeOK, AuthorityInv, PlanInv, WriteInv,
        Quiet, Ready, Applying
  <1>23. FileInv'
    <2>. SUFFICES ASSUME Quiet, NEW q \in Path
                  PROVE  /\ IsFile(before, q) => node'[q] = before[q] \/ backup'[q] = before[q]
                         /\ IsFile(backup', q) => backup'[q] = before[q]
                         /\ IsFile(node', q) /\ node'[q] # before[q] =>
                            \E k \in 1..Len(changes) : k <= todo - 1 /\ Output(k, q)'
      BY <1>1, <1>2, <1>4, <1>5, <1>6, <1>8, <1>9, <1>10, <1>11, <1>12, <1>14, <1>15 DEF
          FileInv, Quiet, IsFile
    <2>0. /\ IsFile(before, q) => node[q] = before[q] \/ backup[q] = before[q]
          /\ IsFile(backup, q) => backup[q] = before[q]
          /\ IsFile(node, q) /\ node[q] # before[q] =>
              \E k \in 1..Len(changes) : k <= todo /\ Output(k, q)
      BY <1>15 DEF FileInv
    <2>1. CASE q \in Subtree(p)
      BY <1>1, <1>2, <1>3, <1>4, <1>5, <1>6, <1>7, <1>8, <1>9, <1>10, <1>11, <1>12, <1>13, <1>14, <1>15, <2>0, <2>1 DEF IsFile
    <2>2. CASE q \notin Subtree(p)
      <3>1. node'[q] = node[q] /\ backup'[q] = backup[q] /\ q # p
        BY <1>1, <1>2, <1>3, <1>4, <1>5, <1>6, <1>7, <1>8, <1>9, <1>10, <1>11, <1>12, <1>13, <1>14, <1>15, <2>2
      <3>2. ASSUME IsFile(node', q), node'[q] # before[q]
            PROVE  \E k \in 1..Len(changes) : k <= todo - 1 /\ Output(k, q)'
        <4>1. PICK k \in 1..Len(changes) : k <= todo /\ Output(k, q)
          BY <2>0, <3>1, <3>2 DEF IsFile
        <4>2. k # todo
          BY <1>1, <1>2, <1>3, <1>4, <1>5, <1>6, <1>7, <1>8, <1>9, <1>10, <1>11, <1>12, <1>13, <1>14, <1>15, <3>1, <4>1 DEF Output
        <4>3. Output(k, q)'
          BY <1>1, <1>2, <1>5, <1>6, <1>8, <1>9, <1>10, <1>11, <1>12, <1>14, <3>1, <4>1
              DEF Output
        <4>. QED BY <1>1, <1>2, <1>3, <1>4, <1>5, <1>6, <1>7, <1>8, <1>9, <1>10, <1>11, <1>12, <1>13, <1>14, <1>15, <4>1, <4>2, <4>3
      <3>. QED BY <2>0, <3>1, <3>2 DEF IsFile
    <2>. QED BY <2>1, <2>2
  <1>24. DirInv'
    <2>1. ASSUME Quiet, NEW q \in Path, backup[q] = Dir PROVE Owned(q)
      BY <1>1, <1>2, <1>3, <1>4, <1>5, <1>6, <1>7, <1>8, <1>9, <1>10, <1>11, <1>12, <1>13, <1>14, <1>15, <2>1 DEF DirInv
    <2>2. ASSUME Quiet, NEW q \in Path, node'[q] = Dir PROVE Owned(q)
      BY <1>1, <1>8, <1>9, <1>10, <1>12, <2>1, <2>2 DEF DirInv
    <2>3. ASSUME Quiet, NEW q \in Path, backup'[q] = Dir PROVE Owned(q)
      BY <1>1, <1>2, <1>3, <1>4, <1>5, <1>6, <1>7, <1>8, <1>9, <1>10, <1>11, <1>12, <1>13, <1>14, <1>15, <2>1, <2>3
    <2>. QED BY <1>1, <1>2, <1>3, <1>4, <1>5, <1>6, <1>7, <1>8, <1>9, <1>10, <1>11, <1>12, <1>13, <1>14, <1>15, <2>2, <2>3 DEF TypeOK, AuthorityInv, PlanInv, DirInv, Quiet, Owned, OwnedAbove, Ready, Applying, RolledBack
  <1>. QED BY <1>16, <1>17, <1>18, <1>19, <1>20, <1>21, <1>22, <1>23, <1>24

(* The directories the transaction made go while they are empty.           *)
LEMMA RollbackDirsStep ==
  ASSUME IInv, RollbackDirs, \A d \in made : ParentsSafe(d)
  PROVE  IInv'
  <1>. USE DEF IInv
  <1>1. /\ index' = index /\ head' = head /\ txn' = txn /\ phase' = phase
        /\ changes' = changes /\ made' = made /\ staged' = staged /\ backup' = backup
        /\ ops' = ops /\ todo' = todo /\ mode' = mode /\ force' = force
        /\ before' = before /\ touched' = touched /\ raced' = raced /\ case' = case
        /\ crashes' = crashes /\ edits' = edits /\ faults' = faults
    BY DEF RollbackDirs, authority, journal, history, bounds
  <1>2. Target' = Target /\ Current' = Current
    BY <1>1 DEF Target, Current
  <1>3. Kind' = Kind /\ Cur' = Cur
    BY <1>1, <1>2 DEF Kind, Cur
  <1>4. Change' = Change
    BY <1>1, <1>2, <1>3 DEF Change
  <1>5. pc = "rb_dirs" /\ pc' = "rb_index"
    BY DEF RollbackDirs
  <1>6. Absent \notin Contents /\ Dir \notin Contents /\ Absent # Dir
    BY ConstantsAssumption DEF ConstantsAssumption
  <1>7. node \in [Path -> Node] /\ WellFormed(node) /\ made \in SUBSET Path
    BY DEF TypeOK, TreeInv
  <1>8. \A q \in Path : Reparented[q] = IF node[q] = Absent /\ \E d \in made : q \in Ancestors(d) THEN Dir ELSE node[q]
    BY DEF Reparented
  <1>9. WellFormed(Reparented)
    <2>. SUFFICES ASSUME NEW q \in Path, Reparented[q] # Absent, NEW a \in Ancestors(q)
                  PROVE  Reparented[a] = Dir
      BY DEF WellFormed
    <2>1. a \in Path
      BY AncestorsArePaths
    <2>2. CASE node[q] # Absent
      BY <1>1, <1>2, <1>3, <1>4, <1>5, <1>6, <1>7, <1>8, <2>1, <2>2 DEF WellFormed
    <2>3. CASE node[q] = Absent
      <3>1. PICK d \in made : q \in Ancestors(d)
        BY <1>1, <1>2, <1>3, <1>4, <1>5, <1>6, <1>7, <1>8, <2>3
      <3>2. d \in Path /\ a \in Ancestors(d)
        BY <1>1, <1>2, <1>3, <1>4, <1>5, <1>6, <1>7, <1>8, <3>1, AboveTransitive
      <3>3. node[a] \in {Dir, Absent}
        BY <3>2 DEF ParentsSafe
      <3>. QED BY <1>1, <1>2, <1>3, <1>4, <1>5, <1>6, <1>7, <1>8, <2>1, <3>1, <3>2, <3>3
    <2>. QED BY <2>2, <2>3
  <1>10. \A q \in Path : node'[q] = IF q \in EmptyMade THEN Absent ELSE Reparented[q]
    BY DEF RollbackDirs
  <1>11. node' \in [Path -> Node]
    <2>1. \A q \in Path : (IF q \in EmptyMade THEN Absent ELSE Reparented[q]) \in Node
      BY <1>1, <1>2, <1>3, <1>4, <1>5, <1>6, <1>7, <1>8, <1>9, <1>10 DEF Node, MaybeFile
    <2>. QED BY <2>1 DEF RollbackDirs
  <1>12. WellFormed(node')
    <2>. SUFFICES ASSUME NEW q \in Path, node'[q] # Absent, NEW a \in Ancestors(q)
                  PROVE  node'[a] = Dir
      BY DEF WellFormed
    <2>1. a \in Path /\ q \in Subtree(a)
      BY AncestorsArePaths, SubtreeFacts
    <2>2. Reparented[q] # Absent /\ q \notin EmptyMade
      BY <1>1, <1>2, <1>3, <1>4, <1>5, <1>6, <1>7, <1>8, <1>9, <1>10, <1>11
    <2>3. Reparented[a] = Dir
      BY <1>1, <1>2, <1>3, <1>4, <1>5, <1>6, <1>7, <1>8, <1>9, <1>10, <1>11, <2>2 DEF WellFormed
    <2>4. ASSUME a \in EmptyMade PROVE FALSE
      <3>1. q \in made /\ Reparented[q] = Dir
        BY <2>1, <2>2, <2>4 DEF EmptyMade
      <3>2. \A r \in Subtree(q) : r \in Subtree(a)
        BY SubtreeFacts
      <3>3. q \in EmptyMade
        BY <2>4, <3>1, <3>2 DEF EmptyMade
      <3>. QED BY <2>2, <3>3
    <2>. QED BY <1>1, <1>2, <1>3, <1>4, <1>5, <1>6, <1>7, <1>8, <1>9, <1>10, <1>11, <2>1, <2>3, <2>4
  <1>13. \A q \in Path : \/ node'[q] = node[q]
                         \/ ~IsFile(node, q) /\ node'[q] \in {Dir, Absent}
    BY <1>1, <1>2, <1>3, <1>4, <1>5, <1>6, <1>7, <1>8, <1>9, <1>10, <1>11, <1>12 DEF
        EmptyMade, IsFile
  <1>14. todo = 0 /\ Pending = 0 /\ Pending' = 0
    BY <1>1, <1>2, <1>3, <1>4, <1>5, <1>6, <1>7, <1>8, <1>9, <1>10, <1>11, <1>12, <1>13
        DEF PlanInv, Pending, Undoing, Undone
  <1>15. Quiet => \A q \in Path : IsFile(node, q) => node[q] = before[q]
    BY <1>14 DEF FileInv
  <1>16. ASSUME Quiet, NEW q \in Path, node'[q] = Dir PROVE before[q] = Dir
    <2>1. Reparented[q] = Dir /\ q \notin EmptyMade
      BY <1>1, <1>2, <1>3, <1>4, <1>5, <1>6, <1>7, <1>8, <1>9, <1>10, <1>11, <1>12, <1>13, <1>14, <1>15, <1>16
    <2>2. \A r \in Path : before[r] # Absent /\ q \in Ancestors(r) => before[q] = Dir
      BY DEF TreeInv, WellFormed
    <2>3. CASE q \in made
      <3>1. PICK r \in Subtree(q) : Reparented[r] # Absent /\ ~(r \in made /\ Reparented[r] = Dir)
        BY <2>1, <2>3 DEF EmptyMade
      <3>2. r # q /\ r \in Path /\ q \in Ancestors(r)
        BY <2>1, <2>3, <3>1, SubtreeFacts
      <3>3. before[r] # Absent
        <4>1. CASE node[r] = Absent
          <5>1. Reparented[r] = Dir /\ r \notin made /\ \E d \in made : r \in Ancestors(d)
            BY <1>1, <1>2, <1>3, <1>4, <1>5, <1>6, <1>7, <1>8, <1>9, <1>10, <1>11, <1>12, <1>13, <1>14, <1>15, <3>1, <3>2, <4>1
          <5>2. before[r] = Dir
            BY <5>1, <1>16 DEF DirInv, OwnedAbove, Owned
          <5>. QED BY <1>1, <1>2, <1>3, <1>4, <1>5, <1>6, <1>7, <1>8, <1>9, <1>10, <1>11, <1>12, <1>13, <1>14, <1>15, <5>2
        <4>2. CASE node[r] = Dir
          <5>1. r \notin made
            BY <1>1, <1>2, <1>3, <1>4, <1>5, <1>6, <1>7, <1>8, <1>9, <1>10, <1>11, <1>12, <1>13, <1>14, <1>15, <3>1, <3>2, <4>2
          <5>2. before[r] = Dir
            BY <3>2, <4>2, <5>1, <1>16 DEF DirInv, Owned
          <5>. QED BY <1>1, <1>2, <1>3, <1>4, <1>5, <1>6, <1>7, <1>8, <1>9, <1>10, <1>11, <1>12, <1>13, <1>14, <1>15, <5>2
        <4>3. CASE IsFile(node, r)
          BY <1>1, <1>2, <1>3, <1>4, <1>5, <1>6, <1>7, <1>8, <1>9, <1>10, <1>11, <1>12, <1>13, <1>14, <1>15, <3>2, <4>3, <1>16 DEF IsFile
        <4>. QED BY <1>1, <1>2, <1>3, <1>4, <1>5, <1>6, <1>7, <1>8, <1>9, <1>10, <1>11, <1>12, <1>13, <1>14, <1>15, <3>2, <4>1, <4>2, <4>3 DEF Node, MaybeFile, IsFile
      <3>. QED BY <2>2, <3>2, <3>3
    <2>4. CASE q \notin made /\ node[q] = Dir
      BY <2>4, <1>16 DEF DirInv, Owned
    <2>5. CASE q \notin made /\ node[q] # Dir
      <3>1. \E d \in made : q \in Ancestors(d)
        BY <1>1, <1>2, <1>3, <1>4, <1>5, <1>6, <1>7, <1>8, <1>9, <1>10, <1>11, <1>12, <1>13, <1>14, <1>15, <2>1, <2>5
      <3>. QED BY <2>5, <3>1, <1>16 DEF DirInv, OwnedAbove, Owned
    <2>. QED BY <2>3, <2>4, <2>5
  <1>17. TypeOK'
    BY <1>1, <1>5, <1>10, <1>11, <1>12, <1>13, <1>16 DEF TypeOK, PCs
  <1>18. TreeInv'
    BY <1>1, <1>10, <1>11, <1>12, <1>13, <1>16 DEF TreeInv
  <1>19. AuthorityInv'
    BY <1>1, <1>5 DEF AuthorityInv, AuthorityFollowsWorktree, Applying
  <1>20. PlanInv'
    BY <1>1, <1>3, <1>5 DEF TypeOK, PlanInv, Undoing
  <1>21. BackupInv'
    BY <1>1, <1>5, <1>14 DEF TypeOK, AuthorityInv, PlanInv, BackupInv, Applying, IsFile
  <1>22. UnforcedInv'
    BY <1>1, <1>2, <1>3, <1>4, <1>5, <1>10, <1>11, <1>12, <1>13, <1>16 DEF TypeOK,
        UnforcedInv, Excused, Known, Applying, IsFile
  <1>23. WriteInv'
    BY <1>1, <1>2, <1>3, <1>4, <1>5, <1>10, <1>11, <1>12, <1>13, <1>16 DEF TypeOK,
        AuthorityInv, PlanInv, WriteInv, Quiet, Ready, Applying
  <1>24. FileInv'
    <2>. SUFFICES ASSUME Quiet, NEW q \in Path
                  PROVE  /\ IsFile(before, q) => node'[q] = before[q] \/ backup[q] = before[q]
                         /\ IsFile(backup, q) => backup[q] = before[q]
                         /\ IsFile(node', q) => node'[q] = before[q]
      BY <1>1, <1>7, <1>8, <1>10, <1>11, <1>12, <1>13, <1>15, <1>16 DEF FileInv, Quiet,
          IsFile
    <2>1. /\ IsFile(before, q) => node[q] = before[q] \/ backup[q] = before[q]
          /\ IsFile(backup, q) => backup[q] = before[q]
      BY DEF FileInv
    <2>. QED BY <1>1, <1>2, <1>3, <1>4, <1>5, <1>6, <1>7, <1>8, <1>9, <1>10, <1>11, <1>12, <1>13, <1>14, <1>15, <1>16, <2>1 DEF IsFile
  <1>25. DirInv'
    <2>1. Quiet => \A q \in Path : node'[q] = Dir => before[q] = Dir
      BY <1>16
    <2>. QED BY <1>1, <1>2, <1>3, <1>4, <1>5, <1>6, <1>7, <1>8, <1>9, <1>10, <1>11, <1>12, <1>13, <1>14, <1>15, <1>16, <2>1 DEF TypeOK, AuthorityInv, PlanInv, DirInv, Quiet, Owned, OwnedAbove, Ready, Applying, RolledBack
  <1>. QED BY <1>17, <1>18, <1>19, <1>20, <1>21, <1>22, <1>23, <1>24, <1>25

(* The Index goes back.                                                    *)
LEMMA RollbackIndexStep ==
  ASSUME IInv, RollbackIndex
  PROVE  IInv'
  <1>. USE DEF IInv
  <1>1. /\ node' = node /\ head' = head /\ txn' = txn /\ phase' = phase
        /\ changes' = changes /\ made' = made /\ staged' = staged /\ backup' = backup
        /\ ops' = ops /\ todo' = todo /\ mode' = mode /\ force' = force
        /\ before' = before /\ touched' = touched /\ raced' = raced /\ case' = case
        /\ crashes' = crashes /\ edits' = edits /\ faults' = faults
    BY DEF RollbackIndex, authority, journal, local, history, bounds
  <1>2. Target' = Target /\ Current' = Current
    BY <1>1 DEF Target, Current
  <1>3. Kind' = Kind /\ Cur' = Cur
    BY <1>1, <1>2 DEF Kind, Cur
  <1>4. Change' = Change
    BY <1>1, <1>2, <1>3 DEF Change
  <1>5. pc = "rb_index" /\ pc' = "rb_phase" /\ index' = "before"
    BY DEF RollbackIndex
  <1>6. Pending' = Pending
    BY <1>5 DEF Pending, Undoing, Undone, RolledBack, PlanInv
  <1>7. TypeOK'
    BY <1>1, <1>5 DEF TypeOK, PCs, Phases, Plans, NoOps
  <1>8. TreeInv'
    BY <1>1 DEF TreeInv
  <1>9. AuthorityInv'
    BY <1>1, <1>5 DEF AuthorityInv, AuthorityFollowsWorktree, Applying
  <1>10. PlanInv'
    BY <1>1, <1>3, <1>5 DEF TypeOK, PlanInv, Undoing
  <1>11. BackupInv'
    BY <1>1, <1>5, <1>6 DEF TypeOK, AuthorityInv, PlanInv, BackupInv, Applying, IsFile
  <1>12. UnforcedInv'
    BY <1>1, <1>2, <1>3, <1>4, <1>5 DEF TypeOK, UnforcedInv, Excused, Known, Applying,
        IsFile
  <1>13. WriteInv'
    BY <1>1, <1>2, <1>3, <1>4, <1>5 DEF TypeOK, AuthorityInv, PlanInv, WriteInv, Quiet,
        Ready, Applying
  <1>14. FileInv'
    BY <1>1, <1>2, <1>6 DEF TypeOK, AuthorityInv, FileInv, Quiet, Output, IsFile
  <1>15. DirInv'
    BY <1>1, <1>3, <1>5 DEF TypeOK, AuthorityInv, PlanInv, DirInv, Quiet, Owned,
        OwnedAbove, Ready, Applying, RolledBack
  <1>. QED BY <1>7, <1>8, <1>9, <1>10, <1>11, <1>12, <1>13, <1>14, <1>15

(* The rollback is recorded.                                               *)
LEMMA SetRolledBackStep ==
  ASSUME IInv, SetRolledBack
  PROVE  IInv'
  <1>. USE DEF IInv
  <1>1. /\ node' = node /\ index' = index /\ head' = head /\ txn' = txn
        /\ changes' = changes /\ made' = made /\ staged' = staged /\ backup' = backup
        /\ ops' = ops /\ todo' = todo /\ mode' = mode /\ force' = force
        /\ before' = before /\ touched' = touched /\ raced' = raced /\ case' = case
        /\ crashes' = crashes /\ edits' = edits /\ faults' = faults
    BY DEF SetRolledBack, authority, journal, local, history, bounds
  <1>2. Target' = Target /\ Current' = Current
    BY <1>1 DEF Target, Current
  <1>3. Kind' = Kind /\ Cur' = Cur
    BY <1>1, <1>2 DEF Kind, Cur
  <1>4. Change' = Change
    BY <1>1, <1>2, <1>3 DEF Change
  <1>5. pc = "rb_phase" /\ pc' \in {"replay", "finish"} /\ phase' = "rolled_back"
    BY DEF SetRolledBack
  <1>6. Pending' = Pending
    BY <1>5 DEF Pending, Undoing, Undone, RolledBack, PlanInv
  <1>7. TypeOK'
    BY <1>1, <1>5 DEF TypeOK, PCs, Phases, Plans, NoOps
  <1>8. TreeInv'
    BY <1>1 DEF TreeInv
  <1>9. AuthorityInv'
    BY <1>1, <1>5 DEF AuthorityInv, AuthorityFollowsWorktree, Applying
  <1>10. PlanInv'
    BY <1>1, <1>3, <1>5 DEF TypeOK, PlanInv, Undoing
  <1>11. BackupInv'
    BY <1>1, <1>5, <1>6 DEF TypeOK, AuthorityInv, PlanInv, BackupInv, Applying, IsFile
  <1>12. UnforcedInv'
    BY <1>1, <1>2, <1>3, <1>4, <1>5 DEF TypeOK, UnforcedInv, Excused, Known, Applying,
        IsFile
  <1>13. WriteInv'
    BY <1>1, <1>2, <1>3, <1>4, <1>5 DEF TypeOK, AuthorityInv, PlanInv, WriteInv, Quiet,
        Ready, Applying
  <1>14. FileInv'
    BY <1>1, <1>2, <1>6 DEF TypeOK, AuthorityInv, FileInv, Quiet, Output, IsFile
  <1>15. DirInv'
    BY <1>1, <1>3, <1>5 DEF TypeOK, AuthorityInv, PlanInv, DirInv, Quiet, Owned,
        OwnedAbove, Ready, Applying, RolledBack
  <1>. QED BY <1>7, <1>8, <1>9, <1>10, <1>11, <1>12, <1>13, <1>14, <1>15

(* The replay clears the journal.                                          *)
LEMMA ReplayStep ==
  ASSUME IInv, Replay, PreflightOK(TRUE)
  PROVE  IInv'
  <1>. USE DEF IInv
  <1>1. /\ node' = node /\ index' = index /\ head' = head /\ txn' = txn
        /\ staged' = staged /\ backup' = backup /\ todo' = todo /\ mode' = mode
        /\ before' = before /\ touched' = touched /\ raced' = raced /\ case' = case
        /\ crashes' = crashes /\ edits' = edits /\ faults' = faults
    BY DEF Replay, authority, journal, local, history, bounds
  <1>2. Target' = Target /\ Current' = Current
    BY <1>1 DEF Target, Current
  <1>3. pc = "replay" /\ pc' = "reset" /\ force' = TRUE /\ phase' = "prepared" /\ changes' = <<>> /\ made' = {}
    BY DEF Replay
  <1>4. ops' \in Plans
    <2>1. Writes(TRUE) \in SUBSET Path
      BY DEF Writes
    <2>2. NoOps \in Plans
      BY DEF NoOps, Plans
    <2>3. ops' = [NoOps EXCEPT !.write = Writes(TRUE)]
      BY DEF Replay
    <2>. QED BY <2>1, <2>2, <2>3 DEF Plans
  <1>5. changes' \in Seq(Changes) /\ Len(changes') = 0 /\ todo = 0
    BY <1>1, <1>3 DEF PlanInv, Undoing
  <1>6. Pending = 0 /\ Pending' = 0
    BY <1>1, <1>2, <1>3, <1>4, <1>5 DEF Pending, Undoing, Undone, RolledBack
  <1>7. \A p \in Path : ~IsFile(backup, p)
    BY <1>6 DEF BackupInv
  <1>8. Quiet => \A q \in Path : IsFile(node, q) => node[q] = before[q]
    BY <1>1, <1>2, <1>3, <1>4, <1>5, <1>6, <1>7 DEF FileInv, TypeOK
  <1>9. TypeOK'
    BY <1>1, <1>3, <1>4, <1>5 DEF TypeOK, PCs, Phases
  <1>10. TreeInv'
    BY <1>1 DEF TreeInv
  <1>11. AuthorityInv'
    BY <1>1, <1>3 DEF AuthorityInv, AuthorityFollowsWorktree, Applying
  <1>12. PlanInv'
    BY <1>1, <1>3, <1>4, <1>5 DEF TypeOK, PlanInv, Undoing
  <1>13. BackupInv'
    BY <1>1, <1>3, <1>5, <1>6 DEF TypeOK, AuthorityInv, PlanInv, BackupInv, Applying,
        IsFile
  <1>14. UnforcedInv'
    BY <1>1, <1>2, <1>3, <1>4 DEF TypeOK, UnforcedInv, Excused, Known, Applying, IsFile
  <1>15. WriteInv'
    BY <1>1, <1>2, <1>3, <1>4, <1>5 DEF TypeOK, AuthorityInv, PlanInv, WriteInv, Quiet,
        Ready, Applying
  <1>16. FileInv'
    BY <1>1, <1>2, <1>3, <1>5, <1>6 DEF TypeOK, AuthorityInv, FileInv, Quiet, Output,
        IsFile
  <1>17. DirInv'
    BY <1>1, <1>3, <1>4, <1>5 DEF TypeOK, AuthorityInv, PlanInv, DirInv, Quiet, Owned,
        OwnedAbove, Ready, Applying, RolledBack
  <1>. QED BY <1>9, <1>10, <1>11, <1>12, <1>13, <1>14, <1>15, <1>16, <1>17

(* The old staged files and backups go.                                    *)
LEMMA ResetDirectoriesStep ==
  ASSUME IInv, ResetDirectories
  PROVE  IInv'
  <1>. USE DEF IInv
  <1>1. /\ node' = node /\ index' = index /\ head' = head /\ txn' = txn
        /\ phase' = phase /\ changes' = changes /\ made' = made /\ ops' = ops
        /\ todo' = todo /\ mode' = mode /\ force' = force /\ before' = before
        /\ touched' = touched /\ raced' = raced /\ case' = case /\ crashes' = crashes
        /\ edits' = edits /\ faults' = faults
    BY DEF ResetDirectories, authority, journal, local, history, bounds
  <1>2. Target' = Target /\ Current' = Current
    BY <1>1 DEF Target, Current
  <1>3. Kind' = Kind /\ Cur' = Cur
    BY <1>1, <1>2 DEF Kind, Cur
  <1>4. Change' = Change
    BY <1>1, <1>2, <1>3 DEF Change
  <1>5. pc = "reset" /\ pc' = "restage" /\ staged' = {} /\ backup' = Nothing
    BY DEF ResetDirectories
  <1>6. Nothing \in [Path -> Node] /\ \A p \in Path : Nothing[p] = Absent
    BY DEF Nothing, Node, MaybeFile
  <1>7. NoOps \in Plans /\ ops.write \in SUBSET Path
    BY DEF NoOps, Plans, TypeOK
  <1>8. changes = <<>> /\ Len(changes) = 0 /\ todo = 0
    BY <1>1, <1>2, <1>3, <1>4, <1>5, <1>6, <1>7 DEF PlanInv, Undoing
  <1>9. Pending = 0 /\ Pending' = 0
    BY <1>1, <1>2, <1>3, <1>4, <1>5, <1>6, <1>7, <1>8 DEF Pending, Undoing, Undone,
        RolledBack
  <1>10. \A p \in Path : ~IsFile(backup, p) /\ ~IsFile(Nothing, p)
    BY <1>1, <1>2, <1>3, <1>4, <1>5, <1>6, <1>7, <1>8, <1>9, ConstantsAssumption DEF
        BackupInv, TypeOK, IsFile, ConstantsAssumption
  <1>11. Quiet => \A q \in Path : /\ IsFile(node, q) => node[q] = before[q]
                                 /\ IsFile(before, q) => node[q] = before[q]
    BY <1>10 DEF FileInv, IsFile
  <1>12. TypeOK'
    BY <1>1, <1>2, <1>3, <1>4, <1>5, <1>6, <1>7, <1>8, <1>9, <1>10, <1>11 DEF TypeOK,
        PCs
  <1>13. TreeInv'
    BY <1>1, <1>2, <1>3, <1>4, <1>5, <1>6, <1>7, <1>8, <1>9, <1>10, <1>11 DEF TreeInv,
        WellFormed
  <1>14. AuthorityInv'
    BY <1>1, <1>5 DEF AuthorityInv, AuthorityFollowsWorktree, Applying
  <1>15. PlanInv'
    BY <1>1, <1>3, <1>5 DEF TypeOK, PlanInv, Undoing
  <1>16. BackupInv'
    BY <1>1, <1>5, <1>8, <1>9, <1>10, <1>11 DEF TypeOK, AuthorityInv, PlanInv,
        BackupInv, Applying, IsFile
  <1>17. UnforcedInv'
    BY <1>1, <1>2, <1>3, <1>4, <1>5, <1>7, <1>10, <1>11 DEF TypeOK, UnforcedInv,
        Excused, Known, Applying, IsFile
  <1>18. WriteInv'
    BY <1>1, <1>2, <1>3, <1>4, <1>5 DEF TypeOK, AuthorityInv, PlanInv, WriteInv, Quiet,
        Ready, Applying
  <1>19. FileInv'
    BY <1>1, <1>2, <1>5, <1>8, <1>9, <1>10, <1>11 DEF TypeOK, AuthorityInv, FileInv,
        Quiet, Output, IsFile
  <1>20. DirInv'
    BY <1>1, <1>3, <1>5 DEF TypeOK, AuthorityInv, PlanInv, DirInv, Quiet, Owned,
        OwnedAbove, Ready, Applying, RolledBack
  <1>. QED BY <1>12, <1>13, <1>14, <1>15, <1>16, <1>17, <1>18, <1>19, <1>20

(* The replay stages its files.                                            *)
LEMMA RestageStep ==
  ASSUME IInv, Restage
  PROVE  IInv'
  <1>. USE DEF IInv
  <1>1. /\ node' = node /\ index' = index /\ head' = head /\ txn' = txn
        /\ phase' = phase /\ changes' = changes /\ made' = made /\ backup' = backup
        /\ todo' = todo /\ mode' = mode /\ force' = force /\ before' = before
        /\ touched' = touched /\ raced' = raced /\ case' = case /\ crashes' = crashes
        /\ edits' = edits /\ faults' = faults
    BY DEF Restage, authority, journal, local, history, bounds
  <1>2. Target' = Target /\ Current' = Current
    BY <1>1 DEF Target, Current
  <1>3. Change' = Change
    BY <1>1, <1>2 DEF Change
  <1>4. pc = "restage" /\ pc' = "preflight" /\ staged' = ops.write /\ ops' = NoOps
    BY DEF Restage
  <1>5. Nothing \in [Path -> Node] /\ \A p \in Path : Nothing[p] = Absent
    BY DEF Nothing, Node, MaybeFile
  <1>6. NoOps \in Plans /\ ops.write \in SUBSET Path
    BY DEF NoOps, Plans, TypeOK
  <1>7. changes = <<>> /\ Len(changes) = 0 /\ todo = 0
    BY <1>1, <1>2, <1>3, <1>4, <1>5, <1>6 DEF PlanInv, Undoing
  <1>8. Pending = 0 /\ Pending' = 0
    BY <1>1, <1>2, <1>3, <1>4, <1>5, <1>6, <1>7 DEF Pending, Undoing, Undone, RolledBack
  <1>9. \A p \in Path : ~IsFile(backup, p) /\ ~IsFile(Nothing, p)
    BY <1>1, <1>2, <1>3, <1>4, <1>5, <1>6, <1>7, <1>8, ConstantsAssumption DEF
        BackupInv, TypeOK, IsFile, ConstantsAssumption
  <1>10. Quiet => \A q \in Path : /\ IsFile(node, q) => node[q] = before[q]
                                 /\ IsFile(before, q) => node[q] = before[q]
    BY <1>9 DEF FileInv, IsFile
  <1>11. TypeOK'
    BY <1>1, <1>4, <1>6, <1>7, <1>9, <1>10 DEF TypeOK, PCs
  <1>12. TreeInv'
    BY <1>1 DEF TreeInv, WellFormed
  <1>13. AuthorityInv'
    BY <1>1, <1>4 DEF AuthorityInv, AuthorityFollowsWorktree, Applying
  <1>14. PlanInv'
    BY <1>1, <1>4 DEF TypeOK, PlanInv, Undoing
  <1>15. BackupInv'
    BY <1>1, <1>4, <1>8 DEF TypeOK, AuthorityInv, PlanInv, BackupInv, Applying, IsFile
  <1>16. UnforcedInv'
    BY <1>1, <1>2, <1>3, <1>4 DEF TypeOK, UnforcedInv, Excused, Known, Applying, IsFile
  <1>17. WriteInv'
    BY <1>1, <1>2, <1>3, <1>4 DEF TypeOK, AuthorityInv, PlanInv, WriteInv, Quiet, Ready,
        Applying
  <1>18. FileInv'
    BY <1>1, <1>2, <1>4, <1>8 DEF TypeOK, AuthorityInv, FileInv, Quiet, Output, IsFile
  <1>19. DirInv'
    BY <1>1, <1>4 DEF TypeOK, AuthorityInv, PlanInv, DirInv, Quiet, Owned, OwnedAbove,
        Ready, Applying, RolledBack
  <1>. QED BY <1>11, <1>12, <1>13, <1>14, <1>15, <1>16, <1>17, <1>18, <1>19

(* The user changes a path.                                                *)
LEMMA UserEditStep ==
  ASSUME IInv, NEW p \in Path, NEW c \in Node, UserEdit(p, c)
  PROVE  IInv'
  <1>. USE DEF IInv
  <1>1. /\ index' = index /\ head' = head /\ txn' = txn /\ phase' = phase
        /\ changes' = changes /\ made' = made /\ staged' = staged /\ backup' = backup
        /\ pc' = pc /\ ops' = ops /\ todo' = todo /\ mode' = mode /\ force' = force
        /\ before' = before /\ case' = case /\ crashes' = crashes /\ faults' = faults
    BY DEF UserEdit, authority, journal, local, history, bounds
  <1>2. Target' = Target /\ Current' = Current
    BY <1>1 DEF Target, Current
  <1>3. Kind' = Kind /\ Cur' = Cur
    BY <1>1, <1>2 DEF Kind, Cur
  <1>4. Change' = Change
    BY <1>1, <1>2, <1>3 DEF Change
  <1>5. touched' = touched \cup {p} /\ raced \subseteq raced'
    BY DEF UserEdit
  <1>6. raced' \subseteq Path
    <2>1. \A q \in Subtree(p) : q \in Path
      BY SubtreeFacts
    <2>. QED BY <2>1 DEF UserEdit, TypeOK
  <1>7. edits' \in 0..Cases[case].edits
    BY ConstantsAssumption DEF ConstantsAssumption, UserEdit, TypeOK
  <1>8. node' \in [Path -> Node] /\ WellFormed(node') /\ \A q \in Path : q # p => node'[q] = node[q]
    BY DEF UserEdit, TypeOK
  <1>9. ~Quiet'
    BY <1>1, <1>5 DEF Quiet
  <1>10. pc \in {"parents", "intent", "rename"} => \A q \in Subtree(Cur) : q \in Path /\ (q = p => p \in raced')
    <2>. SUFFICES ASSUME pc \in {"parents", "intent", "rename"}, NEW q \in Subtree(Cur)
                  PROVE  q \in Path /\ (q = p => p \in raced')
      OBVIOUS
    <2>1. Cur \in Path /\ CheckedPath = {Cur}
      BY CurFacts DEF PlanInv, TypeOK, CheckedPath
    <2>2. q \in Path /\ (q = Cur \/ Cur \in Ancestors(q))
      BY <2>1, SubtreeFacts
    <2>3. p \in Subtree(p)
      BY SubtreeFacts
    <2>. QED BY <2>1, <2>2, <2>3 DEF UserEdit
  <1>11. pc = "rb_unlink" => Change.path \in Path /\ (Change.path = p => p \in raced')
    <2>. SUFFICES ASSUME pc = "rb_unlink"
                  PROVE  Change.path \in Path /\ (Change.path = p => p \in raced')
      OBVIOUS
    <2>1. todo \in 1..Len(changes)
      BY DEF TypeOK, PlanInv
    <2>2. Change \in Changes
      BY <2>1 DEF TypeOK, Change
    <2>0. Change.path \in Path
      BY <2>2 DEF Changes
    <2>3. CheckedPath = {Change.path}
      BY DEF CheckedPath
    <2>4. p \in Subtree(p)
      BY SubtreeFacts
    <2>. QED BY <2>0, <2>3, <2>4 DEF UserEdit
  <1>12. Pending' = Pending
    BY <1>1, <1>2, <1>3, <1>4, <1>5, <1>6, <1>7, <1>8, <1>9, <1>10, <1>11 DEF Pending,
        RolledBack
  <1>13. TypeOK'
    BY <1>1, <1>5, <1>6, <1>7, <1>8, <1>10, <1>11 DEF TypeOK
  <1>14. TreeInv'
    BY <1>1, <1>8 DEF TreeInv
  <1>15. AuthorityInv'
    BY <1>1, <1>10, <1>11 DEF AuthorityInv, AuthorityFollowsWorktree, Applying
  <1>16. PlanInv'
    BY <1>1, <1>3, <1>10, <1>11 DEF TypeOK, PlanInv, Undoing
  <1>17. BackupInv'
    BY <1>1, <1>10, <1>11, <1>12 DEF TypeOK, AuthorityInv, PlanInv, BackupInv, Applying,
        IsFile
  <1>18. UnforcedInv'
    BY <1>1, <1>2, <1>3, <1>4, <1>5, <1>6, <1>8, <1>10, <1>11 DEF TypeOK, UnforcedInv,
        Excused, Known, Applying, IsFile
  <1>19. WriteInv'
    BY <1>1, <1>2, <1>3, <1>4, <1>5, <1>8, <1>9, <1>10, <1>11 DEF WriteInv
  <1>20. FileInv'
    BY <1>1, <1>2, <1>5, <1>8, <1>9, <1>12 DEF FileInv
  <1>21. DirInv'
    BY <1>1, <1>3, <1>5, <1>8, <1>9, <1>10, <1>11 DEF DirInv
  <1>. QED BY <1>13, <1>14, <1>15, <1>16, <1>17, <1>18, <1>19, <1>20, <1>21

-----------------------------------------------------------------------------
(* The invariant holds initially.                                          *)
LEMMA InitStep ==
  ASSUME Init
  PROVE  IInv
  <1>. USE DEF Init
  <1>1. node \in [Path -> Node] /\ WellFormed(node)
    BY StartTreesAssumption DEF StartTreesAssumption
  <1>2. Nothing \in [Path -> Node] /\ \A p \in Path : Nothing[p] = Absent
    BY DEF Nothing, Node, MaybeFile
  <1>3. \A p \in Path : ~IsFile(Nothing, p)
    BY <1>2, ConstantsAssumption DEF IsFile, ConstantsAssumption
  <1>4. NoOps \in Plans /\ changes \in Seq(Changes) /\ Len(changes) = 0
    BY DEF NoOps, Plans
  <1>5. TypeOK
    <2>1. /\ crashes \in 0..Cases[case].crashes /\ edits \in 0..Cases[case].edits
          /\ faults \in 0..Cases[case].faults
      BY ConstantsAssumption DEF ConstantsAssumption
    <2>2. todo \in 0..Len(changes)
      BY <1>4
    <2>. QED BY <1>1, <1>2, <1>4, <2>1, <2>2 DEF TypeOK, PCs, Phases
  <1>6. TreeInv
    BY <1>1, <1>2 DEF TreeInv, WellFormed
  <1>7. AuthorityInv
    BY DEF AuthorityInv, AuthorityFollowsWorktree, Applying
  <1>8. PlanInv
    BY DEF PlanInv
  <1>9. BackupInv
    BY <1>3, <1>4 DEF BackupInv, Applying
  <1>10. UnforcedInv
    BY <1>3 DEF UnforcedInv, Applying
  <1>11. WriteInv /\ FileInv /\ DirInv
    BY DEF WriteInv, FileInv, DirInv, Quiet
  <1>. QED BY <1>5, <1>6, <1>7, <1>8, <1>9, <1>10, <1>11 DEF IInv

(* Rollback refuses.                                                       *)
LEMMA RefuseStep ==
  ASSUME IInv, Refuse
  PROVE  IInv'
  <1>1. /\ ops' \in Plans /\ mode' \in {"checkout", "recover", "abort"}
        /\ crashes' \in 0..Cases[case].crashes /\ edits' \in 0..Cases[case].edits
        /\ faults' \in 0..Cases[case].faults
    BY DEF Refuse, IInv, TypeOK, bounds
  <1>2. /\ pc' = "idle" /\ todo' = 0
        /\ UNCHANGED <<node, authority, journal, force, history, case>>
    BY DEF Refuse, bounds, history
  <1>. QED BY <1>1, <1>2, ToIdle

(* A step of apply that finds something in the way.                        *)
LEMMA FailStep ==
  ASSUME IInv, pc \in Applying \cup {"index", "idle"}, txn = "formal", StartRollback,
         UNCHANGED <<node, authority, journal, mode, force, history, bounds>>
  PROVE  IInv'
  <1>1. /\ mode' \in {"checkout", "recover", "abort"}
        /\ crashes' \in 0..Cases[case].crashes /\ edits' \in 0..Cases[case].edits
        /\ faults' \in 0..Cases[case].faults
    BY DEF IInv, TypeOK, bounds
  <1>2. UNCHANGED <<node, authority, journal, force, history, case>>
    BY DEF bounds
  <1>. QED BY <1>1, <1>2, ToRollback

(* A running command is inside its transaction.                            *)
LEMMA RunningIsFormal ==
  ASSUME IInv, pc \in Applying \cup {"index"}
  PROVE  txn = "formal"
  BY DEF IInv, AuthorityInv, Applying

LEMMA BeginOpStep ==
  ASSUME IInv, BeginOp
  PROVE  IInv'
  <1>1. CASE ops = NoOps
    BY <1>1, BeginOpDoneStep
  <1>2. CASE ops # NoOps /\ (~Unchanged(Kind, Cur) \/ (Kind = "remove" /\ ~ParentsSafe(Cur)))
    <2>1. /\ pc = "op" /\ StartRollback
          /\ UNCHANGED <<node, authority, journal, mode, force, history, bounds>>
      BY <1>2 DEF BeginOp, journal
    <2>2. txn = "formal" /\ pc \in Applying
      BY <2>1, RunningIsFormal DEF Applying
    <2>. QED BY <2>1, <2>2, FailStep
  <1>3. CASE ops # NoOps /\ Unchanged(Kind, Cur) /\ ~(Kind = "remove" /\ ~ParentsSafe(Cur))
    <2>1. /\ pc = "op" /\ UNCHANGED <<node, authority, journal, todo, mode, force, history, bounds>>
      BY <1>3 DEF BeginOp, journal, NextOp
    <2>2. CASE Kind = "remove" /\ node[Cur] = Absent
      <3>1. NextOp
        BY <1>3, <2>2 DEF BeginOp
      <3>. QED BY <1>3, <2>1, <3>1, ToNextOp
    <2>3. CASE ~(Kind = "remove" /\ node[Cur] = Absent)
      <3>1. Kind \in {"displace", "remove", "write"}
        BY <1>3, CurFacts DEF IInv, TypeOK
      <3>2. /\ UNCHANGED ops /\ pc' \in {"intent", "parents"}
            /\ pc' = "parents" <=> Kind = "write"
        BY <1>3, <2>3, <3>1 DEF BeginOp
      <3>. QED BY <1>3, <2>1, <2>3, <3>2, BeginOpGoStep
    <2>. QED BY <2>2, <2>3
  <1>. QED BY <1>1, <1>2, <1>3

LEMMA BackUpIntentStep ==
  ASSUME IInv, BackUpIntent
  PROVE  IInv'
  <1>1. pc = "intent" /\ ops # NoOps /\ txn = "formal" /\ pc \in Applying
    BY RunningIsFormal DEF BackUpIntent, IInv, PlanInv, Applying
  <1>2. CASE Journaled(Cur) = {} /\ ~ParentsSafe(Cur)
    <2>1. StartRollback /\ UNCHANGED <<node, authority, journal, mode, force, history, bounds>>
      BY <1>2 DEF BackUpIntent, journal
    <2>. QED BY <1>1, <2>1, FailStep
  <1>3. CASE Journaled(Cur) = {} /\ ParentsSafe(Cur) /\ Vanished
    <2>1. NextOp /\ UNCHANGED <<node, authority, journal, todo, mode, force, history, bounds>>
      BY <1>3 DEF BackUpIntent, journal
    <2>. QED BY <1>1, <2>1, ToNextOp
  <1>. QED BY <1>2, <1>3, IntentStep, IntentAgainStep

LEMMA EnsureParentsStep ==
  ASSUME IInv, EnsureParents
  PROVE  IInv'
  <1>1. CASE ~ParentsSafe(Cur)
    <2>1. /\ pc = "parents" /\ StartRollback
          /\ UNCHANGED <<node, authority, journal, mode, force, history, bounds>>
      BY <1>1 DEF EnsureParents, journal
    <2>2. txn = "formal" /\ pc \in Applying
      BY <2>1, RunningIsFormal DEF Applying
    <2>. QED BY <2>1, <2>2, FailStep
  <1>2. CASE ParentsSafe(Cur)
    BY <1>2, ParentsThereStep, JournalParentStep, MakeParentStep
  <1>. QED BY <1>1, <1>2

LEMMA BackUpRenameStep ==
  ASSUME IInv, BackUpRename
  PROVE  IInv'
  <1>1. CASE node[Cur] = Absent \/ backup[Cur] # Absent \/ \E a \in Ancestors(Cur) : IsFile(backup, a)
    <2>1. /\ pc = "rename" /\ StartRollback
          /\ UNCHANGED <<node, authority, journal, mode, force, history, bounds>>
      BY <1>1 DEF BackUpRename, journal
    <2>2. txn = "formal" /\ pc \in Applying
      BY <2>1, RunningIsFormal DEF Applying
    <2>. QED BY <2>1, <2>2, FailStep
  <1>. QED BY <1>1, RenameStep

LEMMA PublishFileAnyStep ==
  ASSUME IInv, PublishFile
  PROVE  IInv'
  <1>0. pc = "publish_file" /\ ops # NoOps
    BY DEF PublishFile, IInv, PlanInv
  <1>1. CASE Kind # "write"
    <2>1. NextOp /\ UNCHANGED <<node, authority, journal, todo, mode, force, history, bounds>>
      BY <1>1 DEF PublishFile, journal
    <2>. QED BY <1>0, <2>1, ToNextOp
  <1>2. CASE Kind = "write" /\ (node[Cur] # Absent \/ \E a \in Ancestors(Cur) : node[a] # Dir)
    <2>1. StartRollback /\ UNCHANGED <<node, authority, journal, mode, force, history, bounds>>
      BY <1>2 DEF PublishFile, journal
    <2>2. txn = "formal" /\ pc \in Applying
      BY <1>0, RunningIsFormal DEF Applying
    <2>. QED BY <2>1, <2>2, FailStep
  <1>. QED BY <1>1, <1>2, PublishFileStep

LEMMA WriteIndexAnyStep ==
  ASSUME IInv, WriteIndex
  PROVE  IInv'
  <1>1. CASE UNCHANGED faults
    BY <1>1, WriteIndexStep
  <1>2. CASE faults' # faults
    <2>1. /\ pc = "index" /\ StartRollback
          /\ UNCHANGED <<node, authority, journal, mode, force, history, case, crashes, edits>>
      BY <1>2 DEF WriteIndex, authority
    <2>2. faults' \in 0..Cases[case].faults
      BY <1>2, ConstantsAssumption DEF ConstantsAssumption, WriteIndex, IInv, TypeOK
    <2>3. /\ mode' \in {"checkout", "recover", "abort"}
          /\ crashes' \in 0..Cases[case].crashes /\ edits' \in 0..Cases[case].edits
      BY <2>1 DEF IInv, TypeOK
    <2>4. txn = "formal"
      BY <2>1, RunningIsFormal
    <2>. QED BY <2>1, <2>2, <2>3, <2>4, ToRollback
  <1>. QED BY <1>1, <1>2

LEMMA RollbackStep ==
  ASSUME IInv, RollbackParents \/ RollbackCheck \/ RollbackUnlink \/ RollbackRestore \/ RollbackDirs
  PROVE  IInv'
  <1>1. CASE RollbackParents
    <2>1. todo = 0 \/ todo > 0
      BY DEF IInv, TypeOK
    <2>2. CASE todo > 0 /\ ~ParentsSafe(Change.path)
      <3>1. Refuse
        BY <1>1, <2>2 DEF RollbackParents
      <3>. QED BY <3>1, RefuseStep
    <2>. QED BY <1>1, <2>1, <2>2, RollbackDoneStep, RollbackParentsStep
  <1>2. CASE RollbackCheck
    <2>1. CASE RollbackRefuses(Change)
      BY <1>2, <2>1, RefuseStep DEF RollbackCheck
    <2>. QED BY <1>2, <2>1, RollbackToUnlinkStep, RollbackToRestoreStep, RollbackSkipStep
  <1>3. CASE RollbackUnlink
    <2>1. CASE ~Unlinkable(Change)
      BY <1>3, <2>1, RefuseStep DEF RollbackUnlink
    <2>. QED BY <1>3, <2>1, UnlinkStep, UnlinkNextStep
  <1>4. CASE RollbackRestore
    <2>1. CASE node[Change.path] # Absent \/ \E a \in Ancestors(Change.path) : node[a] # Dir
      BY <1>4, <2>1, RefuseStep DEF RollbackRestore
    <2>. QED BY <1>4, <2>1, RestoreStep
  <1>5. CASE RollbackDirs
    <2>1. CASE \E d \in made : ~ParentsSafe(d)
      BY <1>5, <2>1, RefuseStep DEF RollbackDirs
    <2>. QED BY <1>5, <2>1, RollbackDirsStep
  <1>. QED BY <1>1, <1>2, <1>3, <1>4, <1>5

(* A preflight that fails, before the first apply or in a replay.          *)
LEMMA GiveUpStep ==
  ASSUME IInv, \/ Preflight /\ ~(PreflightOK(force) /\ Writes(force) \subseteq staged)
               \/ Replay /\ ~PreflightOK(TRUE)
  PROVE  IInv'
  <1>1. /\ pc' = "idle" /\ ops' = ops /\ todo' = todo /\ pc \in {"preflight", "replay"}
        /\ UNCHANGED <<node, authority, journal, mode, force, history, bounds>>
    BY DEF Preflight, Replay, journal
  <1>2. todo' = 0
    BY <1>1 DEF IInv, PlanInv, Undoing
  <1>3. /\ ops' \in Plans /\ mode' \in {"checkout", "recover", "abort"}
        /\ crashes' \in 0..Cases[case].crashes /\ edits' \in 0..Cases[case].edits
        /\ faults' \in 0..Cases[case].faults
    BY <1>1 DEF IInv, TypeOK, bounds
  <1>4. UNCHANGED <<node, authority, journal, force, history, case>>
    BY <1>1 DEF bounds
  <1>. QED BY <1>1, <1>2, <1>3, <1>4, ToIdle

LEMMA CrashStep ==
  ASSUME IInv, Crash
  PROVE  IInv'
  <1>1. /\ pc' = "idle" /\ ops' = NoOps /\ todo' = 0
        /\ UNCHANGED <<node, authority, journal, mode, force, history, case, edits, faults>>
    BY DEF Crash
  <1>2. NoOps \in Plans
    BY DEF NoOps, Plans
  <1>3. crashes' \in 0..Cases[case].crashes
    BY ConstantsAssumption DEF ConstantsAssumption, Crash, IInv, TypeOK
  <1>4. /\ mode' \in {"checkout", "recover", "abort"}
        /\ edits' \in 0..Cases[case].edits /\ faults' \in 0..Cases[case].faults
    BY <1>1 DEF IInv, TypeOK
  <1>. QED BY <1>1, <1>2, <1>3, <1>4, ToIdle

LEMMA RecoverStep ==
  ASSUME IInv, NEW m \in {"recover", "abort"}, Recover(m)
  PROVE  IInv'
  <1>1. /\ pc = "idle" /\ txn = "formal" /\ StartRollback /\ mode' = m
        /\ UNCHANGED <<node, authority, journal, force, history, bounds>>
    BY DEF Recover
  <1>2. /\ mode' \in {"checkout", "recover", "abort"}
        /\ crashes' \in 0..Cases[case].crashes /\ edits' \in 0..Cases[case].edits
        /\ faults' \in 0..Cases[case].faults
    BY <1>1 DEF IInv, TypeOK, bounds
  <1>3. UNCHANGED <<node, authority, journal, force, history, case>>
    BY <1>1 DEF bounds
  <1>. QED BY <1>1, <1>2, <1>3, ToRollback

LEMMA CommandStep ==
  ASSUME IInv, Command
  PROVE  IInv'
  <1>1. CASE Preflight \/ Publish \/ BeginApply \/ BeginOp \/ EnsureParents
    BY <1>1, PreflightStep, GiveUpStep, PublishStep, BeginApplyStep, BeginOpStep, EnsureParentsStep
  <1>2. CASE BackUpIntent \/ BackUpRename \/ PublishFile
    BY <1>2, BackUpIntentStep, BackUpRenameStep, PublishFileAnyStep
  <1>3. CASE WriteIndex \/ SetIndexUpdated \/ PublishHead \/ SetHeadUpdated \/ Finish
    BY <1>3, WriteIndexAnyStep, SetIndexUpdatedStep, PublishHeadStep, SetHeadUpdatedStep, FinishStep
  <1>4. CASE RollbackHead \/ RollbackIndex \/ SetRolledBack
    BY <1>4, RollbackHeadStep, RollbackIndexStep, SetRolledBackStep
  <1>5. CASE Replay \/ ResetDirectories \/ Restage
    BY <1>5, ReplayStep, GiveUpStep, ResetDirectoriesStep, RestageStep
  <1>. QED BY <1>1, <1>2, <1>3, <1>4, <1>5, RollbackStep DEF Command

LEMMA StutterStep ==
  ASSUME IInv, UNCHANGED vars
  PROVE  IInv'
  <1>. USE DEF IInv, vars
  <1>1. /\ Target' = Target /\ Current' = Current /\ Kind' = Kind /\ Cur' = Cur
        /\ Change' = Change
    BY DEF Target, Current, Kind, Cur, Change
  <1>2. Pending' = Pending
    BY DEF Pending, RolledBack
  <1>3. TypeOK' /\ TreeInv'
    BY DEF TypeOK, TreeInv
  <1>4. AuthorityInv' /\ PlanInv'
    BY <1>1 DEF AuthorityInv, AuthorityFollowsWorktree, PlanInv
  <1>5. BackupInv'
    BY <1>2 DEF BackupInv, IsFile
  <1>6. UnforcedInv'
    BY <1>1 DEF UnforcedInv, Excused, Known, IsFile
  <1>7. WriteInv'
    BY <1>1 DEF WriteInv, Quiet
  <1>8. FileInv'
    BY <1>1, <1>2 DEF FileInv, Quiet, Output, IsFile
  <1>9. DirInv'
    BY <1>1 DEF DirInv, Quiet, Owned, OwnedAbove, RolledBack
  <1>. QED BY <1>3, <1>4, <1>5, <1>6, <1>7, <1>8, <1>9

(* The invariant is inductive.                                             *)
LEMMA InvStep ==
  ASSUME IInv, [Next]_vars
  PROVE  IInv'
  BY CommandStep, CheckoutStep, RecoverStep, CrashStep, UserEditStep, StutterStep DEF Next

(* What the journal, the backup and the control points tell holds in every *)
(* reachable state, whatever crashes, edits and failing writes happen.     *)
THEOREM Invariance == Spec => []IInv
  <1>1. Init => IInv
    BY InitStep
  <1>2. IInv /\ [Next]_vars => IInv'
    BY InvStep
  <1>. QED BY <1>1, <1>2, PTL DEF Spec

(* Every variable of the checkout transaction keeps its type.              *)
THEOREM TypeCorrect == Spec => []TypeOK
  <1>1. IInv => TypeOK
    BY DEF IInv
  <1>. QED BY <1>1, Invariance, PTL

(* HEAD never runs ahead of the Index, and outside a transaction the two   *)
(* agree (publish_checkout_authority and CheckoutTransaction::rollback,    *)
(* which undoes HEAD first and the Index last).                            *)
THEOREM AuthorityFollows == Spec => []AuthorityFollowsWorktree
  <1>1. IInv => AuthorityFollowsWorktree
    BY DEF IInv, AuthorityInv
  <1>. QED BY <1>1, Invariance, PTL

(* A rollback that reports success has put everything back                 *)
(* (CheckoutTransaction::rollback), however often it was interrupted.      *)
THEOREM RollbackSafe == Spec => []RollbackRestoresOriginal
  <1>1. ASSUME IInv PROVE RollbackRestoresOriginal
    <2>. SUFFICES ASSUME txn = "formal", phase = "rolled_back", pc \in {"replay", "finish"}
                  PROVE  /\ index = "before" /\ head = "before"
                         /\ touched = {} => \A p \in Path :
                                node[p] = before[p] \/ (before[p] = Dir /\ node[p] = Absent)
                         /\ \A p \in Path : ~IsFile(backup, p)
      BY DEF RollbackRestoresOriginal
    <2>. USE <1>1 DEF IInv
    <2>1. index = "before" /\ head = "before"
      BY DEF AuthorityInv
    <2>2. Pending = 0
      BY DEF Pending, Undoing, Undone, RolledBack
    <2>3. \A p \in Path : ~IsFile(backup, p)
      BY <2>2 DEF BackupInv
    <2>4. ASSUME touched = {}, NEW p \in Path
          PROVE  node[p] = before[p] \/ (before[p] = Dir /\ node[p] = Absent)
      <3>1. Quiet
        BY <2>4 DEF Quiet
      <3>2. node[p] = Dir => before[p] = Dir
        BY <3>1 DEF DirInv, RolledBack
      <3>3. IsFile(node, p) => node[p] = before[p]
        BY <2>2, <3>1 DEF FileInv
      <3>4. IsFile(before, p) => node[p] = before[p]
        BY <2>3, <3>1 DEF FileInv, IsFile
      <3>5. node[p] \in Node /\ before[p] \in Node
        BY DEF TypeOK
      <3>. QED BY <3>2, <3>3, <3>4, <3>5 DEF Node, MaybeFile, IsFile
    <2>. QED BY <2>1, <2>3, <2>4
  <1>. QED BY <1>1, Invariance, PTL

-----------------------------------------------------------------------------
(* What a step must keep of a path for nothing to be lost there.           *)
Kept(x, p) == x \in {node'[p], backup'[p]} \cup Known(p)

LEMMA KeptIsNotLost ==
  ASSUME NEW p, Kept(node[p], p), Kept(backup[p], p)
  PROVE  Lost(p) = {}
  BY DEF Kept, Lost

(* Directories and nothing are no content.                                 *)
LEMMA NoContent ==
  ASSUME NEW p, NEW x \in {Absent, Dir}
  PROVE  Kept(x, p)
  BY DEF Kept, Known

(* Without --force, what the backup holds is known or was raced.           *)
LEMMA BackupKnown ==
  ASSUME IInv, ~force, NEW p \in Path, p \notin raced
  PROVE  backup[p] \in Known(p)
  <1>1. IsFile(backup, p) => Excused(backup, p)
    BY DEF IInv, UnforcedInv
  <1>2. backup[p] \in Node
    BY DEF IInv, TypeOK
  <1>. QED BY <1>1, <1>2 DEF Excused, Known, Node, MaybeFile, IsFile

(* A command without --force loses no content, outside the race.           *)
LEMMA CommandKeeps ==
  ASSUME IInv, Command, ~force, NEW p \in Path, p \notin raced
  PROVE  Lost(p) = {}
  <1>. USE DEF IInv
  <1>0. /\ node \in [Path -> Node] /\ WellFormed(node)
        /\ backup \in [Path -> Node] /\ WellFormed(backup)
        /\ backup[p] \in Known(p) /\ Absent # Dir
    BY BackupKnown, ConstantsAssumption DEF TypeOK, TreeInv, ConstantsAssumption
  <1>. SUFFICES Kept(node[p], p)
    <2>1. Kept(backup[p], p)
      BY <1>0 DEF Kept
    <2>. QED BY <2>1, KeptIsNotLost
  <1>1. CASE UNCHANGED node
    BY <1>1 DEF Kept
  <1>2. CASE EnsureParents /\ node' # node
    <2>1. PICK m \in Path : node[m] = Absent /\ node' = [node EXCEPT ![m] = Dir]
      <3>. DEFINE T == {a \in Ancestors(Cur) : node[a] = Absent}
      <3>1. Cur \in Path
        BY <1>2, CurFacts DEF EnsureParents, PlanInv, TypeOK
      <3>2. T \in SUBSET Path /\ T # {} /\ node' = [node EXCEPT ![Smallest(T)] = Dir]
        BY <1>2, <3>1, AncestorsArePaths DEF EnsureParents
      <3>3. Smallest(T) \in T /\ Smallest(T) \in Path
        BY <3>2, SmallestFacts
      <3>. QED BY <3>2, <3>3
    <2>. QED BY <2>1, NoContent DEF Kept
  <1>3. CASE BackUpRename /\ node' # node
    <2>1. Cur \in Path
      BY <1>3, CurFacts DEF BackUpRename, PlanInv, TypeOK
    <2>2. /\ node[Cur] # Absent /\ backup[Cur] = Absent
          /\ \A a \in Ancestors(Cur) : ~IsFile(backup, a)
          /\ node' = Cleared(node, Cur) /\ backup' = WithParents(Grafted(backup, node, Cur), Cur)
      BY <1>3 DEF BackUpRename
    <2>3. \A a \in Ancestors(Cur) : backup[a] \in {Dir, Absent}
      BY <1>0, <2>1, <2>2, AncestorsArePaths DEF IsFile, Node, MaybeFile
    <2>4. p \in Subtree(Cur) => backup'[p] = node[p]
      BY <1>0, <2>1, <2>2, <2>3, StoredFacts
    <2>5. p \notin Subtree(Cur) => node'[p] = node[p]
      BY <1>0, <2>1, <2>2, ClearedFacts
    <2>. QED BY <2>4, <2>5 DEF Kept
  <1>4. CASE PublishFile /\ node' # node
    <2>1. node[Cur] = Absent /\ node' = [node EXCEPT ![Cur] = Target[Cur]]
      BY <1>4 DEF PublishFile
    <2>. QED BY <2>1, NoContent DEF Kept
  <1>5. CASE RollbackParents /\ node' # node
    <2>1. todo > 0 /\ node' = WithParents(node, Change.path)
      BY <1>5 DEF RollbackParents, Refuse
    <2>2. node'[p] = node[p] \/ node[p] = Absent
      BY <2>1 DEF WithParents
    <2>. QED BY <2>2, NoContent DEF Kept
  <1>6. CASE RollbackUnlink /\ node' # node
    <2>1. pc = "rb_unlink" /\ node' = [node EXCEPT ![Change.path] = Absent]
      BY <1>6 DEF RollbackUnlink, Refuse
    <2>2. p = Change.path => node[p] \in Known(p)
      BY <2>1 DEF UnforcedInv, Excused
    <2>3. p # Change.path => node'[p] = node[p]
      BY <2>1
    <2>. QED BY <2>2, <2>3 DEF Kept
  <1>7. CASE RollbackRestore /\ node' # node
    <2>1. /\ pc = "rb_restore" /\ node[Change.path] = Absent
          /\ node' = Grafted(node, backup, Change.path)
      BY <1>7 DEF RollbackRestore, Refuse
    <2>2. todo \in 1..Len(changes)
      BY <2>1 DEF TypeOK, PlanInv
    <2>3. Change \in Changes
      BY <2>2 DEF TypeOK, Change
    <2>4. Change.path \in Path
      BY <2>3 DEF Changes
    <2>5. p \in Subtree(Change.path) => node[p] = Absent
      BY <1>0, <2>1, <2>4, LeafFacts
    <2>6. p \notin Subtree(Change.path) => node'[p] = node[p]
      BY <2>1 DEF Grafted
    <2>. QED BY <2>5, <2>6, NoContent DEF Kept
  <1>8. CASE RollbackDirs /\ node' # node
    <2>1. node' = [q \in Path |-> IF q \in EmptyMade THEN Absent ELSE Reparented[q]]
      BY <1>8 DEF RollbackDirs, Refuse
    <2>2. Reparented[p] = node[p] \/ node[p] = Absent
      BY DEF Reparented
    <2>3. p \in EmptyMade => Reparented[p] = Dir
      BY DEF EmptyMade
    <2>4. node'[p] = node[p] \/ node[p] \in {Absent, Dir}
      BY <2>1, <2>2, <2>3
    <2>. QED BY <2>4, NoContent DEF Kept
  <1>. QED
    BY <1>1, <1>2, <1>3, <1>4, <1>5, <1>6, <1>7, <1>8
    DEF Command, Preflight, Publish, BeginApply, BeginOp, BackUpIntent, WriteIndex,
        SetIndexUpdated, PublishHead, SetHeadUpdated, Finish, RollbackHead, RollbackCheck,
        RollbackIndex, SetRolledBack, Replay, ResetDirectories, Restage, Refuse

(* Without --force, no step but the user's own makes content disappear     *)
(* that neither Commit knows, except in the window between the check of a  *)
(* path and the rename or unlink it licenses (ensure_workspace_unchanged,  *)
(* back_up, remove_destination_before_restore).                            *)
THEOREM UnforcedIsSafe == Spec => UnforcedKeepsEdits
  <1>. DEFINE Safe == \A p \in Path : Lost(p) # {} => \/ edits' # edits \/ force \/ p \in raced
  <1>1. ASSUME IInv, Next PROVE Safe
    <2>. SUFFICES ASSUME NEW p \in Path, edits' = edits, ~force, p \notin raced
                  PROVE  Lost(p) = {}
      BY DEF Safe
    <2>1. CASE Command
      BY <1>1, <2>1, CommandKeeps
    <2>2. CASE \E f \in BOOLEAN : Checkout(f)
      <3>1. txn # "formal" /\ node' = node
        BY <2>2 DEF Checkout
      <3>2. backup[p] = Absent
        BY <1>1, <3>1 DEF IInv, BackupInv, Nothing
      <3>3. Kept(node[p], p) /\ Kept(backup[p], p)
        BY <3>1, <3>2 DEF Kept, Known
      <3>. QED BY <3>3, KeptIsNotLost
    <2>3. CASE Crash \/ \E m \in {"recover", "abort"} : Recover(m)
      <3>1. node' = node /\ backup' = backup
        BY <2>3 DEF Crash, Recover, journal
      <3>. QED BY <3>1 DEF Lost
    <2>4. ASSUME NEW q \in Path, NEW c \in Node, UserEdit(q, c) PROVE FALSE
      BY <2>4 DEF UserEdit, IInv
    <2>. QED BY <1>1, <2>1, <2>2, <2>3, <2>4 DEF Next
  <1>2. IInv /\ [Next]_vars => [Safe]_vars
    BY <1>1
  <1>. QED BY <1>2, Invariance, PTL DEF Spec, UnforcedKeepsEdits

-----------------------------------------------------------------------------
(* All or nothing: a second layer, up to the first edit by the user.       *)

(* The target has a file at or below the path.                             *)
Wanted(q) == \E r \in Subtree(q) : Target[r] # Absent

(* The paths checkout moves away.                                          *)
Planned(x) == \/ Target[x] # Absent
              \/ IsFile(before, x) /\ Wanted(x)
              \/ Current[x] # Absent

(* The paths checkout has no business with.                                *)
Unconcerned(q) == /\ ~Wanted(q)
                  /\ \A a \in Ancestors(q) \cup {q} : Target[a] = Absent /\ Current[a] = Absent

(* Until apply begins, and once a rollback is through, the worktree is the *)
(* one the transaction started from.                                       *)
Untouched == {"rb_index", "rb_phase", "replay", "reset", "restage", "preflight", "publish", "apply"}
Still == (txn # "formal" /\ index = "before") \/ pc \in Untouched \/ RolledBack
StartInv ==
    /\ touched = {}
    /\ Apart(before, Current, Target)
    /\ Still => node = before

(* Every original directory is in place, or in the backup at or below the  *)
(* path of a pending change; no directory checkout makes is an original.   *)
KeepInv ==
    /\ txn = "formal" => \A q \in Path : before[q] = Dir =>
        \/ node[q] = Dir
        \/ backup[q] = Dir /\ \E k \in 1..Len(changes) : k <= Pending /\ q \in Subtree(changes[k].path)
    /\ \A k \in 1..Len(changes), x \in Path : changes[k].path = x => Planned(x)
    /\ \A d \in made : before[d] # Dir
    /\ pc = "rb_unlink" /\ ~Change.expected => backup[Change.path] # Absent

(* What is still to be moved is planned, not journaled before its turn,    *)
(* and takes no target file along that will not be written.                *)
MoveInv ==
    pc \in Ready =>
        /\ ops.displace \cap ops.remove = {}
        /\ \A d \in ops.displace \cup ops.remove :
            /\ Planned(d)
            /\ \A p \in Subtree(d) : Target[p] # Absent => p \in ops.write
            /\ \A k \in 1..Len(changes) : changes[k].path = d =>
                pc \in {"rename", "publish_file"} /\ d = Cur
        /\ pc = "publish_file" /\ Kind # "write" => \A q \in Subtree(Cur) : node[q] = Absent

(* What apply has passed is as the target wants it.                        *)
PassedInv ==
    pc \in Ready =>
        /\ \A p \in Path : Target[p] # Absent => node[p] = Target[p] \/ p \in ops.write
        /\ \A a \in Path : Current[a] # Absent /\ Target[a] = Absent =>
            \/ a \in ops.remove
            \/ \E d \in ops.displace : a \in Subtree(d)
            \/ \A q \in Subtree(a) : ~Wanted(q) => node[q] = Absent
        /\ \A q \in Path : Unconcerned(q) => node[q] = before[q]

(* Once everything is passed the worktree is the goal.                     *)
Applied == pc \in {"index", "index_phase", "head", "head_phase"} \/ (pc = "finish" /\ ~RolledBack)
GoalInv == Applied => node = Goal(before)

Calm == StartInv /\ KeepInv /\ MoveInv /\ PassedInv /\ GoalInv
XInv == edits = 0 => Calm

-----------------------------------------------------------------------------
(* The plan depends on the two Commits and on the original tree only.      *)
LEMMA SamePlan ==
  ASSUME before' = before, case' = case
  PROVE  /\ Target' = Target /\ Current' = Current
         /\ \A x \in Path : /\ Wanted(x)' <=> Wanted(x)
                            /\ Planned(x)' <=> Planned(x)
                            /\ Unconcerned(x)' <=> Unconcerned(x)
  <1>1. Target' = Target /\ Current' = Current
    BY DEF Target, Current
  <1>. QED BY <1>1 DEF Wanted, Planned, Unconcerned, IsFile

(* Where a journal path lies, and how much of the journal is pending.      *)
LEMMA JournalFacts ==
  ASSUME IInv
  PROVE  /\ Len(changes) \in Nat
         /\ Pending \in 0..Len(changes)
         /\ \A k \in 1..Len(changes) : changes[k] \in Changes /\ changes[k].path \in Path
  <1>1. changes \in Seq(Changes) /\ todo \in 0..Len(changes)
    BY DEF IInv, TypeOK
  <1>2. Len(changes) \in Nat /\ \A k \in 1..Len(changes) : changes[k] \in Changes
    BY <1>1
  <1>. QED BY <1>1, <1>2 DEF Pending, Changes

(* No target file lies below a target file.                                *)
LEMMA TargetIsTree ==
  ASSUME IInv, NEW p \in Path, NEW a \in Ancestors(p), Target[p] # Absent
  PROVE  Target[a] = Absent
  BY TreesAssumption DEF IInv, TypeOK, Target

LEMMA TargetFacts ==
  ASSUME IInv, NEW p \in Path
  PROVE  (Target[p] \in Contents \/ Target[p] = Absent) /\ Target[p] # Dir
  <1>1. Target[p] \in MaybeFile
    BY ConstantsAssumption DEF ConstantsAssumption, IInv, TypeOK, Target
  <1>. QED BY <1>1, ConstantsAssumption DEF ConstantsAssumption, MaybeFile

-----------------------------------------------------------------------------
(* Steps that change no path.                                              *)

LEMMA StartFrame ==
  ASSUME StartInv, UNCHANGED <<node, before, touched, case>>, Still' => node = before
  PROVE  StartInv'
  <1>1. Target' = Target /\ Current' = Current
    BY DEF Target, Current
  <1>2. Apart(before, Current, Target)'
    BY <1>1 DEF StartInv, Apart
  <1>. QED BY <1>2 DEF StartInv

LEMMA KeepFrame ==
  ASSUME IInv, IInv', KeepInv, UNCHANGED <<node, backup, changes, made, before, case>>,
         node = before \/ (Pending <= Pending' /\ (txn' = "formal" => txn = "formal")),
         pc' # "rb_unlink"
  PROVE  KeepInv'
  <1>1. /\ Len(changes) \in Nat /\ Pending \in Nat /\ Pending' \in Nat
        /\ \A k \in 1..Len(changes) : changes[k].path \in Path
    <2>1. changes' \in Seq(Changes) /\ todo' \in 0..Len(changes')
      BY DEF IInv, TypeOK
    <2>2. Pending' \in Nat
      BY <2>1 DEF Pending
    <2>. QED BY <2>2, JournalFacts
  <1>2. \A k \in 1..Len(changes), x \in Path : changes[k].path = x => Planned(x)'
    BY SamePlan DEF KeepInv
  <1>3. txn' = "formal" => \A q \in Path : before[q] = Dir =>
        \/ node[q] = Dir
        \/ backup[q] = Dir /\ \E k \in 1..Len(changes) : k <= Pending' /\ q \in Subtree(changes[k].path)
    <2>1. CASE node = before
      BY <2>1
    <2>2. CASE Pending <= Pending' /\ (txn' = "formal" => txn = "formal")
      BY <2>2, <1>1 DEF KeepInv
    <2>. QED BY <2>1, <2>2
  <1>. QED BY <1>2, <1>3 DEF KeepInv

LEMMA PlanFrame ==
  ASSUME IInv, MoveInv, PassedInv, UNCHANGED <<node, changes, before, case>>,
         pc' \in Ready => /\ ops' = ops /\ pc \in Ready
                          /\ pc \notin {"rename", "publish_file"} /\ pc' # "publish_file"
  PROVE  MoveInv' /\ PassedInv'
  <1>1. CASE pc' \notin Ready
    BY <1>1 DEF MoveInv, PassedInv, Ready, Applying
  <1>2. CASE pc' \in Ready
    <2>1. ops' = ops /\ pc \in Ready /\ ops \in Plans
      BY <1>2 DEF IInv, TypeOK
    <2>2. Kind' = Kind /\ Cur' = Cur
      BY <2>1 DEF Kind, Cur
    <2>3. \A d \in ops.displace \cup ops.remove : d \in Path
      BY <2>1 DEF Plans
    <2>4. MoveInv'
      BY <1>2, <2>1, <2>2, <2>3, SamePlan DEF MoveInv, Ready, Applying
    <2>5. \A a \in Path : \A q \in Subtree(a) : q \in Path
      BY SubtreeFacts
    <2>6. PassedInv'
      BY <1>2, <2>1, <2>5, SamePlan DEF PassedInv, Ready, Applying
    <2>. QED BY <2>4, <2>6
  <1>. QED BY <1>1, <1>2

LEMMA GoalFrame ==
  ASSUME GoalInv, UNCHANGED <<node, before, case>>, Applied' => Applied
  PROVE  GoalInv'
  <1>1. Target' = Target /\ Current' = Current
    BY DEF Target, Current
  <1>2. Goal(before)' = Goal(before)
    BY <1>1 DEF Goal
  <1>. QED BY <1>2 DEF GoalInv

LEMMA ControlCalm ==
  ASSUME IInv, IInv', Calm,
         UNCHANGED <<node, backup, changes, made, before, touched, case>>,
         Still' => node = before,
         Applied' => Applied,
         node = before \/ (Pending <= Pending' /\ (txn' = "formal" => txn = "formal")),
         pc' # "rb_unlink",
         pc' \in Ready => /\ ops' = ops /\ pc \in Ready
                          /\ pc \notin {"rename", "publish_file"} /\ pc' # "publish_file"
  PROVE  Calm'
  <1>1. StartInv'
    BY StartFrame DEF Calm
  <1>2. KeepInv'
    BY KeepFrame DEF Calm
  <1>3. MoveInv' /\ PassedInv'
    BY PlanFrame DEF Calm
  <1>4. GoalInv'
    BY GoalFrame DEF Calm
  <1>. QED BY <1>1, <1>2, <1>3, <1>4 DEF Calm

(* A command ends, or dies, where it is.                                   *)
LEMMA IdleCalm ==
  ASSUME IInv, IInv', Calm, pc' = "idle",
         UNCHANGED <<node, index, txn, backup, changes, made, before, touched, case>>
  PROVE  Calm'
  <1>1. Still' => node = before
    BY DEF Still, Untouched, RolledBack, Calm, StartInv
  <1>2. Pending' = Len(changes) /\ Pending <= Pending'
    BY JournalFacts DEF Pending, Undoing, Undone, RolledBack
  <1>3. ~Applied' /\ pc' \notin Ready /\ pc' # "rb_unlink"
    BY DEF Applied, Ready, Applying
  <1>. QED BY <1>1, <1>2, <1>3, ControlCalm

(* A rollback starts.                                                      *)
LEMMA FailCalm ==
  ASSUME IInv, IInv', Calm, txn = "formal", StartRollback,
         UNCHANGED <<node, txn, backup, changes, made, before, touched, case>>
  PROVE  Calm'
  <1>1. pc' = "rb_head" /\ todo' = Len(changes)
    BY DEF StartRollback
  <1>2. ~Still'
    BY <1>1 DEF Still, Untouched, RolledBack
  <1>3. Pending <= Pending'
    BY <1>1, JournalFacts DEF Pending, Undoing
  <1>4. ~Applied' /\ pc' \notin Ready /\ pc' # "rb_unlink"
    BY <1>1 DEF Applied, Ready, Applying
  <1>. QED BY <1>2, <1>3, <1>4, ControlCalm

LEMMA RefuseCalm ==
  ASSUME IInv, IInv', Calm, Refuse
  PROVE  Calm'
  <1>1. /\ pc' = "idle"
        /\ UNCHANGED <<node, index, txn, backup, changes, made, before, touched, case>>
    BY DEF Refuse, authority, journal, bounds
  <1>. QED BY <1>1, IdleCalm

(* The steps of a transaction that write Index, HEAD or a phase only.      *)
LEMMA AuthorityCalm ==
  ASSUME IInv, IInv', Calm,
         Publish \/ BeginApply \/ WriteIndex \/ SetIndexUpdated \/ PublishHead \/ SetHeadUpdated
           \/ RollbackHead \/ RollbackIndex \/ SetRolledBack \/ Restage \/ Crash
           \/ \E m \in {"recover", "abort"} : Recover(m)
  PROVE  Calm'
  <1>0. /\ UNCHANGED <<node, backup, changes, made, before, touched, case>>
        /\ node' = node /\ changes' = changes
    BY DEF Publish, BeginApply, WriteIndex, SetIndexUpdated, PublishHead, SetHeadUpdated,
           RollbackHead, RollbackIndex, SetRolledBack, Restage, Crash, Recover, authority,
           journal, local, history, bounds
  <1>1. pc \in Untouched => node = before
    BY DEF Calm, StartInv, Still
  <1>2. Pending \in 0..Len(changes) /\ Len(changes) \in Nat
    BY JournalFacts
  <1>3. pc \notin {"idle", "preflight", "publish"} => txn = "formal"
    BY DEF IInv, AuthorityInv
  <1>4. CASE Publish \/ BeginApply
    <2>1. /\ pc \in {"publish", "apply"} /\ pc' \in {"apply", "op"} /\ ops' = ops
          /\ node = before
      BY <1>1, <1>4 DEF Publish, BeginApply, Untouched
    <2>2. ~Applied' /\ pc' \in Ready /\ pc \in Ready
      BY <2>1 DEF Applied, Ready, Applying
    <2>. QED BY <1>0, <2>1, <2>2, ControlCalm
  <1>5. CASE RollbackIndex \/ SetRolledBack \/ Restage
    <2>1. /\ pc \in Untouched /\ pc' \in {"rb_phase", "replay", "finish", "preflight"}
          /\ pc' = "finish" => phase' = "rolled_back"
      BY <1>5 DEF RollbackIndex, SetRolledBack, Restage, Untouched
    <2>2. ~Applied' /\ pc' \notin Ready /\ node = before
      BY <1>1, <2>1 DEF Applied, RolledBack, Ready, Applying
    <2>. QED BY <1>0, <2>1, <2>2, ControlCalm
  <1>6. CASE WriteIndex /\ pc' # "index_phase"
    <2>1. StartRollback /\ pc = "index" /\ txn' = txn
      BY <1>6 DEF WriteIndex, journal
    <2>. QED BY <1>0, <1>3, <2>1, FailCalm
  <1>7. CASE (WriteIndex /\ pc' = "index_phase") \/ SetIndexUpdated \/ PublishHead \/ SetHeadUpdated
    <2>1. /\ pc \in {"index", "index_phase", "head", "head_phase"}
          /\ pc' \in {"index_phase", "head", "head_phase", "finish"}
          /\ pc' = "finish" => phase' = "head_updated"
          /\ txn' = txn
      BY <1>7 DEF WriteIndex, SetIndexUpdated, PublishHead, SetHeadUpdated, journal
    <2>2. Applied /\ ~Still' /\ txn' = "formal" /\ pc' \notin Ready
      BY <1>3, <2>1 DEF Applied, Still, Untouched, RolledBack, Ready, Applying
    <2>3. Pending' = Len(changes) /\ Pending = Len(changes)
      BY <1>0, <2>1 DEF Pending, Undoing, Undone, RolledBack
    <2>. QED BY <1>0, <1>2, <1>3, <2>1, <2>2, <2>3, ControlCalm
  <1>8. CASE RollbackHead
    <2>1. pc = "rb_head" /\ pc' = "rb_change" /\ txn' = txn /\ todo' = todo
      BY <1>8 DEF RollbackHead, journal
    <2>2. ~Still' /\ ~Applied' /\ pc' \notin Ready
      BY <1>3, <2>1 DEF Still, Untouched, RolledBack, Applied, Ready, Applying
    <2>3. Pending' = Pending
      BY <2>1 DEF Pending, Undoing
    <2>. QED BY <1>0, <1>2, <2>1, <2>2, <2>3, ControlCalm
  <1>9. CASE Crash
    BY <1>0, <1>9, IdleCalm DEF Crash, authority, journal
  <1>10. CASE \E m \in {"recover", "abort"} : Recover(m)
    <2>1. StartRollback /\ txn = "formal" /\ txn' = txn
      BY <1>10 DEF Recover, journal
    <2>. QED BY <1>0, <2>1, FailCalm
  <1>. QED BY <1>4, <1>5, <1>6, <1>7, <1>8, <1>9, <1>10

(* A checkout starts from the tree it has found.                           *)
LEMMA CheckoutCalm ==
  ASSUME IInv, IInv', Calm, NEW f \in BOOLEAN, Checkout(f)
  PROVE  Calm'
  <1>1. /\ pc' = "preflight" /\ txn' = "draft" /\ changes' = <<>> /\ made' = {}
        /\ before' = node /\ touched' = {} /\ node' = node /\ case' = case
        /\ txn # "formal" /\ index = "before"
    BY DEF Checkout, bounds
  <1>2. before' = before
    BY <1>1 DEF Calm, StartInv, Still
  <1>3. StartInv'
    BY <1>1, <1>2, StartFrame DEF Calm, StartInv
  <1>4. KeepInv'
    BY <1>1 DEF KeepInv
  <1>5. MoveInv' /\ PassedInv' /\ GoalInv'
    BY <1>1 DEF MoveInv, PassedInv, GoalInv, Ready, Applying, Applied
  <1>. QED BY <1>3, <1>4, <1>5 DEF Calm

(* What preflight plans.                                                   *)
LEMMA PlanFacts ==
  ASSUME IInv, StartInv, node = before, NEW f \in BOOLEAN
  PROVE  /\ Displacements(f) \cap Removals(f) = {}
         /\ \A d \in Displacements(f) \cup Removals(f) :
                d \in Path /\ Planned(d) /\ \A p \in Subtree(d) : Target[p] # Absent => p \in Writes(f)
         /\ \A p \in Path : Target[p] # Absent => node[p] = Target[p] \/ p \in Writes(f)
         /\ \A a \in Path : Current[a] # Absent /\ Target[a] = Absent =>
                a \in Removals(f) \/ \E d \in Displacements(f) : a \in Subtree(d)
  <1>1. \A d \in Displacements(f) : d \in Path /\ d \in Subtree(d)
    BY AncestorsArePaths, SubtreeFacts DEF Displacements, Blockers
  <1>2. Displacements(f) \cap Removals(f) = {}
    BY <1>1 DEF Removals
  <1>3. \A p \in Path : Target[p] # Absent => node[p] = Target[p] \/ p \in Writes(f)
    BY DEF Writes
  <1>4. \A a \in Path : Current[a] # Absent /\ Target[a] = Absent =>
            a \in Removals(f) \/ \E d \in Displacements(f) : a \in Subtree(d)
    BY DEF Removals
  <1>5. ASSUME NEW d \in Displacements(f)
        PROVE  Planned(d) /\ \A p \in Subtree(d) : Target[p] # Absent => p \in Writes(f)
    <2>1. PICK t \in Path : f /\ Target[t] # Absent /\ d \in Blockers(t)
      BY DEF Displacements
    <2>2. CASE d \in Ancestors(t) /\ IsFile(node, d)
      <3>1. t \in Subtree(d) /\ Target[d] = Absent
        BY <1>1, <2>1, <2>2, SubtreeFacts, TargetIsTree
      <3>2. Planned(d)
        BY <2>1, <2>2, <3>1 DEF Planned, Wanted, IsFile
      <3>3. ASSUME NEW p \in Subtree(d), Target[p] # Absent PROVE p \in Writes(f)
        <4>1. p \in Path /\ d \in Ancestors(p)
          BY <1>1, <3>1, <3>3, SubtreeFacts
        <4>. QED BY <2>1, <2>2, <3>3, <4>1 DEF Writes, Blockers
      <3>. QED BY <3>2, <3>3
    <2>3. CASE d = t /\ node[d] = Dir
      <3>1. Planned(d)
        BY <2>1, <2>3 DEF Planned
      <3>2. ASSUME NEW p \in Subtree(d), Target[p] # Absent PROVE p \in Writes(f)
        <4>1. p \in Path /\ p = d
          BY <1>1, <2>1, <2>3, <3>2, SubtreeFacts, TargetIsTree
        <4>. QED BY <2>1, <2>3, <3>2, <4>1 DEF Writes, Blockers
      <3>. QED BY <3>1, <3>2
    <2>. QED BY <2>1, <2>2, <2>3 DEF Blockers
  <1>6. ASSUME NEW d \in Removals(f)
        PROVE  d \in Path /\ Planned(d) /\ \A p \in Subtree(d) : Target[p] # Absent => p \in Writes(f)
    <2>1. d \in Path /\ Current[d] # Absent /\ Target[d] = Absent
      BY DEF Removals
    <2>2. ASSUME NEW p \in Subtree(d), Target[p] # Absent PROVE p \in Writes(f)
      <3>1. p \in Path /\ p # d
        BY <2>1, <2>2, SubtreeFacts
      <3>2. node[d] # Dir
        BY <2>1, <2>2, <3>1 DEF StartInv, Apart
      <3>3. node[p] = Absent
        BY <2>1, <2>2, <3>1, <3>2, LeafFacts DEF IInv, TreeInv
      <3>. QED BY <2>2, <3>1, <3>3 DEF Writes
    <2>. QED BY <2>1, <2>2 DEF Planned
  <1>. QED BY <1>1, <1>2, <1>3, <1>4, <1>5, <1>6

LEMMA PreflightCalm ==
  ASSUME IInv, IInv', Calm, Preflight
  PROVE  Calm'
  <1>1. /\ UNCHANGED <<node, index, txn, backup, changes, made, before, touched, case>>
        /\ pc = "preflight" /\ force \in BOOLEAN
    BY DEF Preflight, authority, journal, history, bounds, IInv, TypeOK
  <1>2. node = before /\ changes = <<>>
    BY <1>1 DEF Calm, StartInv, Still, Untouched, IInv, PlanInv
  <1>3. CASE pc' = "idle"
    BY <1>1, <1>3, IdleCalm
  <1>4. CASE pc' = "publish"
    <2>1. ops' = [displace |-> Displacements(force), remove |-> Removals(force), write |-> Writes(force)]
      BY <1>4 DEF Preflight
    <2>2. /\ ops'.displace = Displacements(force) /\ ops'.remove = Removals(force)
          /\ ops'.write = Writes(force)
      BY <2>1
    <2>. DEFINE D == Displacements(force)
                R == Removals(force)
                W == Writes(force)
    <2>3. /\ D \cap R = {}
          /\ \A d \in D \cup R :
                d \in Path /\ Planned(d) /\ \A p \in Subtree(d) : Target[p] # Absent => p \in W
          /\ \A p \in Path : Target[p] # Absent => node[p] = Target[p] \/ p \in W
          /\ \A a \in Path : Current[a] # Absent /\ Target[a] = Absent =>
                a \in R \/ \E d \in D : a \in Subtree(d)
      BY <1>1, <1>2, PlanFacts DEF Calm
    <2>. HIDE DEF D, R, W
    <2>4. /\ Target' = Target /\ Current' = Current
          /\ \A x \in Path : (Planned(x)' <=> Planned(x)) /\ (Wanted(x)' <=> Wanted(x))
      BY <1>1, SamePlan
    <2>5. ops'.displace = D /\ ops'.remove = R /\ ops'.write = W
      BY <2>2 DEF D, R, W
    <2>6. Len(changes') = 0
      BY <1>1, <1>2
    <2>7. MoveInv'
      BY <1>4, <2>3, <2>4, <2>5, <2>6 DEF MoveInv
    <2>8. PassedInv'
      BY <1>1, <1>2, <1>4, <2>3, <2>4, <2>5 DEF PassedInv
    <2>9. StartInv'
      BY <1>1, <1>2, StartFrame DEF Calm
    <2>10. KeepInv'
      BY <1>1, <1>2, <1>4, KeepFrame DEF Calm
    <2>11. GoalInv'
      BY <1>4 DEF GoalInv, Applied
    <2>. QED BY <2>7, <2>8, <2>9, <2>10, <2>11 DEF Calm
  <1>. QED BY <1>3, <1>4 DEF Preflight

-----------------------------------------------------------------------------
(* apply_workspace_changes.                                                *)

LEMMA NextOpExact ==
  ASSUME ops \in Plans, ops # NoOps, NextOp
  PROVE  /\ pc' = "op"
         /\ Kind = "displace" => /\ ops'.displace = ops.displace \ {Cur}
                                 /\ ops'.remove = ops.remove /\ ops'.write = ops.write
         /\ Kind = "remove" => /\ ops'.displace = ops.displace
                               /\ ops'.remove = ops.remove \ {Cur} /\ ops'.write = ops.write
         /\ Kind = "write" => /\ ops'.displace = ops.displace /\ ops'.remove = ops.remove
                              /\ ops'.write = ops.write \ {Cur}
  <1>1. ops' = [ops EXCEPT ![Kind] = @ \ {Cur}] /\ pc' = "op"
    BY DEF NextOp
  <1>2. CASE Kind = "displace"
    <2>1. ops' = [ops EXCEPT !.displace = ops.displace \ {Cur}]
      BY <1>1, <1>2
    <2>. QED BY <1>1, <1>2, <2>1 DEF Plans
  <1>3. CASE Kind = "remove"
    <2>1. ops' = [ops EXCEPT !.remove = ops.remove \ {Cur}]
      BY <1>1, <1>3
    <2>. QED BY <1>1, <1>3, <2>1 DEF Plans
  <1>4. CASE Kind = "write"
    <2>1. ops' = [ops EXCEPT !.write = ops.write \ {Cur}]
      BY <1>1, <1>4
    <2>. QED BY <1>1, <1>4, <2>1 DEF Plans
  <1>. QED BY <1>1, <1>2, <1>3, <1>4, CurFacts

(* While apply runs, the transaction is published and all of its journal   *)
(* is pending.                                                             *)
LEMMA ApplyingFacts ==
  ASSUME IInv, pc \in Applying
  PROVE  /\ txn = "formal" /\ pc \in Ready /\ Pending = Len(changes)
         /\ pc # "op" => ops # NoOps
         /\ ops \in Plans
  BY DEF IInv, TypeOK, AuthorityInv, PlanInv, Applying, Ready, Pending, Undoing, Undone, RolledBack

LEMMA AlsoApplying ==
  ASSUME IInv', pc' \in Applying, txn' = "formal"
  PROVE  /\ pc' \in Ready /\ Pending' = Len(changes')
         /\ ~Still' /\ ~Applied' /\ pc' # "rb_unlink"
  BY DEF Applying, Ready, Pending, Undoing, Undone, RolledBack, Still, Untouched, Applied

(* A displacement or removal is done.                                      *)
LEMMA MovedCalm ==
  ASSUME IInv, IInv', Calm, pc \in {"op", "intent", "publish_file"}, ops # NoOps, Kind # "write", NextOp,
         \A q \in Subtree(Cur) : node[q] = Absent,
         UNCHANGED <<node, txn, backup, changes, made, before, touched, case>>
  PROVE  Calm'
  <1>1. txn = "formal" /\ pc \in Ready /\ Pending = Len(changes) /\ ops \in Plans
    BY ApplyingFacts DEF Applying
  <1>2. pc' = "op" /\ pc' \in Ready /\ Pending' = Len(changes') /\ ~Still' /\ ~Applied'
    BY <1>1, AlsoApplying DEF NextOp, Applying
  <1>3. StartInv' /\ KeepInv' /\ GoalInv'
    BY <1>1, <1>2, JournalFacts, StartFrame, KeepFrame, GoalFrame DEF Calm
  <1>4. Cur \in Path /\ Kind \in {"displace", "remove"}
    BY <1>1, CurFacts
  <1>5. /\ ops.displace \cap ops.remove = {}
        /\ \A d \in ops.displace \cup ops.remove :
            /\ Planned(d) /\ d \in Path
            /\ \A p \in Subtree(d) : Target[p] # Absent => p \in ops.write
            /\ \A k \in 1..Len(changes) : changes[k].path = d => d = Cur
    BY <1>1 DEF Calm, MoveInv, Plans
  <1>6. /\ ops'.write = ops.write
        /\ ops'.displace \subseteq ops.displace /\ ops'.remove \subseteq ops.remove
        /\ Cur \notin ops'.displace \cup ops'.remove
        /\ ops.displace \subseteq ops'.displace \cup {Cur}
        /\ ops.remove \subseteq ops'.remove \cup {Cur}
    BY <1>1, <1>4, <1>5, CurFacts, NextOpExact
  <1>7. /\ Target' = Target /\ Current' = Current
        /\ \A x \in Path : /\ Planned(x)' <=> Planned(x)
                           /\ Wanted(x)' <=> Wanted(x)
                           /\ Unconcerned(x)' <=> Unconcerned(x)
    BY SamePlan
  <1>8. MoveInv'
    BY <1>2, <1>5, <1>6, <1>7 DEF MoveInv
  <1>9. PassedInv'
    <2>1. \A p \in Path : Target[p] # Absent => node[p] = Target[p] \/ p \in ops'.write
      BY <1>1, <1>6 DEF Calm, PassedInv
    <2>2. \A q \in Path : Unconcerned(q) => node[q] = before[q]
      BY <1>1 DEF Calm, PassedInv
    <2>3. ASSUME NEW a \in Path, Current[a] # Absent, Target[a] = Absent,
                 a \notin ops'.remove, \A d \in ops'.displace : a \notin Subtree(d)
          PROVE  \A q \in Subtree(a) : ~Wanted(q) => node[q] = Absent
      <3>1. CASE a \in Subtree(Cur)
        BY <1>4, <3>1, SubtreeFacts
      <3>2. CASE a \notin Subtree(Cur)
        <4>1. a # Cur
          BY <1>4, <3>2, SubtreeFacts
        <4>. QED BY <1>1, <1>6, <2>3, <3>2, <4>1 DEF Calm, PassedInv
      <3>. QED BY <3>1, <3>2
    <2>4. \A a \in Path : \A q \in Subtree(a) : q \in Path
      BY SubtreeFacts
    <2>. QED BY <1>7, <2>1, <2>2, <2>3, <2>4 DEF PassedInv
  <1>. QED BY <1>3, <1>8, <1>9 DEF Calm

(* When everything is passed, the worktree is the goal.                    *)
LEMMA ArrivedIsGoal ==
  ASSUME IInv, PassedInv, pc = "op", ops = NoOps
  PROVE  node = Goal(before)
  <1>1. /\ \A p \in Path : Target[p] # Absent => node[p] = Target[p]
        /\ \A a \in Path : Current[a] # Absent /\ Target[a] = Absent =>
              \A q \in Subtree(a) : ~Wanted(q) => node[q] = Absent
        /\ \A q \in Path : Unconcerned(q) => node[q] = before[q]
    BY DEF PassedInv, NoOps, Ready, Applying
  <1>2. ASSUME NEW p \in Path PROVE node[p] = Goal(before)[p]
    <2>1. CASE Target[p] # Absent
      BY <1>1, <2>1 DEF Goal
    <2>2. CASE Target[p] = Absent /\ Wanted(p)
      <3>1. PICK q \in Subtree(p) : Target[q] # Absent
        BY <2>2 DEF Wanted
      <3>2. q \in Path /\ p \in Ancestors(q)
        BY <2>2, <3>1, SubtreeFacts
      <3>3. node[p] = Dir
        BY <1>1, <3>1, <3>2 DEF IInv, TreeInv, WellFormed
      <3>. QED BY <2>2, <3>3 DEF Goal, Wanted
    <2>3. CASE Target[p] = Absent /\ ~Wanted(p) /\ ~Unconcerned(p)
      <3>1. PICK a \in Ancestors(p) \cup {p} : Target[a] # Absent \/ Current[a] # Absent
        BY <2>3 DEF Unconcerned
      <3>2. a \in Path /\ p \in Subtree(a)
        BY <3>1, AncestorsArePaths, SubtreeFacts
      <3>3. CASE Target[a] # Absent
        <4>1. node[a] # Dir /\ p # a
          BY <1>1, <2>3, <3>2, <3>3, TargetFacts
        <4>2. node[p] = Absent
          BY <3>2, <4>1, LeafFacts DEF IInv, TreeInv
        <4>. QED BY <2>3, <3>1, <4>2 DEF Goal, Wanted
      <3>4. CASE Target[a] = Absent
        <4>1. node[p] = Absent
          BY <1>1, <2>3, <3>1, <3>2, <3>4
        <4>. QED BY <2>3, <3>1, <4>1 DEF Goal, Wanted
      <3>. QED BY <3>3, <3>4
    <2>4. CASE Unconcerned(p)
      <3>1. Goal(before)[p] = before[p]
        BY <2>4 DEF Goal, Unconcerned, Wanted
      <3>. QED BY <1>1, <2>4, <3>1
    <2>. QED BY <2>1, <2>2, <2>3, <2>4
  <1>3. node \in [Path -> Node]
    BY DEF IInv, TypeOK
  <1>. QED BY <1>2, <1>3 DEF Goal

LEMMA BeginOpCalm ==
  ASSUME IInv, IInv', Calm, BeginOp
  PROVE  Calm'
  <1>1. /\ pc = "op" /\ txn' = txn
        /\ UNCHANGED <<node, txn, backup, changes, made, before, touched, case>>
    BY DEF BeginOp, history, bounds
  <1>2. txn = "formal" /\ pc \in Ready /\ Pending = Len(changes) /\ ops \in Plans
    BY <1>1, ApplyingFacts DEF Applying
  <1>3. CASE ops = NoOps
    <2>1. pc' = "index"
      BY <1>3 DEF BeginOp
    <2>2. node = Goal(before)
      BY <1>1, <1>3, ArrivedIsGoal DEF Calm
    <2>3. Goal(before)' = Goal(before)
      BY <1>1, SamePlan DEF Goal
    <2>4. GoalInv'
      BY <1>1, <2>2, <2>3 DEF GoalInv
    <2>5. ~Still' /\ pc' \notin Ready
      BY <1>1, <1>2, <2>1 DEF Still, Untouched, RolledBack, Ready, Applying
    <2>6. Pending' = Pending
      BY <1>1, <1>2, <2>1 DEF Pending, Undoing, Undone, RolledBack
    <2>7. StartInv' /\ KeepInv' /\ MoveInv' /\ PassedInv'
      BY <1>1, <1>2, <2>1, <2>5, <2>6, JournalFacts, StartFrame, KeepFrame, PlanFrame DEF Calm
    <2>. QED BY <2>4, <2>7 DEF Calm
  <1>4. CASE ops # NoOps /\ StartRollback
    BY <1>1, <1>2, <1>4, FailCalm
  <1>5. CASE ops # NoOps /\ Kind = "remove" /\ node[Cur] = Absent /\ NextOp
    <2>1. Cur \in Path
      BY <1>2, <1>5, CurFacts
    <2>2. \A q \in Subtree(Cur) : node[q] = Absent
      BY <1>5, <2>1, LeafFacts, ConstantsAssumption DEF IInv, TreeInv, ConstantsAssumption
    <2>. QED BY <1>1, <1>5, <2>2, MovedCalm
  <1>6. CASE pc' \in {"intent", "parents"} /\ ops' = ops
    <2>1. pc' \in Ready /\ Pending' = Len(changes') /\ ~Still' /\ ~Applied' /\ pc' # "rb_unlink"
      BY <1>1, <1>2, <1>6, AlsoApplying DEF Applying
    <2>. QED BY <1>1, <1>2, <1>6, <2>1, JournalFacts, ControlCalm
  <1>. QED BY <1>2, <1>3, <1>4, <1>5, <1>6, CurFacts DEF BeginOp

(* The file under way is one the target has.                               *)
LEMMA WritingFacts ==
  ASSUME IInv, StartInv, pc \in Applying, ops # NoOps, Kind = "write"
  PROVE  /\ Cur \in Path /\ Cur \in ops.write /\ Target[Cur] # Absent
         /\ ops.displace = {} /\ ops.remove = {}
         /\ \A a \in Ancestors(Cur) : a \in Path /\ Wanted(a)
         /\ Wanted(Cur)
  <1>1. txn = "formal" /\ pc \in Ready /\ ops \in Plans
    BY ApplyingFacts
  <1>2. Cur \in Path /\ Cur \in ops.write /\ ops.displace = {} /\ ops.remove = {}
    BY <1>1, CurFacts
  <1>3. Target[Cur] # Absent
    BY <1>1, <1>2 DEF IInv, WriteInv, Quiet, StartInv
  <1>4. \A a \in Ancestors(Cur) : a \in Path /\ Cur \in Subtree(a)
    BY <1>2, AncestorsArePaths, SubtreeFacts
  <1>5. Cur \in Subtree(Cur)
    BY <1>2, SubtreeFacts
  <1>. QED BY <1>2, <1>3, <1>4, <1>5 DEF Wanted

(* A missing parent is no original directory: what took one away is        *)
(* nothing the target needs a directory for.                               *)
LEMMA MissingFacts ==
  ASSUME IInv, Calm, pc = "parents", {a \in Ancestors(Cur) : node[a] = Absent} # {}
  PROVE  \E m \in Ancestors(Cur) : /\ m = Smallest({a \in Ancestors(Cur) : node[a] = Absent})
                                   /\ m \in Path /\ node[m] = Absent /\ Wanted(m)
                                   /\ before[m] # Dir
  <1>1. txn = "formal" /\ pc \in Ready /\ Pending = Len(changes) /\ ops # NoOps
    BY ApplyingFacts DEF Applying
  <1>2. /\ Cur \in Path /\ Target[Cur] # Absent
        /\ \A a \in Ancestors(Cur) : a \in Path /\ Wanted(a)
    BY <1>1, WritingFacts DEF Applying, IInv, PlanInv, Calm
  <1>. DEFINE T == {a \in Ancestors(Cur) : node[a] = Absent}
              m == Smallest(T)
  <1>3. T \in SUBSET Path /\ T # {}
    BY <1>2
  <1>4. m \in T /\ m \in Path
    BY <1>3, SmallestFacts
  <1>. HIDE DEF m
  <1>5. m \in Ancestors(Cur) /\ node[m] = Absent
    BY <1>4
  <1>6. ASSUME before[m] = Dir PROVE FALSE
    <2>1. PICK k \in 1..Len(changes) : m \in Subtree(changes[k].path)
      BY <1>1, <1>4, <1>5, <1>6, ConstantsAssumption DEF Calm, KeepInv, ConstantsAssumption
    <2>. DEFINE x == changes[k].path
    <2>2. x \in Path /\ Planned(x)
      BY <2>1, JournalFacts DEF Calm, KeepInv
    <2>. HIDE DEF x
    <2>3. x = m \/ x \in Ancestors(m)
      BY <2>1, <2>2, SubtreeFacts DEF x
    <2>4. before[x] = Dir
      BY <1>4, <1>6, <2>3, ConstantsAssumption DEF IInv, TreeInv, WellFormed, ConstantsAssumption
    <2>5. x \in Ancestors(Cur)
      BY <1>2, <1>5, <2>3, AboveTransitive
    <2>6. Target[x] = Absent /\ Cur \in Subtree(x)
      BY <1>2, <2>2, <2>5, TargetIsTree, SubtreeFacts
    <2>7. ~IsFile(before, x)
      BY <2>4, ConstantsAssumption DEF IsFile, ConstantsAssumption
    <2>8. Current[x] = Absent
      BY <1>2, <2>2, <2>4, <2>6 DEF Calm, StartInv, Apart
    <2>. QED BY <2>2, <2>6, <2>7, <2>8 DEF Planned
  <1>7. m = Smallest(T)
    BY DEF m
  <1>. QED BY <1>2, <1>4, <1>5, <1>6, <1>7

(* A missing directory is journaled, or created.                           *)
LEMMA EnsureParentsCalm ==
  ASSUME IInv, IInv', Calm, EnsureParents
  PROVE  Calm'
  <1>1. /\ pc = "parents" /\ txn' = txn
        /\ UNCHANGED <<txn, backup, changes, before, touched, case>>
    BY DEF EnsureParents, history, bounds
  <1>2. txn = "formal" /\ pc \in Ready /\ Pending = Len(changes) /\ ops \in Plans /\ ops # NoOps
    BY <1>1, ApplyingFacts DEF Applying
  <1>3. CASE ~ParentsSafe(Cur)
    BY <1>1, <1>2, <1>3, FailCalm DEF EnsureParents
  <1>. DEFINE T == {a \in Ancestors(Cur) : node[a] = Absent}
  <1>4. CASE ParentsSafe(Cur) /\ T = {}
    <2>1. pc' = "intent" /\ UNCHANGED <<node, made, ops>>
      BY <1>4 DEF EnsureParents
    <2>2. pc' \in Ready /\ Pending' = Len(changes') /\ ~Still' /\ ~Applied' /\ pc' # "rb_unlink"
      BY <1>1, <1>2, <2>1, AlsoApplying DEF Applying
    <2>. QED BY <1>1, <1>2, <2>1, <2>2, JournalFacts, ControlCalm
  <1>5. CASE ParentsSafe(Cur) /\ T # {}
    <2>1. PICK m \in Ancestors(Cur) : /\ m = Smallest(T)
                                      /\ m \in Path /\ node[m] = Absent /\ Wanted(m)
                                      /\ before[m] # Dir
      BY <1>1, <1>5, MissingFacts
    <2>2. /\ pc' = "parents" /\ ops' = ops
          /\ IF m \in made THEN node' = [node EXCEPT ![m] = Dir] /\ made' = made
                           ELSE made' = made \cup {m} /\ node' = node
      BY <1>1, <1>5, <2>1 DEF EnsureParents
    <2>3. pc' \in Ready /\ Pending' = Len(changes') /\ ~Still' /\ ~Applied' /\ pc' # "rb_unlink"
      BY <1>1, <1>2, <2>2, AlsoApplying DEF Applying
    <2>4. node \in [Path -> Node]
      BY DEF IInv, TypeOK
    <2>5. \A q \in Path : node'[q] = node[q] \/ (q = m /\ node'[q] = Dir /\ node[q] = Absent)
      BY <2>1, <2>2, <2>4
    <2>6. made' \subseteq made \cup {m}
      BY <2>2
    <2>7. /\ Target' = Target /\ Current' = Current
          /\ \A x \in Path : /\ Planned(x)' <=> Planned(x)
                             /\ Wanted(x)' <=> Wanted(x)
                             /\ Unconcerned(x)' <=> Unconcerned(x)
      BY <1>1, SamePlan
    <2>8. StartInv'
      BY <1>1, <2>3, <2>7 DEF Calm, StartInv, Apart
    <2>9. \A k \in 1..Len(changes) : changes[k].path \in Path
      BY JournalFacts
    <2>10. KeepInv'
      BY <1>1, <1>2, <2>1, <2>2, <2>3, <2>5, <2>6, <2>7, <2>9 DEF Calm, KeepInv
    <2>11. \A d \in ops.displace \cup ops.remove : d \in Path
      BY <1>2 DEF Plans
    <2>12. MoveInv'
      BY <1>1, <1>2, <2>2, <2>3, <2>7, <2>11 DEF Calm, MoveInv
    <2>13. \A a \in Path : \A q \in Subtree(a) : q \in Path
      BY SubtreeFacts
    <2>14. PassedInv'
      <3>1. \A p \in Path : Target[p] # Absent => node'[p] = Target[p] \/ p \in ops.write
        BY <1>2, <2>5 DEF Calm, PassedInv
      <3>2. \A q \in Path : Unconcerned(q) => node'[q] = before[q]
        BY <1>2, <2>1, <2>5 DEF Calm, PassedInv, Unconcerned
      <3>3. \A q \in Path : ~Wanted(q) => node'[q] = node[q]
        BY <2>1, <2>5
      <3>4. \A a \in Path : Current[a] # Absent /\ Target[a] = Absent =>
                \/ a \in ops.remove
                \/ \E d \in ops.displace : a \in Subtree(d)
                \/ \A q \in Subtree(a) : ~Wanted(q) => node'[q] = Absent
        BY <1>2, <2>13, <3>3 DEF Calm, PassedInv
      <3>. QED BY <1>1, <2>2, <2>7, <2>13, <3>1, <3>2, <3>4 DEF PassedInv
    <2>15. GoalInv'
      BY <2>3 DEF GoalInv
    <2>. QED BY <2>8, <2>10, <2>12, <2>14, <2>15 DEF Calm
  <1>. QED BY <1>3, <1>4, <1>5

(* The intent is journaled.                                                *)
LEMMA JournaledCalm ==
  ASSUME IInv, IInv', Calm, BackUpIntent, Journaled(Cur) # {} \/ (ParentsSafe(Cur) /\ ~Vanished)
  PROVE  Calm'
  <1>1. /\ pc = "intent" /\ pc' \in {"rename", "publish_file"}
        /\ node' = node /\ backup' = backup /\ made' = made /\ ops' = ops /\ txn' = txn
        /\ before' = before /\ touched' = touched /\ case' = case
    BY DEF BackUpIntent, history, bounds
  <1>2. txn = "formal" /\ pc \in Ready /\ Pending = Len(changes) /\ ops \in Plans /\ ops # NoOps
    BY <1>1, ApplyingFacts DEF Applying
  <1>3. pc' \in Ready /\ Pending' = Len(changes') /\ ~Still' /\ ~Applied' /\ pc' # "rb_unlink"
    BY <1>1, <1>2, AlsoApplying DEF Applying
  <1>4. /\ Target' = Target /\ Current' = Current
        /\ \A x \in Path : /\ Planned(x)' <=> Planned(x)
                           /\ Wanted(x)' <=> Wanted(x)
                           /\ Unconcerned(x)' <=> Unconcerned(x)
    BY <1>1, SamePlan
  <1>5. Kind' = Kind /\ Cur' = Cur
    BY <1>1 DEF Kind, Cur
  <1>6. Cur \in Path /\ Kind \in {"displace", "remove", "write"}
    BY <1>2, CurFacts
  <1>7. Planned(Cur)
    <2>1. CASE Kind = "write"
      BY <1>1, <1>2, <2>1, WritingFacts DEF Calm, Planned, Applying
    <2>2. CASE Kind # "write"
      BY <1>2, <1>6, <2>2, CurFacts DEF Calm, MoveInv
    <2>. QED BY <2>1, <2>2
  <1>8. /\ Len(changes) \in Nat /\ Len(changes') \in Nat /\ Len(changes) <= Len(changes')
        /\ \A k \in 1..Len(changes) : changes'[k].path = changes[k].path /\ changes[k].path \in Path
        /\ \A k \in 1..Len(changes') : k \in 1..Len(changes) \/ changes'[k].path = Cur
    <2>0. /\ Len(changes) \in Nat /\ changes \in Seq(Changes)
          /\ \A k \in 1..Len(changes) : changes[k] \in Changes /\ changes[k].path \in Path
      BY JournalFacts DEF IInv, TypeOK
    <2>1. CASE Journaled(Cur) # {}
      <3>1. changes' = [k \in 1..Len(changes) |->
                           IF k \in Journaled(Cur) /\ Kind = "write"
                           THEN [changes[k] EXCEPT !.expected = TRUE] ELSE changes[k]]
        BY <2>1 DEF BackUpIntent
      <3>2. Len(changes') = Len(changes)
        <4>1. DOMAIN changes' = 1..Len(changes)
          BY <3>1
        <4>2. changes' \in Seq(Changes)
          BY DEF IInv, TypeOK
        <4>. QED BY <2>0, <4>1, <4>2
      <3>3. \A k \in 1..Len(changes) : changes'[k].path = changes[k].path
        BY <2>0, <3>1 DEF Changes
      <3>. QED BY <2>0, <3>2, <3>3
    <2>2. CASE Journaled(Cur) = {}
      <3>. DEFINE c == [path |-> Cur, present |-> node[Cur] # Absent, expected |-> Kind = "write"]
      <3>1. changes' = Append(changes, c)
        BY <2>2 DEF BackUpIntent
      <3>2. c.path = Cur
        OBVIOUS
      <3>. HIDE DEF c
      <3>3. Len(changes') = Len(changes) + 1 /\ changes'[Len(changes) + 1] = c
            /\ \A k \in 1..Len(changes) : changes'[k] = changes[k]
        BY <2>0, <3>1
      <3>. QED BY <2>0, <3>2, <3>3
    <2>. QED BY <2>1, <2>2
  <1>9. StartInv' /\ GoalInv'
    BY <1>1, <1>3, <1>4 DEF Calm, StartInv, Apart, GoalInv
  <1>10. KeepInv'
    <2>3. \A k \in 1..Len(changes'), x \in Path : changes'[k].path = x => Planned(x)'
      BY <1>4, <1>7, <1>8 DEF Calm, KeepInv
    <2>4. \A q \in Path : before[q] = Dir =>
            \/ node[q] = Dir
            \/ backup[q] = Dir /\ \E k \in 1..Len(changes') :
                    k <= Len(changes') /\ q \in Subtree(changes'[k].path)
      <3>1. ASSUME NEW q \in Path, NEW k \in 1..Len(changes), q \in Subtree(changes[k].path)
            PROVE  k \in 1..Len(changes') /\ k <= Len(changes') /\ q \in Subtree(changes'[k].path)
        BY <1>8, <3>1
      <3>. QED BY <1>2, <3>1 DEF Calm, KeepInv
    <2>. QED BY <1>1, <1>3, <2>3, <2>4 DEF Calm, KeepInv
  <1>11. MoveInv'
    <2>1. /\ ops.displace \cap ops.remove = {}
          /\ \A d \in ops.displace \cup ops.remove :
              /\ d \in Path /\ Planned(d)
              /\ \A p \in Subtree(d) : Target[p] # Absent => p \in ops.write
              /\ \A k \in 1..Len(changes) : changes[k].path # d
      BY <1>1, <1>2 DEF Calm, MoveInv, Plans
    <2>2. \A d \in ops.displace \cup ops.remove :
              \A k \in 1..Len(changes') : changes'[k].path = d => d = Cur
      BY <1>8, <2>1
    <2>3. ASSUME pc' = "publish_file", Kind # "write" PROVE \A q \in Subtree(Cur) : node[q] = Absent
      <3>1. Cur \in ops.displace \cup ops.remove
        BY <1>2, <1>6, <2>3, CurFacts
      <3>2. Journaled(Cur) = {}
        BY <2>1, <3>1 DEF Journaled
      <3>3. node[Cur] = Absent
        BY <2>3, <3>2 DEF BackUpIntent
      <3>. QED BY <1>6, <3>3, LeafFacts, ConstantsAssumption DEF IInv, TreeInv, ConstantsAssumption
    <2>. QED BY <1>1, <1>4, <1>5, <2>1, <2>2, <2>3 DEF MoveInv
  <1>12. PassedInv'
    <2>1. \A a \in Path : \A q \in Subtree(a) : q \in Path
      BY SubtreeFacts
    <2>. QED BY <1>1, <1>2, <1>4, <2>1 DEF Calm, PassedInv
  <1>. QED BY <1>9, <1>10, <1>11, <1>12 DEF Calm

LEMMA IntentCalm ==
  ASSUME IInv, IInv', Calm, BackUpIntent
  PROVE  Calm'
  <1>1. /\ pc = "intent" /\ UNCHANGED <<node, txn, backup, made, before, touched, case>>
    BY DEF BackUpIntent, history, bounds
  <1>2. txn = "formal" /\ ops \in Plans /\ ops # NoOps
    BY <1>1, ApplyingFacts DEF Applying
  <1>3. CASE Journaled(Cur) = {} /\ ~ParentsSafe(Cur)
    <2>1. StartRollback /\ changes' = changes
      BY <1>3 DEF BackUpIntent
    <2>. QED BY <1>1, <1>2, <2>1, FailCalm
  <1>4. CASE Journaled(Cur) = {} /\ ParentsSafe(Cur) /\ Vanished
    <2>1. NextOp /\ changes' = changes /\ Kind # "write" /\ node[Cur] = Absent
      BY <1>4 DEF BackUpIntent, Vanished
    <2>2. Cur \in Path
      BY <1>2, CurFacts
    <2>3. \A q \in Subtree(Cur) : node[q] = Absent
      BY <2>1, <2>2, LeafFacts, ConstantsAssumption DEF IInv, TreeInv, ConstantsAssumption
    <2>. QED BY <1>1, <1>2, <2>1, <2>3, MovedCalm
  <1>. QED BY <1>3, <1>4, JournaledCalm

(* What moves into the backup takes no target file along that will not be  *)
(* written, and nothing checkout has no business with.                     *)
LEMMA BackUpRenameCalm ==
  ASSUME IInv, IInv', Calm, BackUpRename
  PROVE  Calm'
  <1>1. /\ pc = "rename" /\ txn' = txn /\ changes' = changes /\ made' = made
        /\ before' = before /\ touched' = touched /\ case' = case
    BY DEF BackUpRename, history, bounds
  <1>2. txn = "formal" /\ pc \in Ready /\ Pending = Len(changes) /\ ops \in Plans /\ ops # NoOps
    BY <1>1, ApplyingFacts DEF Applying
  <1>3. CASE StartRollback /\ UNCHANGED <<node, backup>>
    BY <1>1, <1>2, <1>3, FailCalm
  <1>4. CASE /\ node[Cur] # Absent /\ backup[Cur] = Absent
             /\ \A a \in Ancestors(Cur) : ~IsFile(backup, a)
             /\ backup' = WithParents(Grafted(backup, node, Cur), Cur)
             /\ node' = Cleared(node, Cur) /\ pc' = "publish_file" /\ ops' = ops
    <2>1. /\ node \in [Path -> Node] /\ WellFormed(node) /\ backup \in [Path -> Node]
          /\ WellFormed(backup) /\ WellFormed(before) /\ Absent # Dir
      BY ConstantsAssumption DEF IInv, TypeOK, TreeInv, ConstantsAssumption
    <2>2. Cur \in Path /\ Kind \in {"displace", "remove", "write"}
      BY <1>2, CurFacts
    <2>3. \A a \in Ancestors(Cur) : backup[a] \in {Dir, Absent}
      BY <1>4, <2>1, <2>2, AncestorsArePaths DEF IsFile, Node, MaybeFile
    <2>. DEFINE S == Subtree(Cur)
    <2>4. \A q \in Path : node'[q] = IF q \in S THEN Absent ELSE node[q]
      BY <1>4, <2>1, <2>2, ClearedFacts
    <2>5. \A q \in Path : backup'[q] = IF q \in S THEN node[q]
                ELSE IF q \in Ancestors(Cur) /\ backup[q] = Absent THEN Dir ELSE backup[q]
      BY <1>4, <2>1, <2>2, <2>3, StoredFacts
    <2>6. \A q \in S : q \in Path /\ backup[q] = Absent /\ (q = Cur \/ Cur \in Ancestors(q))
      BY <1>4, <2>1, <2>2, LeafFacts, SubtreeFacts
    <2>7. Len(changes) \in 1..Len(changes) /\ changes[Len(changes)].path = Cur
          /\ \A k \in 1..Len(changes) : changes[k].path \in Path
      BY <1>1, JournalFacts DEF IInv, PlanInv, TypeOK
    <2>8. pc' \in Ready /\ Pending' = Len(changes) /\ ~Still' /\ ~Applied' /\ pc' # "rb_unlink"
      BY <1>1, <1>2, <1>4, AlsoApplying DEF Applying
    <2>9. /\ Target' = Target /\ Current' = Current
          /\ \A x \in Path : /\ Planned(x)' <=> Planned(x)
                             /\ Wanted(x)' <=> Wanted(x)
                             /\ Unconcerned(x)' <=> Unconcerned(x)
      BY <1>1, SamePlan
    <2>10. Kind' = Kind /\ Cur' = Cur
      BY <1>4 DEF Kind, Cur
    <2>11. Planned(Cur) /\ \A p \in S : Target[p] # Absent => p \in ops.write
      <3>1. CASE Kind = "write"
        <4>1. Target[Cur] # Absent /\ Cur \in ops.write
          BY <1>1, <1>2, <3>1, WritingFacts DEF Calm, Applying
        <4>2. \A p \in S : Target[p] # Absent => p = Cur
          BY <2>6, <4>1, TargetIsTree
        <4>. QED BY <4>1, <4>2 DEF Planned
      <3>2. CASE Kind # "write"
        BY <1>2, <2>2, <3>2, CurFacts DEF Calm, MoveInv
      <3>. QED BY <3>1, <3>2
    <2>12. StartInv' /\ GoalInv'
      BY <1>1, <2>8, <2>9 DEF Calm, StartInv, Apart, GoalInv
    <2>13. KeepInv'
      <3>1. ASSUME NEW q \in Path, before[q] = Dir, node'[q] # Dir
            PROVE  backup'[q] = Dir /\ \E k \in 1..Len(changes) :
                        k <= Len(changes) /\ q \in Subtree(changes[k].path)
        <4>1. CASE q \in S
          BY <1>2, <2>4, <2>5, <2>6, <2>7, <3>1, <4>1, <2>1 DEF Calm, KeepInv
        <4>2. CASE q \notin S
          BY <1>2, <2>1, <2>4, <2>5, <3>1, <4>2 DEF Calm, KeepInv
        <4>. QED BY <4>1, <4>2
      <3>. QED BY <1>1, <1>4, <2>8, <2>9, <3>1 DEF Calm, KeepInv
    <2>14. MoveInv'
      <3>1. \A d \in ops.displace \cup ops.remove : d \in Path
        BY <1>2 DEF Plans
      <3>2. \A q \in Subtree(Cur) : node'[q] = Absent
        BY <2>4, <2>6
      <3>. QED BY <1>1, <1>2, <1>4, <2>8, <2>9, <2>10, <3>1, <3>2 DEF Calm, MoveInv
    <2>15. PassedInv'
      <3>1. \A p \in Path : Target[p] # Absent => node'[p] = Target[p] \/ p \in ops.write
        BY <1>2, <2>4, <2>11 DEF Calm, PassedInv
      <3>2. ASSUME NEW q \in Path, Unconcerned(q) PROVE node'[q] = before[q]
        <4>1. CASE q \in S
          <5>1. Target[Cur] = Absent /\ Current[Cur] = Absent
            BY <2>6, <3>2, <4>1 DEF Unconcerned
          <5>2. IsFile(before, Cur) /\ Wanted(Cur)
            BY <2>11, <5>1 DEF Planned
          <5>3. q # Cur
            BY <3>2, <5>2 DEF Unconcerned
          <5>4. before[Cur] # Dir
            BY <5>2, ConstantsAssumption DEF IsFile, ConstantsAssumption
          <5>5. before[q] = Absent
            BY <2>1, <2>2, <4>1, <5>3, <5>4, LeafFacts
          <5>. QED BY <2>4, <4>1, <5>5
        <4>2. CASE q \notin S
          BY <1>2, <2>4, <3>2, <4>2 DEF Calm, PassedInv
        <4>. QED BY <4>1, <4>2
      <3>3. \A q \in Path : node[q] = Absent => node'[q] = Absent
        BY <2>4
      <3>4. \A a \in Path : \A q \in Subtree(a) : q \in Path
        BY SubtreeFacts
      <3>5. \A a \in Path : Current[a] # Absent /\ Target[a] = Absent =>
                \/ a \in ops.remove
                \/ \E d \in ops.displace : a \in Subtree(d)
                \/ \A q \in Subtree(a) : ~Wanted(q) => node'[q] = Absent
        BY <1>2, <3>3, <3>4 DEF Calm, PassedInv
      <3>. QED BY <1>1, <1>4, <2>9, <3>1, <3>2, <3>4, <3>5 DEF PassedInv
    <2>. QED BY <2>12, <2>13, <2>14, <2>15 DEF Calm
  <1>. QED BY <1>1, <1>3, <1>4 DEF BackUpRename

(* A target file is renamed into place.                                    *)
LEMMA PublishFileCalm ==
  ASSUME IInv, IInv', Calm, PublishFile
  PROVE  Calm'
  <1>1. /\ pc = "publish_file" /\ txn' = txn /\ changes' = changes /\ made' = made
        /\ backup' = backup /\ before' = before /\ touched' = touched /\ case' = case
    BY DEF PublishFile, history, bounds
  <1>2. txn = "formal" /\ pc \in Ready /\ Pending = Len(changes) /\ ops \in Plans /\ ops # NoOps
    BY <1>1, ApplyingFacts DEF Applying
  <1>3. CASE Kind # "write"
    <2>1. NextOp /\ node' = node
      BY <1>3 DEF PublishFile
    <2>2. \A q \in Subtree(Cur) : node[q] = Absent
      BY <1>1, <1>2, <1>3 DEF Calm, MoveInv
    <2>. QED BY <1>1, <1>2, <1>3, <2>1, <2>2, MovedCalm
  <1>4. CASE Kind = "write" /\ StartRollback /\ node' = node
    BY <1>1, <1>2, <1>4, FailCalm
  <1>5. CASE /\ Kind = "write" /\ node[Cur] = Absent
             /\ node' = [node EXCEPT ![Cur] = Target[Cur]] /\ NextOp
    <2>1. /\ Cur \in Path /\ Cur \in ops.write /\ Target[Cur] # Absent
          /\ ops.displace = {} /\ ops.remove = {} /\ Wanted(Cur)
      BY <1>1, <1>2, <1>5, WritingFacts DEF Applying, Calm
    <2>2. pc' = "op" /\ ops'.displace = {} /\ ops'.remove = {} /\ ops'.write = ops.write \ {Cur}
      BY <1>2, <1>5, <2>1, NextOpExact
    <2>3. node \in [Path -> Node]
      BY DEF IInv, TypeOK
    <2>. DEFINE c == Cur
                x == Target[Cur]
    <2>4. node'[c] = x /\ \A q \in Path : q # c => node'[q] = node[q]
      BY <1>5, <2>1, <2>3
    <2>5. c \in Path /\ x = Target[c] /\ x # Absent /\ Wanted(c) /\ node[c] = Absent
      BY <1>5, <2>1
    <2>. HIDE DEF c, x
    <2>6. pc' \in Ready /\ Pending' = Len(changes) /\ ~Still' /\ ~Applied' /\ pc' # "rb_unlink"
      BY <1>1, <1>2, <2>2, AlsoApplying DEF Applying
    <2>7. /\ Target' = Target /\ Current' = Current
          /\ \A y \in Path : /\ Planned(y)' <=> Planned(y)
                             /\ Wanted(y)' <=> Wanted(y)
                             /\ Unconcerned(y)' <=> Unconcerned(y)
      BY <1>1, SamePlan
    <2>8. StartInv' /\ GoalInv'
      BY <1>1, <2>6, <2>7 DEF Calm, StartInv, Apart, GoalInv
    <2>9. KeepInv'
      <3>1. \A q \in Path : node[q] = Dir => node'[q] = Dir
        BY <2>4, <2>5, ConstantsAssumption DEF ConstantsAssumption
      <3>. QED BY <1>1, <1>2, <2>6, <2>7, <3>1 DEF Calm, KeepInv
    <2>10. MoveInv'
      BY <2>2 DEF MoveInv
    <2>11. PassedInv'
      <3>1. \A p \in Path : Target[p] # Absent => node'[p] = Target[p] \/ p \in ops'.write
        BY <1>2, <2>2, <2>4, <2>5 DEF Calm, PassedInv, c
      <3>2. \A q \in Path : Unconcerned(q) => node'[q] = before[q]
        BY <1>2, <2>4, <2>5 DEF Calm, PassedInv, Unconcerned
      <3>3. \A q \in Path : ~Wanted(q) => node'[q] = node[q]
        BY <2>4, <2>5
      <3>4. \A a \in Path : \A q \in Subtree(a) : q \in Path
        BY SubtreeFacts
      <3>5. \A a \in Path : Current[a] # Absent /\ Target[a] = Absent =>
                \A q \in Subtree(a) : ~Wanted(q) => node'[q] = Absent
        BY <1>2, <2>1, <3>3, <3>4 DEF Calm, PassedInv
      <3>. QED BY <1>1, <2>7, <3>1, <3>2, <3>4, <3>5 DEF PassedInv
    <2>. QED BY <2>8, <2>9, <2>10, <2>11 DEF Calm
  <1>. QED BY <1>3, <1>4, <1>5 DEF PublishFile

LEMMA FinishCalm ==
  ASSUME IInv, IInv', Calm, Finish
  PROVE  Calm'
  <1>1. /\ pc = "finish" /\ pc' = "idle" /\ txn' = "none" /\ changes' = <<>> /\ made' = {}
        /\ node' = node /\ index' = index /\ before' = before /\ touched' = touched /\ case' = case
    BY DEF Finish, authority, history, bounds
  <1>2. Still' => node = before
    BY <1>1 DEF Still, RolledBack, Untouched, Calm, StartInv, IInv, AuthorityInv
  <1>3. StartInv'
    BY <1>1, <1>2, StartFrame DEF Calm
  <1>4. KeepInv'
    BY <1>1 DEF KeepInv
  <1>5. MoveInv' /\ PassedInv' /\ GoalInv'
    BY <1>1 DEF MoveInv, PassedInv, GoalInv, Ready, Applying, Applied
  <1>. QED BY <1>3, <1>4, <1>5 DEF Calm

-----------------------------------------------------------------------------
(* rollback.                                                               *)

(* The change under way while a rollback undoes the journal.               *)
LEMMA UndoingFacts ==
  ASSUME IInv, pc \in {"rb_check", "rb_unlink", "rb_restore"} \/ (pc = "rb_change" /\ todo > 0)
  PROVE  /\ txn = "formal" /\ Pending = todo
         /\ todo \in 1..Len(changes) /\ Len(changes) \in Nat
         /\ Change = changes[todo] /\ Change \in Changes /\ Change.path \in Path
         /\ node \in [Path -> Node] /\ WellFormed(node)
         /\ backup \in [Path -> Node] /\ WellFormed(backup)
  <1>1. todo \in 1..Len(changes) /\ Len(changes) \in Nat
    BY DEF IInv, TypeOK, PlanInv
  <1>2. changes[todo] \in Changes /\ changes[todo].path \in Path
    BY <1>1, JournalFacts
  <1>. QED BY <1>1, <1>2 DEF IInv, TypeOK, TreeInv, AuthorityInv, Change, Pending, Undoing

(* Outside apply, publication and the original tree, two parts matter.     *)
LEMMA UndoCalm ==
  ASSUME IInv', Calm, txn' = "formal", UNCHANGED <<before, touched, case>>,
         pc' \in {"rb_change", "rb_check", "rb_unlink", "rb_restore", "rb_dirs"},
         KeepInv'
  PROVE  Calm'
  <1>1. /\ pc' \notin Ready /\ ~Still' /\ ~Applied'
    BY DEF Ready, Applying, Still, Untouched, RolledBack, Applied
  <1>2. Target' = Target /\ Current' = Current
    BY DEF Target, Current
  <1>3. StartInv'
    BY <1>1, <1>2 DEF Calm, StartInv, Apart
  <1>. QED BY <1>1, <1>3 DEF Calm, MoveInv, PassedInv, GoalInv

(* A change is undone when nothing original is left in the backup there.   *)
LEMMA UndoneKeep ==
  ASSUME IInv, Calm,
         pc \in {"rb_check", "rb_unlink", "rb_restore"}, UndoNext,
         UNCHANGED <<txn, changes, made, before, case>>,
         \A q \in Path : before[q] = Dir =>
            \/ node'[q] = Dir
            \/ /\ backup'[q] = Dir /\ q \notin Subtree(Change.path)
               /\ \E k \in 1..Len(changes) : k <= todo /\ q \in Subtree(changes[k].path)
  PROVE  KeepInv'
  <1>1. /\ txn = "formal" /\ todo \in 1..Len(changes) /\ Len(changes) \in Nat
        /\ Change = changes[todo]
    BY UndoingFacts
  <1>2. pc' = "rb_change" /\ todo' = todo - 1
    BY DEF UndoNext
  <1>3. Pending' = todo - 1
    BY <1>2 DEF Pending, Undoing
  <1>4. \A q \in Path : before[q] = Dir =>
            \/ node'[q] = Dir
            \/ backup'[q] = Dir /\ \E k \in 1..Len(changes) : k <= todo - 1 /\ q \in Subtree(changes[k].path)
    <2>1. ASSUME NEW q \in Path, NEW k \in 1..Len(changes), k <= todo,
                 q \in Subtree(changes[k].path), q \notin Subtree(changes[todo].path)
          PROVE  k <= todo - 1
      <3>1. k # todo
        BY <2>1
      <3>. QED BY <1>1, <2>1, <3>1
    <2>. QED BY <1>1, <2>1
  <1>5. \A x \in Path : Planned(x)' <=> Planned(x)
    BY SamePlan
  <1>. QED BY <1>1, <1>2, <1>3, <1>4, <1>5 DEF Calm, KeepInv

LEMMA RollbackParentsCalm ==
  ASSUME IInv, IInv', Calm, RollbackParents
  PROVE  Calm'
  <1>1. pc = "rb_change" /\ txn = "formal"
    BY DEF RollbackParents, IInv, AuthorityInv
  <1>2. CASE Refuse
    BY <1>2, RefuseCalm
  <1>3. CASE todo = 0 /\ pc' = "rb_dirs" /\ UNCHANGED <<node, authority, journal, todo, history, bounds>>
    <2>1. UNCHANGED <<node, txn, backup, changes, made, before, touched, case>>
      BY <1>3 DEF journal, history, bounds
    <2>2. Pending = 0 /\ Pending' = 0
      BY <1>1, <1>3 DEF Pending, Undoing, Undone
    <2>3. KeepInv'
      BY <1>1, <1>3, <2>1, <2>2, KeepFrame DEF Calm
    <2>. QED BY <1>1, <1>3, <2>1, <2>3, UndoCalm
  <1>4. CASE /\ todo > 0 /\ node' = WithParents(node, Change.path)
             /\ pc' = "rb_check" /\ UNCHANGED <<authority, journal, todo, history, bounds>>
    <2>1. UNCHANGED <<txn, backup, changes, made, before, touched, case>>
      BY <1>4 DEF journal, history, bounds
    <2>2. /\ Pending = todo /\ Change.path \in Path /\ node \in [Path -> Node]
      BY <1>1, <1>4, UndoingFacts
    <2>3. Pending' = Pending
      BY <1>1, <1>4, <2>2 DEF Pending, Undoing
    <2>4. \A q \in Path : node[q] = Dir => node'[q] = Dir
      BY <1>4, <2>2, WithParentsFacts
    <2>5. \A x \in Path : Planned(x)' <=> Planned(x)
      BY <2>1, SamePlan
    <2>6. KeepInv'
      BY <1>1, <1>4, <2>1, <2>3, <2>4, <2>5 DEF Calm, KeepInv
    <2>. QED BY <1>1, <1>4, <2>1, <2>6, UndoCalm
  <1>. QED BY <1>2, <1>3, <1>4 DEF RollbackParents

LEMMA RollbackCheckCalm ==
  ASSUME IInv, IInv', Calm, RollbackCheck
  PROVE  Calm'
  <1>1. /\ pc = "rb_check" /\ txn = "formal" /\ Pending = todo /\ Change.path \in Path
        /\ WellFormed(backup)
    BY UndoingFacts DEF RollbackCheck
  <1>2. CASE RollbackRefuses(Change)
    BY <1>2, RefuseCalm DEF RollbackCheck
  <1>. SUFFICES ASSUME ~RollbackRefuses(Change) PROVE Calm'
    BY <1>2
  <1>3. UNCHANGED <<node, txn, backup, changes, made, before, touched, case>>
    BY DEF RollbackCheck, journal, history, bounds
  <1>4. \A x \in Path : Planned(x)' <=> Planned(x)
    BY <1>3, SamePlan
  <1>5. CASE pc' \in {"rb_unlink", "rb_restore"} /\ todo' = todo
    <2>1. Pending' = Pending /\ Change' = Change
      BY <1>1, <1>3, <1>5 DEF Pending, Undoing, Change
    <2>2. pc' = "rb_unlink" => Unlinks(Change)
      BY <1>5 DEF RollbackCheck, UndoNext
    <2>3. pc' = "rb_unlink" /\ ~Change.expected => backup[Change.path] # Absent
      BY <2>2 DEF Unlinks
    <2>4. KeepInv'
      BY <1>1, <1>3, <1>4, <2>1, <2>3 DEF Calm, KeepInv
    <2>. QED BY <1>1, <1>3, <1>5, <2>4, UndoCalm
  <1>6. CASE UndoNext /\ backup[Change.path] = Absent
    <2>1. \A q \in Subtree(Change.path) : backup[q] = Absent
      BY <1>1, <1>6, LeafFacts, ConstantsAssumption DEF ConstantsAssumption
    <2>2. KeepInv'
      BY <1>1, <1>3, <1>6, <2>1, UndoneKeep, ConstantsAssumption DEF Calm, KeepInv, ConstantsAssumption
    <2>. QED BY <1>1, <1>3, <1>6, <2>2, UndoCalm DEF UndoNext
  <1>. QED BY <1>5, <1>6 DEF RollbackCheck

(* A directory is unlinked only where the original comes back.             *)
LEMMA RollbackUnlinkCalm ==
  ASSUME IInv, IInv', Calm, RollbackUnlink
  PROVE  Calm'
  <1>1. /\ pc = "rb_unlink" /\ txn = "formal" /\ Pending = todo /\ Change.path \in Path
        /\ todo \in 1..Len(changes) /\ Change = changes[todo]
        /\ node \in [Path -> Node]
        /\ WellFormed(backup) /\ backup \in [Path -> Node]
    BY UndoingFacts DEF RollbackUnlink
  <1>2. CASE ~Unlinkable(Change)
    BY <1>2, RefuseCalm DEF RollbackUnlink
  <1>. SUFFICES ASSUME Unlinkable(Change) PROVE Calm'
    BY <1>2
  <1>3. /\ UNCHANGED <<txn, backup, changes, made, before, touched, case>>
        /\ node' = [node EXCEPT ![Change.path] = Absent]
    BY DEF RollbackUnlink, journal, history, bounds
  <1>. DEFINE c == Change.path
  <1>4. node'[c] = Absent /\ c \in Path /\ \A q \in Path : q # c => node'[q] = node[q]
    BY <1>1, <1>3
  <1>5. before[c] = Dir /\ node[c] = Dir => backup[c] = Dir
    <2>1. SUFFICES ASSUME before[c] = Dir, node[c] = Dir PROVE backup[c] = Dir
      OBVIOUS
    <2>2. ~Change.expected
      BY <2>1, ConstantsAssumption DEF Unlinkable, IsFile, ConstantsAssumption
    <2>3. backup[c] # Absent
      BY <1>1, <2>2 DEF Calm, KeepInv
    <2>4. ~IsFile(backup, c)
      BY <1>1, <2>1, ConstantsAssumption DEF IInv, FileInv, Quiet, Calm, StartInv, IsFile, ConstantsAssumption
    <2>5. backup[c] \in Node
      BY <1>1
    <2>. QED BY <2>3, <2>4, <2>5 DEF IsFile, Node, MaybeFile
  <1>6. \A x \in Path : Planned(x)' <=> Planned(x)
    BY <1>3, SamePlan
  <1>7. c \in Subtree(c)
    BY <1>1, SubtreeFacts
  <1>8. \A q \in Path : before[q] = Dir =>
            \/ node'[q] = Dir
            \/ backup[q] = Dir /\ \E k \in 1..Len(changes) : k <= todo /\ q \in Subtree(changes[k].path)
    <2>1. ASSUME NEW q \in Path, before[q] = Dir, q = c
          PROVE  backup[q] = Dir /\ \E k \in 1..Len(changes) : k <= todo /\ q \in Subtree(changes[k].path)
      <3>1. CASE node[c] = Dir
        BY <1>1, <1>5, <1>7, <2>1, <3>1
      <3>2. CASE node[c] # Dir
        BY <1>1, <2>1, <3>2 DEF Calm, KeepInv
      <3>. QED BY <3>1, <3>2
    <2>2. ASSUME NEW q \in Path, before[q] = Dir, q # c, node[q] # Dir
          PROVE  backup[q] = Dir /\ \E k \in 1..Len(changes) : k <= todo /\ q \in Subtree(changes[k].path)
      BY <1>1, <2>2 DEF Calm, KeepInv
    <2>. QED BY <1>4, <2>1, <2>2
  <1>. HIDE DEF c
  <1>9. CASE pc' = "rb_restore" /\ todo' = todo
    <2>1. Pending' = Pending
      BY <1>1, <1>9 DEF Pending, Undoing
    <2>2. KeepInv'
      BY <1>1, <1>3, <1>6, <1>8, <1>9, <2>1 DEF Calm, KeepInv
    <2>. QED BY <1>1, <1>3, <1>9, <2>2, UndoCalm
  <1>10. CASE UndoNext /\ backup[Change.path] = Absent
    <2>1. \A q \in Subtree(Change.path) : backup[q] = Absent
      BY <1>1, <1>10, LeafFacts, ConstantsAssumption DEF ConstantsAssumption
    <2>2. \A q \in Path : before[q] = Dir =>
            \/ node'[q] = Dir
            \/ /\ backup'[q] = Dir /\ q \notin Subtree(Change.path)
               /\ \E k \in 1..Len(changes) : k <= todo /\ q \in Subtree(changes[k].path)
      BY <1>3, <1>8, <2>1, ConstantsAssumption DEF ConstantsAssumption
    <2>3. KeepInv'
      BY <1>1, <1>3, <1>10, <2>2, UndoneKeep
    <2>. QED BY <1>1, <1>3, <1>10, <2>3, UndoCalm DEF UndoNext
  <1>. QED BY <1>9, <1>10 DEF RollbackUnlink

LEMMA RollbackRestoreCalm ==
  ASSUME IInv, IInv', Calm, RollbackRestore
  PROVE  Calm'
  <1>1. /\ pc = "rb_restore" /\ txn = "formal" /\ Pending = todo /\ Change.path \in Path
        /\ node \in [Path -> Node] /\ WellFormed(node)
        /\ backup \in [Path -> Node] /\ WellFormed(backup)
    BY UndoingFacts DEF RollbackRestore
  <1>2. CASE Refuse
    BY <1>2, RefuseCalm
  <1>3. CASE /\ node[Change.path] = Absent
             /\ node' = Grafted(node, backup, Change.path)
             /\ backup' = Cleared(backup, Change.path)
             /\ UndoNext
             /\ UNCHANGED <<authority, txn, phase, changes, made, staged, history, bounds>>
    <2>1. UNCHANGED <<txn, changes, made, before, touched, case>>
      BY <1>3 DEF history, bounds
    <2>. DEFINE S == Subtree(Change.path)
    <2>2. \A q \in Path : node'[q] = IF q \in S THEN backup[q] ELSE node[q]
      BY <1>1, <1>3, GraftedFacts
    <2>3. \A q \in Path : backup'[q] = IF q \in S THEN Absent ELSE backup[q]
      BY <1>1, <1>3, ClearedFacts
    <2>4. \A q \in S : node[q] = Absent
      BY <1>1, <1>3, LeafFacts, ConstantsAssumption DEF ConstantsAssumption
    <2>5. ASSUME NEW q \in Path, before[q] = Dir
          PROVE  \/ node'[q] = Dir
                 \/ /\ backup'[q] = Dir /\ q \notin S
                    /\ \E k \in 1..Len(changes) : k <= todo /\ q \in Subtree(changes[k].path)
      <3>1. CASE q \in S
        BY <1>1, <2>2, <2>4, <2>5, <3>1, ConstantsAssumption DEF Calm, KeepInv, ConstantsAssumption
      <3>2. CASE q \notin S
        BY <1>1, <2>2, <2>3, <2>5, <3>2 DEF Calm, KeepInv
      <3>. QED BY <3>1, <3>2
    <2>6. KeepInv'
      BY <1>1, <1>3, <2>1, <2>5, UndoneKeep
    <2>. QED BY <1>1, <1>3, <2>1, <2>6, UndoCalm DEF UndoNext
  <1>. QED BY <1>2, <1>3 DEF RollbackRestore

(* Once the journaled directories are gone, the worktree is the original   *)
(* one to the last directory.                                              *)
LEMMA RollbackDirsCalm ==
  ASSUME IInv, IInv', Calm, RollbackDirs
  PROVE  Calm'
  <1>1. pc = "rb_dirs" /\ txn = "formal"
    BY DEF RollbackDirs, IInv, AuthorityInv
  <1>2. CASE Refuse
    BY <1>2, RefuseCalm
  <1>3. CASE /\ node' = [p \in Path |-> IF p \in EmptyMade THEN Absent ELSE Reparented[p]]
             /\ pc' = "rb_index"
             /\ UNCHANGED <<authority, journal, ops, todo, mode, force, history, bounds>>
    <2>1. UNCHANGED <<txn, backup, changes, made, before, touched, case>>
      BY <1>3 DEF journal, history, bounds
    <2>2. Pending = 0 /\ Pending' = 0 /\ Len(changes) \in Nat
      BY <1>1, <1>3, JournalFacts DEF Pending, Undoing, Undone
    <2>3. \A q \in Path : before[q] = Dir => node[q] = Dir
      BY <1>1, <2>2 DEF Calm, KeepInv
    <2>4. \A q \in Path : before[q] = Dir => node'[q] = Dir
      <3>1. ASSUME NEW q \in Path, before[q] = Dir PROVE node'[q] = Dir
        <4>1. q \notin EmptyMade
          BY <3>1 DEF EmptyMade, Calm, KeepInv
        <4>2. Reparented[q] = Dir
          BY <2>3, <3>1, ConstantsAssumption DEF Reparented, ConstantsAssumption
        <4>. QED BY <1>3, <4>1, <4>2
      <3>. QED BY <3>1
    <2>5. touched' = {} /\ txn' = "formal"
      BY <1>1, <2>1 DEF Calm, StartInv
    <2>6. node' \in [Path -> Node] /\ before' \in [Path -> Node]
      BY DEF IInv, TypeOK
    <2>7. \A q \in Path : ~IsFile(backup', q)
      BY <2>1, <2>2 DEF IInv, BackupInv
    <2>8. \A q \in Path : /\ IsFile(before', q) => node'[q] = before'[q] \/ backup'[q] = before'[q]
                          /\ IsFile(node', q) => node'[q] = before'[q]
      BY <2>1, <2>2, <2>5 DEF IInv, FileInv, Quiet
    <2>9. \A q \in Path : node'[q] = Dir => before'[q] = Dir
      BY <1>3, <2>5 DEF IInv, DirInv, Quiet
    <2>10. ASSUME NEW q \in Path PROVE node'[q] = before[q]
      <3>1. CASE before[q] = Dir
        BY <2>4, <3>1
      <3>2. CASE IsFile(before, q)
        BY <2>1, <2>7, <2>8, <3>2 DEF IsFile
      <3>3. CASE before[q] = Absent
        BY <2>1, <2>6, <2>8, <2>9, <3>3, ConstantsAssumption DEF Node, MaybeFile, IsFile, ConstantsAssumption
      <3>. QED BY <2>1, <2>6, <3>1, <3>2, <3>3 DEF Node, MaybeFile, IsFile
    <2>11. node' = before /\ before' = before
      BY <2>1, <2>6, <2>10
    <2>12. /\ Target' = Target /\ Current' = Current
           /\ \A x \in Path : Planned(x)' <=> Planned(x)
      BY <2>1, SamePlan
    <2>13. StartInv'
      BY <2>1, <2>11, <2>12 DEF Calm, StartInv, Apart
    <2>14. KeepInv'
      BY <1>3, <2>1, <2>4, <2>12 DEF Calm, KeepInv
    <2>15. MoveInv' /\ PassedInv' /\ GoalInv'
      BY <1>3 DEF MoveInv, PassedInv, GoalInv, Ready, Applying, Applied
    <2>. QED BY <2>13, <2>14, <2>15 DEF Calm
  <1>. QED BY <1>2, <1>3 DEF RollbackDirs

(* The replay clears the journal of a finished rollback.                   *)
LEMMA ReplayCalm ==
  ASSUME IInv, IInv', Calm, Replay \/ ResetDirectories
  PROVE  Calm'
  <1>1. /\ pc \in {"replay", "reset"}
        /\ UNCHANGED <<node, index, txn, before, touched, case>>
        /\ node = before
    BY DEF Replay, ResetDirectories, authority, history, bounds, Calm, StartInv, Still, Untouched
  <1>2. CASE pc' = "idle"
    BY <1>1, <1>2, IdleCalm DEF Replay, ResetDirectories
  <1>3. CASE pc' \in {"reset", "restage"}
    <2>1. changes' = <<>> \/ (changes' = changes /\ made' = made)
      BY <1>3 DEF Replay, ResetDirectories
    <2>2. made' = {} \/ (changes' = changes /\ made' = made)
      BY <1>3 DEF Replay, ResetDirectories
    <2>3. /\ Target' = Target /\ Current' = Current
          /\ \A x \in Path : Planned(x)' <=> Planned(x)
      BY <1>1, SamePlan
    <2>4. StartInv'
      BY <1>1, <2>3 DEF Calm, StartInv, Apart
    <2>5. \A k \in 1..Len(changes'), x \in Path : changes'[k].path = x => Planned(x)'
      BY <2>1, <2>3 DEF Calm, KeepInv
    <2>6. \A d \in made' : before'[d] # Dir
      BY <1>1, <2>2 DEF Calm, KeepInv
    <2>7. \A q \in Path : before'[q] = Dir => node'[q] = Dir
      BY <1>1
    <2>8. KeepInv'
      BY <1>3, <2>5, <2>6, <2>7 DEF KeepInv
    <2>9. MoveInv' /\ PassedInv' /\ GoalInv'
      BY <1>3 DEF MoveInv, PassedInv, GoalInv, Ready, Applying, Applied
    <2>. QED BY <2>4, <2>8, <2>9 DEF Calm
  <1>. QED BY <1>2, <1>3 DEF Replay, ResetDirectories

-----------------------------------------------------------------------------
LEMMA InitCalm ==
  ASSUME StartsApart, Init
  PROVE  Calm
  <1>1. /\ case \in DOMAIN Cases /\ node \in Cases[case].trees /\ before = node /\ touched = {}
        /\ txn = "none" /\ pc = "idle" /\ changes = <<>> /\ made = {}
    BY DEF Init
  <1>2. Apart(before, Current, Target)
    BY <1>1 DEF StartsApart, Current, Target
  <1>3. StartInv
    BY <1>1, <1>2 DEF StartInv
  <1>4. KeepInv
    BY <1>1 DEF KeepInv
  <1>5. MoveInv /\ PassedInv /\ GoalInv
    BY <1>1 DEF MoveInv, PassedInv, GoalInv, Ready, Applying, Applied
  <1>. QED BY <1>3, <1>4, <1>5 DEF Calm

LEMMA CalmStep ==
  ASSUME IInv, IInv', XInv, Next
  PROVE  XInv'
  <1>1. SUFFICES ASSUME edits' = 0 PROVE Calm'
    BY DEF XInv
  <1>2. ASSUME NEW p \in Path, NEW c \in Node, UserEdit(p, c) PROVE FALSE
    <2>1. edits' = edits + 1 /\ edits \in Nat
      BY <1>2, ConstantsAssumption DEF UserEdit, IInv, TypeOK, ConstantsAssumption
    <2>. QED BY <1>1, <2>1
  <1>3. edits = 0
    BY <1>1, <1>2
    DEF Next, Command, Checkout, Crash, Recover, Preflight, Publish, BeginApply, BeginOp,
        EnsureParents, BackUpIntent, BackUpRename, PublishFile, WriteIndex, SetIndexUpdated,
        PublishHead, SetHeadUpdated, Finish, RollbackHead, RollbackParents, RollbackCheck,
        RollbackUnlink, RollbackRestore, RollbackDirs, RollbackIndex, SetRolledBack, Replay,
        ResetDirectories, Restage, Refuse, bounds
  <1>4. Calm
    BY <1>3 DEF XInv
  <1>. QED
    BY <1>2, <1>4, AuthorityCalm, CheckoutCalm, PreflightCalm, BeginOpCalm, EnsureParentsCalm,
       IntentCalm, BackUpRenameCalm, PublishFileCalm, FinishCalm, RollbackParentsCalm,
       RollbackCheckCalm, RollbackUnlinkCalm, RollbackRestoreCalm, RollbackDirsCalm, ReplayCalm
    DEF Next, Command

LEMMA CalmStutter ==
  ASSUME XInv, UNCHANGED vars
  PROVE  XInv'
  BY DEF vars, XInv, Calm, StartInv, Still, Untouched, RolledBack, Apart, Current, Target, KeepInv,
         Pending, Undoing, Undone, Change, Planned, Wanted, IsFile, MoveInv, PassedInv, Unconcerned,
         Kind, Cur, Ready, Applying, Applied, GoalInv, Goal

(* Up to the first edit by the user, and if checkout starts from a         *)
(* worktree in which no directory stands where it removes a file and needs *)
(* a directory, StartInv, KeepInv, MoveInv, PassedInv and GoalInv hold.    *)
THEOREM Calmness == ASSUME StartsApart PROVE Spec => []XInv
  <1>1. Init => XInv
    BY InitCalm DEF XInv
  <1>2. IInv /\ IInv' /\ XInv /\ [Next]_vars => XInv'
    BY CalmStep, CalmStutter
  <1>. QED BY <1>1, <1>2, Invariance, PTL DEF Spec

-----------------------------------------------------------------------------
(* The refinement.                                                         *)
AWorld == IF txn = "formal" THEN World(before, "before", "before") ELSE World(node, index, head)
APending == IF txn = "formal" THEN {World(Goal(before), "target", "after")} ELSE {}

LEMMA InitRefines ==
  ASSUME IInv, Init
  PROVE  Atomic!Init
  <1>1. txn = "none" /\ node \in [Path -> Node] /\ index = "before" /\ head = "before"
    BY DEF Init, IInv, TypeOK
  <1>. QED BY <1>1 DEF Atomic!Init, World

(* The publication of the draft begins the change.                         *)
LEMMA PublishRefines ==
  ASSUME IInv, Calm, Publish
  PROVE  Atomic!Next \/ UNCHANGED Atomic!vars
  <1>1. /\ txn' = "formal" /\ node' = node /\ before' = before /\ case' = case /\ pc = "publish"
        /\ index' = index /\ head' = head
    BY DEF Publish, authority, history, bounds
  <1>2. node = before /\ index = "before" /\ head = "before"
    BY <1>1 DEF Calm, StartInv, Still, Untouched, IInv, AuthorityInv
  <1>3. Goal(before)' = Goal(before)
    BY <1>1, SamePlan DEF Goal
  <1>4. Goal(before) \in [Path -> Node]
    <2>1. \A p \in Path : Target[p] \in Node /\ before[p] \in Node
      BY ConstantsAssumption DEF ConstantsAssumption, IInv, TypeOK, Target, Node
    <2>2. Dir \in Node /\ Absent \in Node
      BY DEF Node, MaybeFile
    <2>. QED BY <2>1, <2>2 DEF Goal
  <1>5. CASE txn = "formal"
    BY <1>1, <1>3, <1>5 DEF Atomic!vars, World
  <1>6. CASE txn # "formal"
    <2>. DEFINE W == {World(t, i, h) : t \in [Path -> Node], i \in {"before", "target"},
                                       h \in {"before", "after"}}
                w == World(Goal(before), "target", "after")
    <2>1. w \in W
      BY <1>4
    <2>2. APending = {} /\ APending' = {w} /\ AWorld' = AWorld
      BY <1>1, <1>2, <1>3, <1>6 DEF APending, AWorld, World
    <2>. QED BY <2>1, <2>2 DEF Atomic!Next, Atomic!Begin, AWorld, APending
  <1>. QED BY <1>5, <1>6

(* The end of the transaction is the end of the change: the goal, or the   *)
(* tree it started from.                                                   *)
LEMMA FinishRefines ==
  ASSUME IInv, Calm, Finish
  PROVE  Atomic!Next
  <1>1. /\ txn' = "none" /\ node' = node /\ pc = "finish"
        /\ index' = index /\ head' = head /\ txn = "formal"
    BY DEF Finish, authority, IInv, AuthorityInv
  <1>. DEFINE w == World(Goal(before), "target", "after")
  <1>2. APending = {w} /\ APending' = {} /\ AWorld = World(before, "before", "before")
        /\ AWorld' = World(node, index, head)
    BY <1>1 DEF APending, AWorld, World
  <1>3. CASE RolledBack
    <2>1. node = before /\ index = "before" /\ head = "before"
      BY <1>1, <1>3 DEF Calm, StartInv, Still, RolledBack, IInv, AuthorityInv
    <2>. QED BY <1>2, <2>1 DEF Atomic!Next, Atomic!Abort, AWorld, APending
  <1>4. CASE ~RolledBack
    <2>1. node = Goal(before) /\ index = "target" /\ head = "after"
      BY <1>1, <1>4 DEF Calm, GoalInv, Applied, RolledBack, IInv, AuthorityInv
    <2>. QED BY <1>2, <2>1 DEF Atomic!Next, Atomic!Commit, AWorld, APending
  <1>. QED BY <1>3, <1>4

(* No other step is seen.                                                  *)
LEMMA OthersStutter ==
  ASSUME IInv, Calm, Next, ~Publish, ~Finish, edits' = 0, edits = 0
  PROVE  UNCHANGED Atomic!vars
  <1>1. ASSUME NEW p \in Path, NEW c \in Node, UserEdit(p, c) PROVE FALSE
    BY <1>1 DEF UserEdit
  <1>2. CASE \E f \in BOOLEAN : Checkout(f)
    <2>1. txn # "formal" /\ txn' # "formal" /\ UNCHANGED <<node, index, head>>
      BY <1>2 DEF Checkout, authority
    <2>. QED BY <2>1 DEF Atomic!vars, World
  <1>3. CASE UNCHANGED <<txn, before, case>> /\ txn = "formal"
    <2>1. Goal(before)' = Goal(before)
      BY <1>3, SamePlan DEF Goal
    <2>. QED BY <1>3, <2>1 DEF Atomic!vars, World
  <1>4. CASE UNCHANGED <<txn, node, index, head>> /\ txn # "formal"
    BY <1>4 DEF Atomic!vars, World
  <1>5. CASE Command
    <2>1. UNCHANGED <<txn, before, case>>
      BY <1>5
      DEF Command, Preflight, BeginApply, BeginOp, EnsureParents, BackUpIntent, BackUpRename,
          PublishFile, WriteIndex, SetIndexUpdated, PublishHead, SetHeadUpdated, RollbackHead,
          RollbackParents, RollbackCheck, RollbackUnlink, RollbackRestore, RollbackDirs,
          RollbackIndex, SetRolledBack, Replay, ResetDirectories, Restage, Refuse,
          journal, history, bounds
    <2>2. CASE Preflight
      <3>1. UNCHANGED <<node, index, head>>
        BY <2>2 DEF Preflight, authority
      <3>. QED BY <1>3, <1>4, <2>1, <3>1
    <2>3. CASE ~Preflight
      <3>1. pc \notin {"idle", "preflight", "publish"}
        BY <1>5, <2>3
        DEF Command, BeginApply, BeginOp, EnsureParents, BackUpIntent, BackUpRename,
            PublishFile, WriteIndex, SetIndexUpdated, PublishHead, SetHeadUpdated, RollbackHead,
            RollbackParents, RollbackCheck, RollbackUnlink, RollbackRestore, RollbackDirs,
            RollbackIndex, SetRolledBack, Replay, ResetDirectories, Restage
      <3>2. txn = "formal"
        BY <3>1 DEF IInv, AuthorityInv
      <3>. QED BY <1>3, <2>1, <3>2
    <2>. QED BY <2>2, <2>3
  <1>6. CASE Crash \/ \E m \in {"recover", "abort"} : Recover(m)
    <2>1. UNCHANGED <<node, txn, index, head, before, case>>
      BY <1>6 DEF Crash, Recover, authority, journal, history, bounds
    <2>. QED BY <1>3, <1>4, <2>1
  <1>. QED BY <1>1, <1>2, <1>5, <1>6 DEF Next

LEMMA StepRefines ==
  ASSUME IInv, IInv', XInv, Next, edits' = 0
  PROVE  Atomic!Next \/ UNCHANGED Atomic!vars
  <1>1. edits = 0
    <2>1. ASSUME NEW p \in Path, NEW c \in Node, UserEdit(p, c) PROVE FALSE
      BY <2>1, ConstantsAssumption DEF UserEdit, IInv, TypeOK, ConstantsAssumption
    <2>. QED BY <2>1
      DEF Next, Command, Checkout, Crash, Recover, Preflight, Publish, BeginApply, BeginOp,
          EnsureParents, BackUpIntent, BackUpRename, PublishFile, WriteIndex, SetIndexUpdated,
          PublishHead, SetHeadUpdated, Finish, RollbackHead, RollbackParents, RollbackCheck,
          RollbackUnlink, RollbackRestore, RollbackDirs, RollbackIndex, SetRolledBack, Replay,
          ResetDirectories, Restage, Refuse, bounds
  <1>2. Calm
    BY <1>1 DEF XInv
  <1>. QED BY <1>1, <1>2, PublishRefines, FinishRefines, OthersStutter

LEMMA StutterRefines ==
  ASSUME UNCHANGED vars
  PROVE  UNCHANGED Atomic!vars
  BY DEF vars, Atomic!vars, World, Goal, Target, Current

(* checkout, its rollback and its recovery implement AtomicChange: up to   *)
(* the first edit by the user, and from a worktree in which no directory   *)
(* stands where checkout removes a file and needs a directory, worktree,   *)
(* Index and HEAD change together or not at all, whatever crashes, failing *)
(* writes and interrupted rollbacks come between (publish_checkout_        *)
(* authority, rollback, recover_transaction).                              *)
THEOREM Refinement == ASSUME StartsApart PROVE Spec => AllOrNothing
  <1>1. Init => Atomic!Init
    BY InitStep, InitRefines
  <1>2. IInv /\ IInv' /\ XInv /\ [Next]_vars => [edits' > 0 \/ Atomic!Next]_(Atomic!vars)
    <2>1. SUFFICES ASSUME IInv, IInv', XInv, [Next]_vars
                   PROVE  edits' > 0 \/ Atomic!Next \/ UNCHANGED Atomic!vars
      OBVIOUS
    <2>2. edits' \in Nat
      BY <2>1, ConstantsAssumption DEF IInv, TypeOK, ConstantsAssumption
    <2>3. CASE Next /\ edits' = 0
      BY <2>1, <2>3, StepRefines
    <2>4. CASE UNCHANGED vars
      BY <2>4, StutterRefines
    <2>. QED BY <2>1, <2>2, <2>3, <2>4
  <1>. QED BY <1>1, <1>2, Invariance, Calmness, PTL DEF Spec, AllOrNothing

=============================================================================

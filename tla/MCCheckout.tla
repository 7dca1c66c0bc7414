----------------------------- MODULE MCCheckout -----------------------------
(* Paths a = 1, a/b = 2 and c = 3, and the trees a checkout moves between. *)
EXTENDS CheckoutTransaction

MCParent == <<0, 1, 0>>

AnyTree == {t \in [Path -> Node] : WellFormed(t)}
NoFileAt(p) == {t \in AnyTree : t[p] \notin Contents}
FileAt(p) == {t \in AnyTree : t[p] \in Contents}

Case(current, target, trees, nc, ne, nf) ==
    [current |-> current, target |-> target, clean |-> TRUE, trees |-> trees,
     crashes |-> nc, edits |-> ne, faults |-> nf]

FileToDir(nc, nf) ==
    Case(<<"o", Absent, Absent>>, <<Absent, "t", "t">>, FileAt(1), nc, 0, nf)
DirToFile(nc, nf) ==
    Case(<<Absent, "o", "o">>, <<"t", Absent, Absent>>, NoFileAt(1), nc, 0, nf)

InPlace(nc, ne, nf) ==
    Case(<<Absent, "o", "o">>, <<Absent, "t", Absent>>, NoFileAt(1), nc, ne, nf)

(* a/b and c change in place, while the user edits and a write fails; the  *)
(* file a becomes the directory of a/b, and the reverse; the command and   *)
(* its recovery die, or the Index write fails and the rollback dies.       *)
MCCases == <<InPlace(1, 1, 1), InPlace(2, 0, 0), FileToDir(2, 0), FileToDir(1, 1),
             DirToFile(2, 0), DirToFile(1, 1)>>

(* Paths a = 1, a/b = 2 and a/b/c = 3.  The file a becomes two directories, *)
(* one inside the other, and the command dies once; the file a becomes the *)
(* directory of a/b, and the rollback after a crash is itself cut short.   *)
NestedParent == <<0, 1, 2>>
RecoverCases == <<
    Case(<<"o", Absent, Absent>>, <<Absent, Absent, "t">>, FileAt(1), 1, 0, 0),
    Case(<<"o", Absent, Absent>>, <<Absent, "t", Absent>>, FileAt(1), 2, 0, 0)>>

(* No case starts from a tree the refinement excludes.                     *)
ASSUME CasesApart == StartsApart
=============================================================================

------------------------------- MODULE Versions --------------------------------
(***************************************************************************)
(* The order of versions (pkg/semver/semver.go) by which the Panel tells   *)
(* an operator that an Agent should be upgraded.                           *)
(*                                                                         *)
(* A text is nothing, a version, "dev" or "unknown", or something else; a  *)
(* version is three numbers and the identifiers of a prerelease, each a    *)
(* number or a word (by its place in the order of words).                  *)
(***************************************************************************)
EXTENDS Integers, Sequences

Cmp(a, b) == CASE a < b -> -1 [] a > b -> 1 [] OTHER -> 0

\* The first of a sequence of comparisons that tells a difference.
Decide(results) ==
    LET telling == {i \in DOMAIN results : results[i] # 0}
    IN IF telling = {} THEN 0 ELSE results[CHOOSE i \in telling : \A j \in telling : i <= j]

\* MUTANT: a number beside a word comes first, whichever side it is on.
NumberFirst(a, b) == IF a.word # b.word THEN -1 ELSE Cmp(a.value, b.value)

\* Numbers by value, words in order, numbers before words.
ComparePart(a, b) ==
    CASE ~a.word /\ b.word -> -1
      [] a.word /\ ~b.word -> 1
      [] OTHER -> Cmp(a.value, b.value)

ComparePre(a, b) ==
    LET n == IF Len(a) < Len(b) THEN Len(a) ELSE Len(b)
    IN Decide([i \in 1 .. n |-> ComparePart(a[i], b[i])] \o <<Cmp(Len(a), Len(b))>>)

\* A version without prerelease comes after those with one.
Compare(a, b) ==
    Decide([i \in 1 .. 3 |-> Cmp(a.core[i], b.core[i])] \o
           <<CASE a.pre = <<>> /\ b.pre = <<>> -> 0
               [] a.pre = <<>> /\ b.pre # <<>> -> 1
               [] a.pre # <<>> /\ b.pre = <<>> -> -1
               [] OTHER -> ComparePre(a.pre, b.pre)>>)

\* What Parse makes of a text.
Text(kind, core, pre, loose) == [kind |-> kind, core |-> core, pre |-> pre, loose |-> loose]

IsOutdated(current, recommended) ==
    /\ recommended.kind # "empty"
    /\ \/ current.kind \in {"empty", "bare"}
       \/ /\ current.kind = "version" /\ recommended.kind = "version"
          /\ Compare(current, recommended) < 0
       \/ current.kind = "other" /\ recommended.kind = "version"
       \/ /\ current.kind = "other" /\ recommended.kind \in {"other", "bare"}
          /\ current.loose # recommended.loose

-----------------------------------------------------------------------------

\* Upgrades come to an end: versions are ordered, so an Agent that has the recommended version
\* is not told to take it again, and of two versions at most one is an upgrade of the other;
\* a recommended text that is no version settles the Agent that has it, "dev" aside.
UpgradesEnd(a, b, c) ==
    /\ a.kind = "version" /\ b.kind = "version" /\ c.kind = "version" =>
           /\ Compare(a, b) = -Compare(b, a)
           /\ Compare(a, b) <= 0 /\ Compare(b, c) <= 0 => Compare(a, c) <= 0
    /\ IsOutdated(a, b) /\ IsOutdated(b, a) => "version" \notin {a.kind, b.kind} \/ "bare" \in {a.kind, b.kind}
    /\ a.kind # "bare" => ~IsOutdated(a, a)
=============================================================================

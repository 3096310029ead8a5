---------------------------- MODULE CheckHistory ----------------------------
(***************************************************************************)
(* What the two windows of evaluate_incident select from check_results.    *)
(* A history is a set of rows; row.at is its place in the order            *)
(* (checked_at, id): checked_at is NOW(), the start of the writing         *)
(* transaction, so a row's place is that of its transaction's BEGIN.       *)
(***************************************************************************)
EXTENDS Naturals, FiniteSets

(* ORDER BY checked_at DESC, id DESC LIMIT n *)
Recent(history, n) ==
    {r \in history : Cardinality({q \in history : q.at > r.at}) < n}

(* Mutant: the length of the window is not compared with n. *)
StreakOfAnyLength(history, n, s) == \A r \in Recent(history, n) : r.status = s

(* recent.len() == n and every one of them has status s *)
Streak(history, n, s) ==
    /\ Cardinality(Recent(history, n)) = n
    /\ \A r \in Recent(history, n) : r.status = s

=============================================================================

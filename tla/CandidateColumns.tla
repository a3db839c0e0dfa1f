-------------------------- MODULE CandidateColumns --------------------------
(***************************************************************************)
(* The columns in which a voter arranges the candidates of a preferential  *)
(* question, as operators on their state                                   *)
(*     [columns, order, created]:                                          *)
(* the candidates of each column, the columns from left to right, and the  *)
(* number of columns ever made.  PreferentialVotingApp has preference      *)
(* levels, PreferentialVotingWithoutEqualityApp one column Ranked; both    *)
(* have the column NotRanked.                                              *)
(***************************************************************************)
EXTENDS Naturals, SequencesExt

CONSTANTS
    NotRanked,      \* the column "not-ranked"
    Ranked,         \* the column "ranked"
    None            \* undefined

ASSUME ColumnsAssumption ==
    /\ NotRanked \notin Nat
    /\ Ranked \notin Nat
    /\ Ranked # NotRanked
    /\ None \notin Nat \cup Seq(Nat)

(* The n candidates start not ranked, beside two empty levels.             *)
LevelsOf(n) ==
    [columns |-> [k \in {0, 1, NotRanked} |->
                      IF k = NotRanked THEN [c \in 1..n |-> c] ELSE <<>>],
     order |-> <<0, 1, NotRanked>>,
     created |-> 3]

RankingOf(n) ==
    [columns |-> [k \in {Ranked, NotRanked} |->
                      IF k = NotRanked THEN [c \in 1..n |-> c] ELSE <<>>],
     order |-> <<Ranked, NotRanked>>,
     created |-> 2]

(* Array.splice(k - 1, 0, e), which appends when k is past the end.        *)
Put(s, k, e) == InsertAt(s, IF k > Len(s) THEN Len(s) + 1 ELSE k, e)

(* Mutant of Move: the candidate stays in its column too.                  *)
MoveCopy(ui, from, i, to, k) ==
    [ui EXCEPT !.columns[to] = Put(@, k, ui.columns[from][i])]

(* The i-th candidate of a column goes to the k-th place of a column.      *)
Move(ui, from, i, to, k) ==
    LET taken == RemoveAt(ui.columns[from], i)
        target == IF from = to THEN taken ELSE ui.columns[to]
    IN [ui EXCEPT !.columns =
            [@ EXCEPT ![from] = taken, ![to] = Put(target, k, ui.columns[from][i])]]

(* Mutant of InsertLevel: the new level comes after the column.            *)
InsertLevelAfter(ui, p) ==
    [columns |-> [k \in DOMAIN ui.columns \cup {ui.created} |->
                      IF k = ui.created THEN <<>> ELSE ui.columns[k]],
     order |-> InsertAt(ui.order, p + 1, ui.created),
     created |-> ui.created + 1]

(* A new level before the p-th column.                                     *)
InsertLevel(ui, p) ==
    [columns |-> [k \in DOMAIN ui.columns \cup {ui.created} |->
                      IF k = ui.created THEN <<>> ELSE ui.columns[k]],
     order |-> InsertAt(ui.order, p, ui.created),
     created |-> ui.created + 1]

DeleteLevel(ui, p) ==
    [ui EXCEPT
        !.columns = [k \in DOMAIN @ \ {ui.order[p]} |-> @[k]],
        !.order = RemoveAt(@, p)]

(* Where a candidate is: its column, the index of the column from the left *)
(* (counted from 0, as in the code), and its place within.                 *)
ColumnOf(ui, c) == CHOOSE k \in DOMAIN ui.columns : c \in ToSet(ui.columns[k])
IndexOf(ui, k) == (CHOOSE p \in DOMAIN ui.order : ui.order[p] = k) - 1
PlaceOf(ui, c) ==
    LET s == ui.columns[ColumnOf(ui, c)] IN CHOOSE i \in DOMAIN s : s[i] = c

(* buildUserVoteForAllCandidatesInQuestion of the two components: the      *)
(* levels, and the places in the column Ranked.                            *)
VoteByLevel(ui, n) ==
    [c \in 1..n |-> IF ColumnOf(ui, c) = NotRanked
                    THEN None ELSE IndexOf(ui, ColumnOf(ui, c))]

VoteByPlace(ui, n) ==
    [c \in 1..n |-> IF ColumnOf(ui, c) = NotRanked
                    THEN None ELSE PlaceOf(ui, c) - 1]

(* The places the select box of the i-th candidate of a column offers      *)
(* within Ranked.  The filter on its own rank (i + 1 with i counted from   *)
(* 0) is applied in both columns; a place is the one the candidate gets    *)
(* when nothing is removed before it.                                      *)
RankedPlaces(ui, from, i) ==
    LET ranked == ui.columns[Ranked]
        self == ui.columns[from][i]
        above == {k \in DOMAIN ranked : ranked[k] # self /\ k # i + 1}
        below == IF ranked = <<>> \/ Last(ranked) # self
                 THEN {Len(ranked) + 1} ELSE {}
    IN above \cup below
=============================================================================

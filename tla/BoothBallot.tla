---------------------------- MODULE BoothBallot ----------------------------
(***************************************************************************)
(* What a voter's choices become: the kinds of questions, the plaintext    *)
(* ballot made of the choices, the recapitulation shown of it, and how the *)
(* encryption and the counting methods read it.                            *)
(*                                                                         *)
(* A question is a record with the fields of its description that matter:  *)
(* type, sub (extra.type), method, n (answers), sizes (candidates of each  *)
(* list), blank, min, max, grades.  A vote is a function from 1..n+1: the  *)
(* cell n+1 is the blank vote, None while the array has no such cell.  The *)
(* vote for lists is a sequence of functions, 0 being the list itself.     *)
(***************************************************************************)
EXTENDS CandidateColumns, Integers, FiniteSetsExt

CONSTANTS
    EmptyText,      \* the contents of an emptied number field
    BlankMark,      \* "Blank vote" in a recapitulation
    ErrorMark       \* "ERROR" in a recapitulation

ASSUME TextsAssumption ==
    /\ EmptyText # None
    /\ BlankMark # ErrorMark

Preferential == {"SCHULZE", "STV"}

(* "unknown": detectQuestionType throws.                                   *)
QuestionType(q) ==
    CASE q.type = "Lists" -> "LISTS"
      [] q.type \notin {"Lists", "NonHomomorphic"} -> "CLASSIC"
      [] q.type = "NonHomomorphic" /\ q.sub = "none" -> "GENERIC"
      [] q.type = "NonHomomorphic" /\ q.sub = "ScoreVoting" ->
            "MAJORITY_JUDGMENT"
      [] q.type = "NonHomomorphic" /\ q.sub = "PreferentialVoting"
            /\ q.method = "Schulze" -> "SCHULZE"
      [] q.type = "NonHomomorphic" /\ q.sub = "PreferentialVoting"
            /\ q.method = "STV" -> "STV"
      [] OTHER -> "unknown"

(* Lists and generic questions have no blankVoteIsAllowed.                 *)
BlankAllowed(q) == QuestionType(q) \notin {"LISTS", "GENERIC"} /\ q.blank

(* new Election does not throw.                                            *)
Readable(election) ==
    \A i \in DOMAIN election : QuestionType(election[i]) # "unknown"

InitialVote(q) ==
    IF QuestionType(q) = "LISTS"
    THEN [l \in 1..Len(q.sizes) |-> [c \in 0..q.sizes[l] |-> None]]
    ELSE [c \in 1..q.n + 1 |-> None]

VotedBlank(q, vote) == BlankAllowed(q) /\ vote[q.n + 1] = 1

-----------------------------------------------------------------------------
(* convertStateToUncryptedBallot                                           *)

Defined(x) == IF x = None THEN 0 ELSE x

(* The levels above an empty one are lowered.                              *)
Lower(ranks, level) ==
    IF \E c \in DOMAIN ranks : ranks[c] = level THEN ranks
    ELSE [c \in DOMAIN ranks |->
            IF ranks[c] > level THEN ranks[c] - 1 ELSE ranks[c]]

(* From level n down to 1.                                                 *)
LowerAll(ranks) ==
    FoldLeft(Lower, ranks, [k \in DOMAIN ranks |-> Len(ranks) + 1 - k])

(* Mutant of RemoveEmptyLevels: one pass over the levels.                  *)
RemoveEmptyLevelsOnce(ranks) == LowerAll(ranks)

(* The passes are repeated until nothing changes.                          *)
Settle[ranks \in Seq(Nat)] ==
    IF LowerAll(ranks) = ranks THEN ranks ELSE Settle[LowerAll(ranks)]

RemoveEmptyLevels(ranks) == Settle[ranks]

(* The answer to one question.                                             *)
AnswerOf(q, vote) ==
    LET ranks == [c \in 1..q.n |-> IF vote[c] = None THEN 0 ELSE vote[c] + 1]
        type == QuestionType(q)
    IN CASE type = "LISTS" -> vote
         [] type \in {"MAJORITY_JUDGMENT"} \cup Preferential
                /\ VotedBlank(q, vote) -> [c \in 1..q.n |-> 0]
         [] type = "SCHULZE" /\ ~VotedBlank(q, vote) -> RemoveEmptyLevels(ranks)
         [] type \in {"MAJORITY_JUDGMENT", "STV"}
                /\ ~VotedBlank(q, vote) -> ranks
         [] type = "CLASSIC" /\ q.blank ->
                <<IF vote[q.n + 1] = 1 THEN 1 ELSE 0>>
                    \o [c \in 1..q.n |-> Defined(vote[c])]
         [] OTHER -> [c \in 1..q.n |-> Defined(vote[c])]

Convert(election, votes) ==
    [i \in DOMAIN election |-> AnswerOf(election[i], votes[i])]

-----------------------------------------------------------------------------
(* The alerts onClickNext raises: a candidate without a grade, both blank  *)
(* and something, more needed, less needed.  The vote is valid when there  *)
(* is none.                                                                *)

Checked(answer) == Cardinality({c \in DOMAIN answer : answer[c] = 1})

AlertsOf(q, vote) ==
    LET answer == AnswerOf(q, vote)
        type == QuestionType(q)
        blank == VotedBlank(q, vote)
    IN CASE type = "MAJORITY_JUDGMENT" /\ ~blank ->
                {<<"grade", c>> : c \in {d \in 1..q.n : vote[d] = None}}
         [] type = "CLASSIC" ->
                {a \in {<<"both">>, <<"more">>, <<"less">>} :
                    \/ a = <<"both">> /\ blank /\ Checked(answer) > 1
                    \/ a = <<"more">> /\ ~blank /\ Checked(answer) < q.min
                    \/ a = <<"less">> /\ ~blank /\ Checked(answer) > q.max}
         [] type = "LISTS" ->
                IF \E l \in DOMAIN answer :
                    /\ answer[l][0] = 1
                    /\ \A k \in 1..l - 1 : answer[k][0] # 1
                    /\ \E c \in DOMAIN answer[l] \ {0} : answer[l][c] = 1
                THEN {} ELSE {<<"more">>}
         [] OTHER -> {}

-----------------------------------------------------------------------------
(* The recapitulation of an answer: a record of what is displayed.         *)

Blank == [blank |-> TRUE]

(* Mutant of ClassicRecap: the place of the blank vote is not skipped.     *)
ClassicRecapUnshifted(q, answer) ==
    [marks |-> {CASE answer[k] # 1 -> ErrorMark
                  [] answer[k] = 1 /\ k = 1 /\ q.blank -> BlankMark
                  [] OTHER -> k
                : k \in {j \in DOMAIN answer : answer[j] # 0}}]

(* A mark is a candidate, BlankMark or ErrorMark.                          *)
ClassicRecap(q, answer) ==
    [marks |-> {CASE answer[k] # 1 -> ErrorMark
                  [] answer[k] = 1 /\ k = 1 /\ q.blank -> BlankMark
                  [] OTHER -> IF q.blank THEN k - 1 ELSE k
                : k \in {j \in DOMAIN answer : answer[j] # 0}}]

(* The selected lists, with the candidates that are not struck through.    *)
ListsRecap(q, answer) ==
    [lists |-> {IF answer[l][0] = 1
                THEN <<l, {c \in 1..q.sizes[l] : answer[l][c] = 1}>>
                ELSE ErrorMark
                : l \in {k \in DOMAIN answer : answer[k][0] # 0}}]

AllZero(answer) == \A c \in DOMAIN answer : answer[c] = 0

GradesRecap(q, answer) ==
    IF q.blank /\ AllZero(answer) THEN Blank
    ELSE [grades |-> [c \in DOMAIN answer |->
            IF answer[c] \in 1..q.grades THEN answer[c] - 1 ELSE ErrorMark]]

(* The candidates by level; a level without candidates is not shown.  The  *)
(* index 0 - 1 puts the candidates not ranked nowhere.                     *)
LevelsRecap(q, answer) ==
    IF q.blank /\ AllZero(answer) THEN Blank
    ELSE [levels |-> {<<answer[c], {d \in DOMAIN answer : answer[d] = answer[c]}>>
                        : c \in {d \in DOMAIN answer : answer[d] # 0}},
          notRanked |-> {c \in DOMAIN answer : answer[c] = 0}]

(* The candidate shown at each rank: the last one written there.           *)
RanksRecap(q, answer) ==
    IF q.blank /\ AllZero(answer) THEN Blank
    ELSE [ranks |-> [r \in {answer[c] : c \in DOMAIN answer} \ {0} |->
                        CHOOSE c \in DOMAIN answer :
                            /\ answer[c] = r
                            /\ \A d \in c + 1..Len(answer) : answer[d] # r],
          notRanked |-> {c \in DOMAIN answer : answer[c] = 0}]

WholeRecap(q, answer) ==
    CASE QuestionType(q) = "MAJORITY_JUDGMENT" -> GradesRecap(q, answer)
      [] QuestionType(q) = "SCHULZE" -> LevelsRecap(q, answer)
      [] QuestionType(q) = "STV" -> RanksRecap(q, answer)
      [] QuestionType(q) = "CLASSIC" -> ClassicRecap(q, answer)
      [] QuestionType(q) = "LISTS" -> ListsRecap(q, answer)
      [] OTHER -> [unknown |-> TRUE]

-----------------------------------------------------------------------------
(* Encryption and counting                                                 *)

(* create_answer of homomorphic questions: each choice is 0 or 1, and the  *)
(* proof that their number is right can be made.                           *)
ClassicAccepted(q, answer) ==
    LET first == IF q.blank THEN 2 ELSE 1
        sum == MapThenSumSet(LAMBDA c : answer[c], first..Len(answer))
    IN /\ Len(answer) = q.n + first - 1
       /\ \A c \in DOMAIN answer : answer[c] \in {0, 1}
       /\ IF q.blank /\ answer[1] = 1 THEN sum = 0 ELSE sum \in q.min..q.max

(* create_answer of lists: one list, not empty, and the others empty.      *)
ListsAccepted(q, answer) ==
    /\ Len(answer) = Len(q.sizes)
    /\ \A l \in DOMAIN answer : \A c \in 0..q.sizes[l] : answer[l][c] \in {0, 1}
    /\ Cardinality({l \in DOMAIN answer : answer[l][0] = 1}) = 1
    /\ \A l \in DOMAIN answer : \A c \in 1..q.sizes[l] :
            answer[l][c] = 1 => answer[l][0] = 1
    /\ \E l \in DOMAIN answer : \E c \in 1..q.sizes[l] : answer[l][c] = 1

(* compute_matrix counts the ballot as valid or as blank.                  *)
GradesCounted(q, answer) ==
    \/ \A c \in 1..q.n : answer[c] \in 1..q.grades
    \/ q.blank /\ AllZero(answer)

(* compute_raw: the ballot prefers a to b.                                 *)
Prefers(answer, a, b) ==
    answer[a] # 0 /\ (answer[b] = 0 \/ answer[a] < answer[b])

(* process: the candidates in the order of their ranks, or None when some  *)
(* rank is out of line.                                                    *)
Process(answer) ==
    LET upTo == {r \in 0..Len(answer) :
                    \A s \in 1..r : \E c \in DOMAIN answer : answer[c] = s}
        list == [r \in 1..Max(upTo) |->
                    CHOOSE c \in DOMAIN answer :
                        /\ answer[c] = r
                        /\ \A d \in 1..c - 1 : answer[d] # r]
    IN IF \A c \in DOMAIN answer : answer[c] = 0 \/ c \in ToSet(list)
       THEN list ELSE None

Countable(q, answer) ==
    CASE QuestionType(q) = "CLASSIC" -> ClassicAccepted(q, answer)
      [] QuestionType(q) = "LISTS" -> ListsAccepted(q, answer)
      [] QuestionType(q) = "MAJORITY_JUDGMENT" -> GradesCounted(q, answer)
      [] QuestionType(q) = "STV" -> Process(answer) # None
      [] OTHER -> Len(answer) = q.n
=============================================================================

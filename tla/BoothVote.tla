----------------------------- MODULE BoothVote -----------------------------
(***************************************************************************)
(* The page of the voting booth on which a voter answers the questions, one *)
(* at a time: AllQuestionsWithPagination and the lists of candidates.      *)
(*                                                                         *)
(* Each preferential list keeps the arrangement of its candidates in a     *)
(* state of its own, and reports it to the votes of the page, from which   *)
(* the ballot is made: the two have to agree.  An event and the renderings *)
(* it causes are one step, because React batches the updates of an event.  *)
(***************************************************************************)
EXTENDS BoothBallot

CONSTANTS
    Elections,      \* the elections considered, each a sequence of questions
    Texts,          \* what voters type in number fields
    MaxColumns      \* bound: columns ever made in one question

Descriptions ==
    [type : STRING, sub : STRING, method : STRING, n : Nat, sizes : Seq(Nat),
     blank : BOOLEAN, min : Nat, max : Nat, grades : Nat]

ASSUME ElectionsAssumption == \A e \in Elections : e \in Seq(Descriptions)

VARIABLES
    election,
    current,        \* current_question_index, from 1
    votes,          \* current_user_vote_for_all_questions
    arrangement,    \* the state of each preferential list
    alerts,         \* current_alerts_for_all_questions
    submitted       \* the ballot under review, None while answering

vars == <<election, current, votes, arrangement, alerts, submitted>>

Questions == DOMAIN election
TypeOf(i) == QuestionType(election[i])
Size(i) == election[i].n

InitialArrangement(q) ==
    CASE QuestionType(q) = "SCHULZE" -> LevelsOf(q.n)
      [] QuestionType(q) = "STV" -> RankingOf(q.n)
      [] OTHER -> None

Init ==
    /\ election \in {e \in Elections : e # <<>> /\ Readable(e)}
    /\ current = 1
    /\ votes = [i \in Questions |-> InitialVote(election[i])]
    /\ arrangement = [i \in Questions |-> InitialArrangement(election[i])]
    /\ alerts = [i \in Questions |-> {}]
    /\ submitted = None

-----------------------------------------------------------------------------
(* Saving a vote: the cases of the reducer                                 *)

(* Only the current question is displayed.                                 *)
Answering(types) == submitted = None /\ TypeOf(current) \in types

(* Mutant of SaveAll: the alerts stay.                                     *)
SaveAllQuietly(vote) ==
    /\ votes' = [votes EXCEPT ![current] = vote]
    /\ UNCHANGED alerts

SaveAll(vote) ==
    /\ votes' = [votes EXCEPT ![current] = vote]
    /\ alerts' = [alerts EXCEPT ![current] = {}]

SaveCandidate(c, value) == SaveAll([votes[current] EXCEPT ![c] = value])

SaveOnly(c, value) ==
    SaveAll([d \in DOMAIN votes[current] |-> IF d = c THEN value ELSE None])

(* Alerts stay.                                                            *)
SaveBlank(value) ==
    /\ votes' = [votes EXCEPT ![current][Size(current) + 1] = value]
    /\ UNCHANGED alerts

(* The candidates, and the blank vote where it is offered.                 *)
Answerable(i) == 1..(IF BlankAllowed(election[i]) THEN Size(i) + 1 ELSE Size(i))

Radio(i) == election[i].min = 1 /\ election[i].max = 1

-----------------------------------------------------------------------------
(* Classic, generic, graded and list questions                             *)

ClickCheckbox(c) ==
    /\ Answering({"CLASSIC"})
    /\ ~Radio(current)
    /\ c \in Answerable(current)
    /\ SaveCandidate(c, IF votes[current][c] = 1 THEN 0 ELSE 1)
    /\ UNCHANGED <<election, current, arrangement, submitted>>

(* A radio button that is already checked does not change.                 *)
ClickRadio(c) ==
    /\ Answering({"CLASSIC"})
    /\ Radio(current)
    /\ c \in Answerable(current)
    /\ votes[current][c] # 1
    /\ SaveOnly(c, 1)
    /\ UNCHANGED <<election, current, arrangement, submitted>>

TypeNumber(c, text) ==
    /\ Answering({"GENERIC"})
    /\ c \in Answerable(current)
    /\ SaveCandidate(c, text)
    /\ UNCHANGED <<election, current, arrangement, submitted>>

(* In a small window the grades are a select box, in which the voter can   *)
(* go back to no grade; a large one has radio buttons.                     *)
SelectGrade(c, grade) ==
    /\ Answering({"MAJORITY_JUDGMENT"})
    /\ c \in 1..Size(current)
    /\ grade \in 0..election[current].grades - 1 \cup {None}
    /\ votes[current][c] # grade
    /\ SaveCandidate(c, grade)
    /\ UNCHANGED <<election, current, arrangement, submitted>>

ToggleBlank ==
    /\ Answering({"MAJORITY_JUDGMENT"} \cup Preferential)
    /\ BlankAllowed(election[current])
    /\ SaveBlank(IF votes[current][Size(current) + 1] = 1 THEN 0 ELSE 1)
    /\ UNCHANGED <<election, current, arrangement, submitted>>

(* Mutant of SaveList: the other lists keep their candidates.              *)
SaveListOnly(l, list) == SaveAll([votes[current] EXCEPT ![l] = list])

(* The other lists are emptied when the list is selected.                  *)
SaveList(l, list) ==
    SaveAll([k \in DOMAIN votes[current] |->
                IF k = l THEN list
                ELSE IF list[0] = 1 THEN [c \in DOMAIN votes[current][k] |-> 0]
                ELSE votes[current][k]])

ClickList(l) ==
    /\ Answering({"LISTS"})
    /\ l \in DOMAIN votes[current]
    /\ votes[current][l][0] # 1
    /\ SaveList(l, [c \in DOMAIN votes[current][l] |-> 1])
    /\ UNCHANGED <<election, current, arrangement, submitted>>

(* The candidates of a list are displayed when it is selected.             *)
ClickListCandidate(l, c) ==
    /\ Answering({"LISTS"})
    /\ l \in DOMAIN votes[current]
    /\ votes[current][l][0] = 1
    /\ c \in DOMAIN votes[current][l] \ {0}
    /\ SaveList(l, [votes[current][l] EXCEPT ![c] = IF @ = 1 THEN 0 ELSE 1])
    /\ UNCHANGED <<election, current, arrangement, submitted>>

-----------------------------------------------------------------------------
(* Preferential questions, disabled while the blank vote is selected       *)

Arranging(type) ==
    /\ Answering({type})
    /\ ~VotedBlank(election[current], votes[current])

ui == arrangement[current]

(* The vote made anew from the arrangement; the blank vote is not kept.    *)
Rebuilt(vote) == [c \in 1..Size(current) + 1 |->
                    IF c <= Size(current) THEN vote[c] ELSE None]

(* A candidate dragged to the k-th place of a column, or sent to the end   *)
(* of one with its select box.  The vote is the index of the column, be it *)
(* the column NotRanked.                                                   *)
MoveToLevel(from, i, to, k) ==
    /\ Arranging("SCHULZE")
    /\ from \in DOMAIN ui.columns /\ to \in DOMAIN ui.columns
    /\ i \in DOMAIN ui.columns[from]
    /\ IF from = to THEN k \in DOMAIN ui.columns[to] \ {i}
                    ELSE k \in 1..Len(ui.columns[to]) + 1
    /\ arrangement' = [arrangement EXCEPT ![current] = Move(ui, from, i, to, k)]
    /\ SaveCandidate(ui.columns[from][i], IndexOf(ui, to))
    /\ UNCHANGED <<election, current, submitted>>

(* A level is inserted before the p-th column, so never after NotRanked.   *)
AddLevel(p) ==
    /\ Arranging("SCHULZE")
    /\ ui.created < MaxColumns
    /\ p \in DOMAIN ui.order
    /\ LET new == InsertLevel(ui, p)
       IN /\ arrangement' = [arrangement EXCEPT ![current] = new]
          /\ SaveAll(Rebuilt(VoteByLevel(new, Size(current))))
    /\ UNCHANGED <<election, current, submitted>>

(* An empty level is deleted; the column NotRanked never is.               *)
RemoveLevel(p) ==
    /\ Arranging("SCHULZE")
    /\ p \in DOMAIN ui.order
    /\ ui.order[p] # NotRanked
    /\ ui.columns[ui.order[p]] = <<>>
    /\ LET new == DeleteLevel(ui, p)
       IN /\ arrangement' = [arrangement EXCEPT ![current] = new]
          /\ SaveAll(Rebuilt(VoteByLevel(new, Size(current))))
    /\ UNCHANGED <<election, current, submitted>>

(* Both components report a move; here the vote made anew from the         *)
(* arrangement follows the one of the moved candidate, and replaces it.    *)
Rank(from, i, to, k) ==
    LET new == Move(ui, from, i, to, k)
    IN /\ arrangement' = [arrangement EXCEPT ![current] = new]
       /\ SaveAll(Rebuilt(VoteByPlace(new, Size(current))))
       /\ UNCHANGED <<election, current, submitted>>

DragToRank(from, i, to, k) ==
    /\ Arranging("STV")
    /\ from \in DOMAIN ui.columns /\ to \in DOMAIN ui.columns
    /\ i \in DOMAIN ui.columns[from]
    /\ IF from = to THEN k \in DOMAIN ui.columns[to] \ {i}
                    ELSE k \in 1..Len(ui.columns[to]) + 1
    /\ Rank(from, i, to, k)

(* The select box of a candidate.                                          *)
SelectRank(from, i, to, k) ==
    /\ Arranging("STV")
    /\ from \in DOMAIN ui.columns
    /\ i \in DOMAIN ui.columns[from]
    /\ \/ to = NotRanked /\ from = Ranked /\ k = Len(ui.columns[to]) + 1
       \/ to = Ranked /\ k \in RankedPlaces(ui, from, i)
    /\ Rank(from, i, to, k)

-----------------------------------------------------------------------------
(* Navigation                                                              *)

OnClickPrevious ==
    /\ submitted = None
    /\ current > 1
    /\ current' = current - 1
    /\ UNCHANGED <<election, votes, arrangement, alerts, submitted>>

(* Mutant of OnClickNext: the last question is not checked.                *)
OnClickNextTrusting ==
    LET found == AlertsOf(election[current], votes[current])
    IN /\ submitted = None
       /\ IF current < Len(election)
          THEN /\ IF found # {} THEN UNCHANGED current ELSE current' = current + 1
               /\ alerts' = [alerts EXCEPT ![current] = found]
               /\ UNCHANGED submitted
          ELSE /\ submitted' = Convert(election, votes)
               /\ UNCHANGED <<current, alerts>>
       /\ UNCHANGED <<election, votes, arrangement>>

(* Mutant of OnClickNext: one question too far.                            *)
OnClickNextPast ==
    LET found == AlertsOf(election[current], votes[current])
    IN /\ submitted = None
       /\ IF found # {}
          THEN /\ alerts' = [alerts EXCEPT ![current] = @ \cup found]
               /\ UNCHANGED <<current, submitted>>
          ELSE /\ alerts' = [alerts EXCEPT ![current] = {}]
               /\ IF current <= Len(election)
                  THEN current' = current + 1 /\ UNCHANGED submitted
                  ELSE submitted' = Convert(election, votes) /\ UNCHANGED current
       /\ UNCHANGED <<election, votes, arrangement>>

(* An alert already shown stays when another is raised.                    *)
OnClickNext ==
    LET found == AlertsOf(election[current], votes[current])
    IN /\ submitted = None
       /\ IF found # {}
          THEN /\ alerts' = [alerts EXCEPT ![current] = @ \cup found]
               /\ UNCHANGED <<current, submitted>>
          ELSE /\ alerts' = [alerts EXCEPT ![current] = {}]
               /\ IF current < Len(election)
                  THEN current' = current + 1 /\ UNCHANGED submitted
                  ELSE submitted' = Convert(election, votes) /\ UNCHANGED current
       /\ UNCHANGED <<election, votes, arrangement>>

(* Previous on the page of the review: this page is made anew.             *)
BackFromReview ==
    /\ submitted # None
    /\ current' = 1
    /\ votes' = [i \in Questions |-> InitialVote(election[i])]
    /\ arrangement' = [i \in Questions |-> InitialArrangement(election[i])]
    /\ alerts' = [i \in Questions |-> {}]
    /\ submitted' = None
    /\ UNCHANGED election

Next ==
    \/ \E c \in Answerable(current) : ClickCheckbox(c) \/ ClickRadio(c)
    \/ \E c \in Answerable(current), text \in Texts : TypeNumber(c, text)
    \/ \E c \in Answerable(current) :
        \E grade \in 0..election[current].grades - 1 \cup {None} :
            SelectGrade(c, grade)
    \/ ToggleBlank
    \/ \E l \in DOMAIN election[current].sizes :
        \/ ClickList(l)
        \/ \E c \in 1..election[current].sizes[l] : ClickListCandidate(l, c)
    \/ /\ TypeOf(current) \in Preferential
       /\ \E from, to \in DOMAIN ui.columns, i \in 1..Size(current),
          k \in 1..Size(current) + 1 :
            \/ MoveToLevel(from, i, to, k)
            \/ DragToRank(from, i, to, k)
            \/ SelectRank(from, i, to, k)
    \/ /\ TypeOf(current) \in Preferential
       /\ \E p \in DOMAIN ui.order : AddLevel(p) \/ RemoveLevel(p)
    \/ OnClickPrevious
    \/ OnClickNext
    \/ BackFromReview

Spec == Init /\ [][Next]_vars

-----------------------------------------------------------------------------
(* Properties                                                              *)

(* The index of the question, the votes, the arrangements and the alerts   *)
(* are of the shapes the page gives them (AllQuestionsWithPagination).     *)
TypeOK ==
    /\ election \in Elections
    /\ current \in Questions
    /\ DOMAIN votes = Questions
    /\ DOMAIN arrangement = Questions
    /\ DOMAIN alerts = Questions
    /\ \A i \in Questions :
        /\ TypeOf(i) # "LISTS" => DOMAIN votes[i] = 1..Size(i) + 1
        /\ TypeOf(i) \in Preferential =>
                DOMAIN arrangement[i] = {"columns", "order", "created"}
        /\ alerts[i] \subseteq {<<"grade", c>> : c \in 1..Size(i)}
                            \cup {<<"both">>, <<"more">>, <<"less">>}
    /\ submitted # None => DOMAIN submitted = Questions

OnceEach(a, n) ==
    /\ \A k \in DOMAIN a.columns : \A j \in DOMAIN a.columns[k] :
            a.columns[k][j] \in 1..n
    /\ \A c \in 1..n : \E k \in DOMAIN a.columns :
            \E j \in DOMAIN a.columns[k] : a.columns[k][j] = c
    /\ \A k, l \in DOMAIN a.columns :
            \A j \in DOMAIN a.columns[k], m \in DOMAIN a.columns[l] :
                a.columns[k][j] = a.columns[l][m] => k = l /\ j = m

(* Whatever is moved, inserted and deleted, in any order, each candidate   *)
(* stays in exactly one place of one column (moveCandidate,                *)
(* insertPreferenceLevel, deletePreferenceLevel).                          *)
CandidatesOnce ==
    \A i \in Questions :
        TypeOf(i) \in Preferential => OnceEach(arrangement[i], Size(i))

(* The columns displayed are the columns there are, each once, and the     *)
(* column of the candidates not ranked is always the last.                 *)
ColumnsInOrder ==
    \A i \in Questions : TypeOf(i) \in Preferential =>
        LET a == arrangement[i] IN
        /\ DOMAIN a.columns = {a.order[p] : p \in DOMAIN a.order}
        /\ \A p, q \in DOMAIN a.order : a.order[p] = a.order[q] => p = q
        /\ a.order[Len(a.order)] = NotRanked

Answer(i) == AnswerOf(election[i], votes[i])

(* Candidates displayed in NotRanked that the voter has moved back there   *)
(* since the levels last changed: their vote is the index of that column.  *)
MovedBack(a, vote) == {c \in ToSet(a.columns[NotRanked]) : vote[c] # None}

(* A candidate is displayed in a column further left than another, or both *)
(* as not ranked but he has been moved back there and the other never was. *)
Before(a, vote, c, d) ==
    \/ IndexOf(a, ColumnOf(a, c)) < IndexOf(a, ColumnOf(a, d))
    \/ /\ ColumnOf(a, c) = NotRanked /\ c \in MovedBack(a, vote)
       /\ ColumnOf(a, d) = NotRanked /\ d \notin MovedBack(a, vote)

(* The two copies of the voter's choices agree, through the conversion and *)
(* up to the count, for preferential questions.  schulze prefers one       *)
(* candidate to another exactly when he is displayed in a column further   *)
(* left -- or when both are displayed as not ranked, he has been moved     *)
(* back there and the other was never moved: that preference the voter     *)
(* does not see, because 0 is counted as max_int and the index of the      *)
(* column is not.  The levels sent have no hole.  stv processes the ballot *)
(* into the column Ranked.                                                 *)
CountedAsArranged ==
    \A i \in Questions : ~VotedBlank(election[i], votes[i]) =>
        /\ TypeOf(i) = "SCHULZE" =>
            /\ \A c, d \in 1..Size(i) :
                Prefers(Answer(i), c, d) <=> Before(arrangement[i], votes[i], c, d)
            /\ \A c \in 1..Size(i) : \A r \in 1..Answer(i)[c] :
                    \E d \in 1..Size(i) : Answer(i)[d] = r
        /\ TypeOf(i) = "STV" =>
            Process(Answer(i)) = arrangement[i].columns[Ranked]

(* Every question before the current one has passed its checks, although   *)
(* the voter may go back and change it (onClickPrevious, onClickNext).     *)
EarlierQuestionsValid ==
    \A i \in Questions :
        i < current \/ submitted # None => AlertsOf(election[i], votes[i]) = {}

(* What leaves the page can be encrypted and is counted, as a valid or as a *)
(* blank vote, whichever way the voter took: the checks of onClickNext     *)
(* imply those of create_answer, compute_matrix and process.  Numbers are  *)
(* not checked by the page.                                                *)
SubmittedCountable ==
    submitted # None =>
        \A i \in Questions : TypeOf(i) # "GENERIC" =>
            Countable(election[i], submitted[i])

(* The candidates of the p-th column that have a rank, and the columns     *)
(* that have such candidates.                                              *)
RankedIn(a, vote, p) ==
    IF a.order[p] = NotRanked THEN MovedBack(a, vote)
                              ELSE ToSet(a.columns[a.order[p]])
Levels(a, vote) == {p \in DOMAIN a.order : RankedIn(a, vote, p) # {}}

(* The review of a Schulze question: the columns with ranks, numbered from *)
(* left to right, and the candidates without a rank.                       *)
LevelsReview(q, a, vote) ==
    IF q.blank /\ Levels(a, vote) = {} THEN Blank
    ELSE [levels |-> {<<Cardinality({l \in Levels(a, vote) : l <= p}),
                        RankedIn(a, vote, p)>> : p \in Levels(a, vote)},
          notRanked |-> ToSet(a.columns[NotRanked]) \ MovedBack(a, vote)]

(* What the review shows is exactly what the votes of the page say, whose  *)
(* conversion, with its shifts, empty levels and blank vote, a component   *)
(* for each kind undoes (WholeVoteRecap); generic questions have none.  It *)
(* is what the page displays but for one thing: candidates moved back to   *)
(* NotRanked are reviewed as a preference level of their own, the last,    *)
(* and a ballot with them only is not reviewed as blank.                   *)
RecapFollowsVotes ==
    submitted # None => \A i \in Questions :
        LET q == election[i]
            vote == votes[i]
            recap == WholeRecap(q, submitted[i])
            a == arrangement[i]
            blank == VotedBlank(q, vote)
        IN /\ TypeOf(i) # "CLASSIC" /\ blank => recap = Blank
           /\ TypeOf(i) = "CLASSIC" =>
                recap.marks = {IF c > q.n THEN BlankMark ELSE c
                                : c \in {d \in DOMAIN vote : vote[d] = 1}}
           /\ TypeOf(i) = "LISTS" =>
                recap.lists = {<<l, {c \in 1..q.sizes[l] : vote[l][c] = 1}>>
                                : l \in {k \in DOMAIN vote : vote[k][0] = 1}}
           /\ TypeOf(i) = "MAJORITY_JUDGMENT" /\ ~blank =>
                recap = IF q.blank /\ q.n = 0 THEN Blank
                        ELSE [grades |-> [c \in 1..q.n |-> vote[c]]]
           /\ TypeOf(i) = "SCHULZE" /\ ~blank =>
                recap = LevelsReview(q, a, vote)
           /\ TypeOf(i) = "STV" /\ ~blank =>
                recap = IF q.blank /\ a.columns[Ranked] = <<>> THEN Blank
                        ELSE [ranks |-> a.columns[Ranked],
                              notRanked |-> ToSet(a.columns[NotRanked])]

(* No alert is about choices the voter has changed since; only those about *)
(* grades stay while the blank vote is selected (saveBlankVoteInQuestion). *)
NoStaleAlert ==
    \A i \in Questions :
        \/ alerts[i] \subseteq AlertsOf(election[i], votes[i])
        \/ TypeOf(i) = "MAJORITY_JUDGMENT" /\ VotedBlank(election[i], votes[i])

(* "0 being interpreted as not ranked" (comment of the conversion): a      *)
(* candidate in the column NotRanked has 0.                                *)
NotRankedIsZero ==
    \A i \in Questions :
        TypeOf(i) = "SCHULZE" /\ ~VotedBlank(election[i], votes[i]) =>
            \A c \in 1..Size(i) :
                ColumnOf(arrangement[i], c) = NotRanked => Answer(i)[c] = 0
=============================================================================

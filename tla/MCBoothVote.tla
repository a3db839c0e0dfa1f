---------------------------- MODULE MCBoothVote ----------------------------
(* Small instances of BoothVote for TLC.                                   *)
EXTENDS BoothVote, TLC

Question(type, sub, method) ==
    [type |-> type, sub |-> sub, method |-> method, n |-> 2, sizes |-> <<>>,
     blank |-> FALSE, min |-> 0, max |-> 0, grades |-> 0]

Schulze(n, blank) ==
    [Question("NonHomomorphic", "PreferentialVoting", "Schulze") EXCEPT
        !.n = n, !.blank = blank]
STV(n, blank) ==
    [Question("NonHomomorphic", "PreferentialVoting", "STV") EXCEPT
        !.n = n, !.blank = blank]
Judgment(n, grades, blank) ==
    [Question("NonHomomorphic", "ScoreVoting", "none") EXCEPT
        !.n = n, !.grades = grades, !.blank = blank]
Classic(n, min, max, blank) ==
    [Question("none", "none", "none") EXCEPT
        !.n = n, !.min = min, !.max = max, !.blank = blank]
Lists(sizes) ==
    [Question("Lists", "none", "none") EXCEPT !.n = 0, !.sizes = sizes]
Generic(n) == [Question("NonHomomorphic", "none", "none") EXCEPT !.n = n]

(* Each kind of question with and without a blank vote, alone or beside    *)
(* another; the last election is of a kind the booth refuses.              *)
MCElections ==
    {<<Schulze(3, FALSE)>>,
     <<Classic(2, 1, 1, TRUE), Schulze(2, TRUE)>>,
     <<STV(3, TRUE)>>,
     <<Judgment(2, 2, TRUE), Lists(<<1, 2>>)>>,
     <<Lists(<<2, 1>>), Classic(3, 1, 2, TRUE)>>,
     <<Judgment(2, 2, FALSE), Classic(2, 0, 1, FALSE)>>,
     <<Generic(2), STV(2, FALSE)>>,
     <<[Question("NonHomomorphic", "PreferentialVoting", "Borda")
            EXCEPT !.n = 3]>>}

MCSchulze == {<<Schulze(3, FALSE)>>}
MCTexts == {0, 3, EmptyText}
=============================================================================

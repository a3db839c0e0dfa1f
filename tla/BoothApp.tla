------------------------------ MODULE BoothApp ------------------------------
(***************************************************************************)
(* The steps of the voting booth in the browser of a voter: load the       *)
(* election, check the credential, answer (BoothVote), encrypt and review, *)
(* send, and show the receipt.  The component VoteApp of app.js calls the  *)
(* object belenios of belenios_jslib.ml, which answers later through       *)
(* callbacks, while the voter goes on.  VoteApp keeps the ballot it shows; *)
(* belenios keeps, apart from it, the ballot it sends.                     *)
(*                                                                         *)
(* The browser runs one callback at a time.  A callback and the rendering  *)
(* it causes are one step.                                                 *)
(***************************************************************************)
EXTENDS Naturals, Sequences

CONSTANTS
    Credentials,        \* what voters type or have in their links
    Valid,              \* the credentials that can be derived into a key
    DraftCredential,    \* the one of the previews of a draft
    Answers,            \* the ballots before encryption
    Encodable,          \* those that can be encrypted
    None,
    MaxLoads,           \* bound: times an election is loaded
    MaxChecks,          \* bound: checks of a credential
    MaxEncryptions      \* bound: ballots under review

(* Ballots are told apart by the number of their encryption.               *)
Ballots == [answers : Answers, cred : Credentials \cup {None}, number : Nat]

ASSUME BoothAssumption ==
    /\ Valid \subseteq Credentials /\ DraftCredential \in Credentials
    /\ Encodable \subseteq Answers
    /\ None \notin Credentials \cup Answers \cup Ballots

VARIABLES
    url,            \* the parameters in the hash of the address
    page,           \* "booth", or "login" and "closed" once it is left
    step,           \* currentStep
    status,         \* electionLoadingStatus: loading, success, error
    config,         \* whether belenios has the configuration of the server
    election,       \* whether belenios has the election
    fetches, inits, \* requests and initialisations under way
    loads,          \* loads so far
    firstLoad,
    credential,
    module,         \* electionModule: the credential it was derived from
    checks,         \* the credential checks under way
    checked,        \* their number so far
    uncrypted,      \* uncryptedBallotBeforeReview
    crypted,        \* cryptedBallotBeforeReview, and its tracker
    timers,         \* ballots waiting for the timer of onVoteSubmit
    encrypting,     \* encryptions under way
    encrypted,      \* encryptions so far
    alerted,        \* an encryption has failed during this review
    ballot,         \* the ballot of belenios
    posts,          \* ballots being sent, each with what was shown
    confirmation,
    receipt         \* None, "asked", "result" or "expired"

loading == <<status, config, election, fetches, inits, loads>>
identity == <<firstLoad, credential, module, checks, checked>>
review == <<uncrypted, crypted, timers, encrypting, encrypted, alerted, ballot>>
sending == <<posts, confirmation, receipt>>
vars == <<url, page, step, loading, identity, review, sending>>

(* main: a preview of a draft has its own credential.                      *)
Urls ==
    {u \in [uuid : BOOLEAN, draft : 0..2, state : BOOLEAN,
            credential : Credentials \cup {None}] :
        u.draft # 0 => u.credential = DraftCredential}

Init ==
    /\ url \in Urls
    /\ page = "booth"
    /\ step = IF url.state THEN 5 ELSE IF url.credential # None THEN 2 ELSE 1
    /\ status = 0 /\ config = FALSE /\ election = FALSE
    /\ fetches = IF url.uuid THEN 1 ELSE 0
    /\ inits = <<>>
    /\ loads = fetches
    /\ firstLoad = TRUE
    /\ credential = url.credential
    /\ module = None /\ checks = {} /\ checked = 0
    /\ uncrypted = None /\ crypted = None
    /\ timers = <<>> /\ encrypting = <<>> /\ encrypted = 0
    /\ alerted = FALSE /\ ballot = None
    /\ posts = {} /\ confirmation = FALSE /\ receipt = None

Displayed(s) == page = "booth" /\ status = 1 /\ step = s

-----------------------------------------------------------------------------
(* Loading the election                                                    *)

AskUuid == page = "booth" /\ ~url.uuid /\ status = 0 /\ loads < MaxLoads

LoadFromUuid ==
    /\ AskUuid
    /\ fetches' = fetches + 1
    /\ loads' = loads + 1
    /\ UNCHANGED <<url, page, step, status, config, election, inits, identity,
                   review, sending>>

(* Parameters that are no election go through the initialisation too, and  *)
(* belenios is not given the election.                                     *)
LoadFromParameters(readable) ==
    /\ AskUuid
    /\ inits' = Append(inits, readable)
    /\ loads' = loads + 1
    /\ UNCHANGED <<url, page, step, status, config, election, fetches, identity,
                   review, sending>>

(* The request fails, is refused by the server, or yields an election,     *)
(* which the booth may be unable to display.                               *)
FetchEnds ==
    /\ page = "booth"
    /\ fetches > 0
    /\ fetches' = fetches - 1
    /\ \/ UNCHANGED <<status, election, inits>>
       \/ status' = 2 /\ UNCHANGED <<election, inits>>
       \/ /\ election' = TRUE
          /\ \E readable \in BOOLEAN : inits' = Append(inits, readable)
          /\ UNCHANGED status
    /\ UNCHANGED <<url, page, step, config, loads, identity, review, sending>>

(* belenios.checkCredential is called, and answers later.                  *)
StartCheck(c) ==
    /\ firstLoad' = FALSE
    /\ checked' = checked + 1
    /\ checks' = checks \cup {[cred |-> c, number |-> checked]}

(* belenios.init: without the configuration of the server onfailure is     *)
(* called, and onsuccess after it.  When the questions are displayed for   *)
(* the first time, the credential of the address is checked.               *)
InitEnds(configured) ==
    /\ page = "booth"
    /\ inits # <<>>
    /\ inits' = Tail(inits)
    /\ config' = (config \/ configured)
    /\ status' = IF Head(inits) THEN 1 ELSE 2
    /\ IF status' = 1 /\ step = 2 /\ firstLoad /\ credential # None
       THEN StartCheck(credential)
       ELSE UNCHANGED <<firstLoad, checks, checked>>
    /\ UNCHANGED <<url, page, step, election, fetches, loads, credential, module,
                   review, sending>>

-----------------------------------------------------------------------------
(* The credential                                                          *)

EnterCredential(c) ==
    /\ Displayed(1)
    /\ checked < MaxChecks
    /\ StartCheck(c)
    /\ UNCHANGED <<url, page, step, loading, credential, module, review, sending>>

(* Mutant of CheckEnds: the key is kept with the credential it replaces.   *)
CheckEndsKeepingModule(check) ==
    /\ page = "booth"
    /\ check \in checks
    /\ checks' = checks \ {check}
    /\ IF check.cred \in Valid
       THEN /\ module' = IF module = None THEN check.cred ELSE module
            /\ credential' = check.cred
            /\ step' = 2
       ELSE /\ credential' = None
            /\ step' = 1
            /\ UNCHANGED module
    /\ UNCHANGED <<url, page, loading, firstLoad, checked, review, sending>>

(* Mutant of CheckEnds: the outcome is not looked at.                      *)
CheckEndsBlindly(check) ==
    /\ page = "booth"
    /\ check \in checks
    /\ checks' = checks \ {check}
    /\ module' = check.cred
    /\ credential' = check.cred
    /\ step' = 2
    /\ UNCHANGED <<url, page, loading, firstLoad, checked, review, sending>>

(* Wherever the voter has gone meanwhile, success leads to the questions   *)
(* and failure to the entry of a credential.  A key obtained before stays. *)
CheckEnds(check) ==
    /\ page = "booth"
    /\ check \in checks
    /\ checks' = checks \ {check}
    /\ IF check.cred \in Valid
       THEN /\ module' = check.cred
            /\ credential' = check.cred
            /\ step' = 2
       ELSE /\ credential' = None
            /\ step' = 1
            /\ UNCHANGED module
    /\ UNCHANGED <<url, page, loading, firstLoad, checked, review, sending>>

-----------------------------------------------------------------------------
(* Encryption and review                                                   *)

(* The questions are answered, whether or not the credential is checked.   *)
OnVoteSubmit(answers) ==
    /\ Displayed(2)
    /\ encrypted < MaxEncryptions
    /\ uncrypted' = answers
    /\ crypted' = None
    /\ alerted' = FALSE
    /\ step' = 3
    /\ timers' = Append(timers, answers)
    /\ encrypted' = encrypted + 1
    /\ UNCHANGED <<url, page, loading, identity, encrypting, ballot, sending>>

(* Mutant of TimerEnds: the answers are read from the state of the review. *)
TimerEndsReading ==
    /\ page = "booth"
    /\ timers # <<>>
    /\ timers' = Tail(timers)
    /\ encrypting' = Append(encrypting,
            [answers |-> uncrypted, cred |-> module,
             number |-> encrypted - Len(timers)])
    /\ UNCHANGED <<url, page, step, loading, identity, uncrypted, crypted,
                   encrypted, alerted, ballot, sending>>

(* The timers have the same delay, so they end in order.  The key is read  *)
(* now.                                                                    *)
TimerEnds ==
    /\ page = "booth"
    /\ timers # <<>>
    /\ timers' = Tail(timers)
    /\ encrypting' = Append(encrypting,
            [answers |-> Head(timers), cred |-> module,
             number |-> encrypted - Len(timers)])
    /\ UNCHANGED <<url, page, step, loading, identity, uncrypted, crypted,
                   encrypted, alerted, ballot, sending>>

(* Mutant of EncryptionEnds: belenios keeps the first ballot.              *)
EncryptionEndsKeeping ==
    /\ page = "booth"
    /\ encrypting # <<>>
    /\ encrypting' = Tail(encrypting)
    /\ LET b == Head(encrypting)
       IN IF b.cred # None /\ b.answers \in Encodable
          THEN /\ crypted' = b
               /\ ballot' = IF ballot = None THEN b ELSE ballot
               /\ UNCHANGED alerted
          ELSE /\ alerted' = TRUE
               /\ UNCHANGED <<crypted, ballot>>
    /\ UNCHANGED <<url, page, step, loading, identity, uncrypted, timers,
                   encrypted, sending>>

(* Mutant of EncryptionEnds: a failure is not reported.                    *)
EncryptionEndsSilently ==
    /\ page = "booth"
    /\ encrypting # <<>>
    /\ encrypting' = Tail(encrypting)
    /\ LET b == Head(encrypting)
       IN IF b.cred # None /\ b.answers \in Encodable
          THEN crypted' = b /\ ballot' = b
          ELSE UNCHANGED <<crypted, ballot>>
    /\ UNCHANGED <<url, page, step, loading, identity, uncrypted, timers,
                   encrypted, alerted, sending>>

(* encryptBallot yields a fixed number of times before it encrypts, so the *)
(* encryptions end in order; it fails without a key, and on answers that   *)
(* cannot be read or proved.  The voter may have left the review.          *)
EncryptionEnds ==
    /\ page = "booth"
    /\ encrypting # <<>>
    /\ encrypting' = Tail(encrypting)
    /\ LET b == Head(encrypting)
       IN IF b.cred # None /\ b.answers \in Encodable
          THEN crypted' = b /\ ballot' = b /\ UNCHANGED alerted
          ELSE alerted' = TRUE /\ UNCHANGED <<crypted, ballot>>
    /\ UNCHANGED <<url, page, step, loading, identity, uncrypted, timers,
                   encrypted, sending>>

(* Previous is offered during the encryption too.                          *)
OnClickPrevious ==
    /\ Displayed(3)
    /\ step' = 2
    /\ uncrypted' = None
    /\ crypted' = None
    /\ UNCHANGED <<url, page, loading, identity, timers, encrypting, encrypted,
                   alerted, ballot, sending>>

(* Next is offered with the encrypted ballot.  A preview of its own window *)
(* closes it; belenios.submitBallot raises when the election was not       *)
(* loaded from the server.                                                 *)
OnClickNext ==
    /\ Displayed(3)
    /\ crypted # None
    /\ IF url.draft = 2
       THEN page' = "closed" /\ UNCHANGED <<step, posts>>
       ELSE /\ step' = 4
            /\ posts' = IF election /\ ballot # None
                        THEN posts \cup {[sent |-> ballot, shown |-> crypted]}
                        ELSE posts
            /\ UNCHANGED page
    /\ UNCHANGED <<url, loading, identity, review, confirmation, receipt>>

-----------------------------------------------------------------------------
(* Sending, and the receipt                                                *)

(* The effect of a change of confirmation: renderConfirmation when the     *)
(* place for it is displayed.                                              *)
Confirm ==
    /\ confirmation' = TRUE
    /\ receipt' = IF ~confirmation /\ status = 1 /\ config /\ election
                  THEN "asked" ELSE receipt

(* The server has taken the ballot and wants the voter to log in, or not.  *)
PostEnds(post, accepted) ==
    /\ page = "booth"
    /\ post \in posts
    /\ posts' = posts \ {post}
    /\ IF accepted
       THEN page' = "login" /\ UNCHANGED <<step, confirmation, receipt>>
       ELSE step' = 5 /\ Confirm /\ UNCHANGED page
    /\ UNCHANGED <<url, loading, identity, review>>

(* Mutant of ConfirmationTimer: it is set when the booth is opened.        *)
ConfirmationTimerEarly ==
    /\ page = "booth" /\ step = 5
    /\ ~confirmation
    /\ Confirm
    /\ UNCHANGED <<url, page, step, loading, identity, review, posts>>

(* The timer set by the rendering of the last step.                        *)
ConfirmationTimer ==
    /\ Displayed(5)
    /\ ~confirmation
    /\ Confirm
    /\ UNCHANGED <<url, page, step, loading, identity, review, posts>>

(* Only the voter who comes back from the login page has a result.         *)
ReceiptEnds(answer) ==
    /\ page = "booth"
    /\ receipt = "asked"
    /\ answer = "result" => url.state
    /\ receipt' = answer
    /\ UNCHANGED <<url, page, step, loading, identity, review, posts, confirmation>>

Next ==
    \/ LoadFromUuid
    \/ \E readable \in BOOLEAN : LoadFromParameters(readable)
    \/ FetchEnds
    \/ \E configured \in BOOLEAN : InitEnds(configured)
    \/ \E c \in Credentials : EnterCredential(c)
    \/ \E check \in checks : CheckEnds(check)
    \/ \E answers \in Answers : OnVoteSubmit(answers)
    \/ TimerEnds
    \/ EncryptionEnds
    \/ OnClickPrevious
    \/ OnClickNext
    \/ \E post \in posts, accepted \in BOOLEAN : PostEnds(post, accepted)
    \/ ConfirmationTimer
    \/ \E answer \in {"result", "expired"} : ReceiptEnds(answer)

Spec == Init /\ [][Next]_vars

(* The browser runs its timers and callbacks, and requests end; nobody     *)
(* makes the voter click.                                                  *)
Fairness ==
    /\ WF_vars(TimerEnds)
    /\ WF_vars(EncryptionEnds)
    /\ WF_vars(\E post \in posts, accepted \in BOOLEAN : PostEnds(post, accepted))
    /\ WF_vars(ConfirmationTimer)
    /\ WF_vars(\E answer \in {"result", "expired"} : ReceiptEnds(answer))

FairSpec == Spec /\ Fairness

-----------------------------------------------------------------------------
(* Properties                                                              *)

(* The states of VoteApp and of belenios are of these shapes.              *)
TypeOK ==
    /\ url \in Urls
    /\ page \in {"booth", "login", "closed"}
    /\ step \in 1..5 /\ status \in 0..2
    /\ config \in BOOLEAN /\ election \in BOOLEAN
    /\ fetches \in Nat /\ inits \in Seq(BOOLEAN) /\ loads \in Nat
    /\ firstLoad \in BOOLEAN
    /\ credential \in Credentials \cup {None}
    /\ module \in Credentials \cup {None}
    /\ checks \subseteq [cred : Credentials, number : Nat] /\ checked \in Nat
    /\ uncrypted \in Answers \cup {None}
    /\ crypted \in Ballots \cup {None} /\ ballot \in Ballots \cup {None}
    /\ timers \in Seq(Answers) /\ encrypting \in Seq(Ballots)
    /\ encrypted \in Nat /\ alerted \in BOOLEAN
    /\ posts \subseteq [sent : Ballots, shown : Ballots]
    /\ confirmation \in BOOLEAN
    /\ receipt \in {None, "asked", "result", "expired"}

(* The ballot that belenios sends is the one whose tracker the voter was   *)
(* shown when they clicked (submitBallot posts its own copy).              *)
ShownIsSent ==
    /\ crypted # None => ballot = crypted
    /\ \A post \in posts : post.sent = post.shown

(* Once nothing is being encrypted, and unless the voter was told of a     *)
(* failure, the ballot under review encrypts the answers shown beside it,  *)
(* under the credential that was accepted last, however often the voter    *)
(* went back and forth and whichever checks ended late.                    *)
ReviewFaithful ==
    step = 3 /\ timers = <<>> /\ encrypting = <<>> /\ ~alerted =>
        /\ crypted # None
        /\ crypted.answers = uncrypted
        /\ crypted.cred = credential

(* Every ballot shown or sent was made under a credential that passed its  *)
(* check, although the voter may answer, and click Next, before it ends.   *)
OnlyUnderValid ==
    /\ crypted # None => crypted.cred \in Valid
    /\ \A post \in posts : post.sent.cred \in Valid

(* The voter is never left to wait: for an encryption, which ends with a   *)
(* ballot or an alert (encryptBallot calls one of its callbacks); nor for  *)
(* the sending, where the election was loaded from the server, which leads *)
(* to the login page or to the last step (submitBallot).                   *)
WaitsEnd ==
    /\ step = 3 ~> step # 3 \/ crypted # None \/ alerted \/ page # "booth"
    /\ step = 4 /\ url.uuid ~> step # 4 \/ page = "login"

(* A voter who comes back from the login page is shown the receipt or told *)
(* that the session has expired, if the server gave its configuration      *)
(* (the effect of confirmation happens once).                              *)
ReceiptShown ==
    url.state /\ url.uuid /\ status = 1 /\ config ~> receipt \in {"result", "expired"}
=============================================================================

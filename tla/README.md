# A verification of Belenios in TLA+

Belenios is an internet voting system.  Its server (`src/src/web/server`) runs
elections for administrators: a draft is prepared, validated, opened, closed,
tallied with the help of trustees, and finally archived or deleted.  Everything
public is written to an append-only archive that anybody can check with
`belenios-tool`.  Voters answer the questions, encrypt and send their ballots in
the voting booth (`src/frontend/booth`), a page in their browser.  This project
models the core logic of the server and of the booth in TLA+, checks it with
TLC, and proves the main results with TLAPS.  Paths below are relative to
the repository.

## 1. The system

| Component | State it keeps | Operations | Interacts with |
|---|---|---|---|
| Election lifecycle (`common/web_persist.ml`, `common/api_elections.ml`, `filesystem/election_ops.ml`) | the files of an election: draft, state, dates, metadata (sealed or not), private key(s), credentials, decryption tokens, skipped shufflers, shuffle token, audit cache, sealing log | validate, open, close, set the automatic dates, seal, cast, compute the encrypted tally, skip/select a shuffler, shuffle, finish shuffling, post a partial decryption, release, archive, delete; any reader of the state applies the dates first | archive, storage |
| Public archive (`common/public_archive.ml`, `lib/core/events.ml`, `lib/core/archive.ml`, `filesystem/main.ml` from line 1195) | a file of records (data and chained events), the file of the last event, an index with the roots in memory | append, get roots, get data, fold along parents | lifecycle, verifier |
| Storage (`filesystem/indexed_mutex.ml`, `mutex_set.ml`, `indexed_defer.ml`, `main.ml`) | a queue of waiters per election (and one for the server), the lock set of each transaction, the set of deferred tasks | with_transaction, lock, unlock, defer | every handler |
| Caches and data policy (`elections_cache.ml`, `accounts_cache.ml`, `main.ml` from line 1653) | elections by owner, accounts by user, next automatic action | build, clear, hourly archiving and deletion | storage, lifecycle |
| Casting (`web_persist.ml` 463-583, `api_elections.ml`, `site_voter.ml`, `main.ml` 840-1010) | login sessions with a checked ballot, credential mappings, extended records (who voted with what), their caches and deferred rewritings | precast, login, cast, revote, time out, rewrite, expire | storage, lifecycle, booth |
| Booth: workflow (`booth/app.js`, `jslib/belenios_jslib.ml`) | step, election, credential and its key, answers under review, encrypted ballot (twice: the page's and the library's), receipt | load, check a credential, submit answers, encrypt, go back, send, show the receipt | questions, casting |
| Booth: questions (`booth/components`) | current question, votes, arrangement of the candidates of preferential questions, alerts | answer, arrange, go on, go back, convert to a ballot, recapitulate | workflow, counting |
| Drafts, key ceremony, credential authority (`api_drafts.ml`, `api_credentials.ml`, `lib/v1/trustees.ml`) | the draft | edit voters, trustees, credentials; seven steps of a threshold key; background generation of credentials; imports | storage, mail |
| Mail queues (`mails_voter_bulk.ml`) | two persistent queues, the mode, a counter | submit, process one, restart | drafts, lifecycle |
| Accounts and authentication (`accounts.ml`, `web_auth*.ml`, `otp.ml`, `api_generic.ml`) | accounts, session tokens, one-time passwords, cache of sent messages | login, create, connect, send a code | storage |
| Verifier (`src/src/tool`) | none: it reads archives | verify, fsck, verify-diff, append | archive |
| Counting and cryptography (`src/src/lib`) | none | tally, shuffle, proofs, majority judgment, Schulze, STV | lifecycle, verifier |

What makes these hard:

* **Concurrency.** Handlers are Lwt threads.  Two-phase locking by election makes
  a handler atomic, but a few handlers take several locks, deferred tasks run
  after the transaction that asked for them, and caches are shared without locks.
* **No rollback.** A "transaction" only holds locks.  A kill, or an exception,
  between two writes leaves the first of them.
* **Time.** Automatic opening, closing and release happen inside whichever
  handler next reads the state; a grace period lets ballots in after the closing.
* **Ordering.** A fold over the archive follows parents and stops at the first
  event of another type, so an event out of order hides the earlier ones.
* **Two copies.** The booth keeps an arrangement of candidates and the votes made
  of it, a ballot shown and a ballot sent; the server keeps files and caches.
* **Late answers.** Callbacks of credential checks and encryptions change the page
  wherever the voter has gone meanwhile.  A ballot is checked in one request and
  cast in another.
* **Repetition.** The release can be asked for, fall due, fail, or be killed and
  be done again.

For each component, what makes it correct: the *lifecycle* must publish events in
the order of the phases, tally the last ballot of every voter, never be stuck in
a state it cannot leave, keep the administrator's promises (publication date,
seal); the *archive* must be append-only and verifiable; the *storage* must
exclude, not leak and not deadlock; *casting* must tie one voter to one
credential and replace only the ballot the voter was told of; the *booth* must
send the ballot it shows, and build from any clicks a ballot that the count reads
as the screen did; the *mail queue* must not lose messages; the *caches* must not be
stale; the *ceremony* must end with shares of one key.  `PROJECT.json` lists the
hazards line by line.

## 2. The modules

**`ElectionLifecycle`** -- one election's directory as a record `el`, the clock
`now`, and `hasNH` (does the election have non-homomorphic questions, hence a
shuffling phase).  One action per handler:

| Action | Code |
|---|---|
| `Visit` | `get_election_status`, and any handler refused for the state: it has only applied the dates |
| `Validate` | `validate_election_exn` |
| `Open`, `Close` | `set_election_state` (forbidden when sealed; forgets both automatic dates) |
| `SetAutomaticDates`, `Seal` | the handlers of those names |
| `CastBallot` | `cast_ballot` and `add_ballot`, with the grace period |
| `ComputeEncryptedTally` | `compute_encrypted_tally`, the server's own shuffle included |
| `SkipShuffler`, `SelectShuffler`, `PostShuffle`, `FinishShuffling` | the shuffling phase |
| `GetPartialDecryptions`, `PostPartialDecryption` | the decryption phase |
| `ReleaseTally` | `release_tally`, including its double release when one was due |
| `GetAuditCache`, `Archive`, `Delete` | `get_audit_cache`, `archive_election`, `delete_election` |
| `Refresh` (operator) | `raw_get_election_state`: release if due, then open if due, then close if due |

The log `el.log` is the sequence of events.  A payload is what the properties
need: the credential of a ballot, the log positions of the ballots that a tally
or a result counts, the position of the ciphertexts that a shuffle permutes.
`Run` is the fold of `public_archive.ml`, with its early stop.  Ballots and
proofs are assumed valid (the server checks them before appending).  The state
`"none"` is the absence of the file, which the server reads as Draft or as
Archived.

**`ElectionCrash`** extends it with kills.  An operator `...Cut` is the set of
directories that a kill inside a handler may leave: the prefixes of its writes.
The properties are weaker where the code is: it says which guarantees survive.

**`StorageLocks`** -- the locks.  A transaction has a plan, the keys it will
access in order; `Access` is `Mutex_set.lock` with `Indexed_mutex.lock`; `End`
unlocks everything; `Defer` and `Finish` are `Indexed_defer`.  `Paths` lists the
orders in which handlers take keys: one election; the server's key and then a
new election; a draft and then the election it imports from.  This module is why
the lifecycle's handlers may be atomic actions.

**`ArchiveFile`** -- how an append writes: read the last event, truncate or
extend the file to its position, write record by record, then replace
`Last_event`, then update the index.  It implements **`PublicBoard`**, an
append-only log where the events of an operation appear together or not at all,
under the mapping `log <- Contents(Committed)`.  This module is why an append is
one step in `ElectionLifecycle` and in `ElectionCrash`.

**`Casting`** -- the ballots of an open election on the server.  A session holds a
ballot, the ballot of the same credential at the time it was checked (`seen`, the
`cr_ballot` of `precast_data`), and the user who has logged in.

| Action | Code |
|---|---|
| `Precast` | `precast_ballot` and the creation of a session |
| `Login`, `Timeout` | `run_post_login_handler`, `get_auth_env` |
| `Cast` | `election_cast_confirm`: `do_cast_ballot`, `add_ballot`, `add_credential_mapping`, `add_extended_record` |
| `CastAtOnce` | a POST with a token: both requests in one |
| `CastFails`, `CastKilled`, `Kill` | a write that fails, or a kill, after the ballot is in the archive; a kill at any other time |
| `RewriteMappings`, `RewriteRecords`, `Expire` | the deferred tasks, and the timers of the caches |

A handler is one step because it holds the lock of the election from its first
access to its end, deferred tasks take the same lock (`StorageLocks`), and an
append is one step (`ArchiveFile`).  Files are what a reader makes of their lines.
The branch of `do_cast_ballot` for credentials without a username is left out:
`submit_public_credentials` accepts none, so it cannot be reached; and weights
agree, because they come from the same place.

**`BoothApp`** -- the steps of the booth (`VoteApp` and the object `belenios`).
Each call that answers later (`FetchEnds`, `InitEnds`, `CheckEnds`, `TimerEnds`,
`EncryptionEnds`, `PostEnds`, `ConfirmationTimer`, `ReceiptEnds`) is an action of
its own, enabled as long as the page is open and wherever the voter has gone.
What is encrypted is the pair of answers and credential; `crypted` is the ballot
of the page, `ballot` that of the library.

**`CandidateColumns`** -- the state of the preferential lists: columns of
candidates and their order; `Move`, `InsertLevel`, `DeleteLevel`, and the votes
that are computed from it.  **`BoothBallot`** -- pure operators: the kind of a
question, its checks (`AlertsOf`), the ballot (`Convert`), what the review shows of
it, and how each counting method reads it (`majority_judgment.ml`, `schulze.ml`,
`stv.ml`).  **`BoothVote`** extends both: one action per click, drag or selection on
any of the six kinds of questions, and the navigation.  `BoothApp!OnVoteSubmit`
stands for its last `OnClickNext`: the answers are opaque there, any set of answers
in the constants.

`MC*` modules give the constants for TLC; `*Proofs` modules hold the theorems.
Operators that a comment calls a mutant are defined before the definition they
vary; the specification does not use them.  They are what each property was
tried against.

## 3. The runs

| Run | Question | Bounds |
|---|---|---|
| `lifecycle` | Can any order of handlers and dates break phases, tally, shares, archive, audit cache, seal or publication date? | two voters, two trustees besides the server who both must decrypt, clock 0..2, dates absent or 1, grace 1, two ballots, two shuffles, one seal |
| `lifecycle_pedersen` | The same with decryption tokens and one share out of two; does the result come out? | one voter, one ballot |
| `crash` | Which of these survive kills? | one trustee, no dates, two kills, log of at most 10 events |
| `locks` | Exclusion, leaks, which deadlocks there are, and is everybody served while there is none? | three transactions, two elections, imports both ways, one kind of deferred task |
| `archive` | Does the file implement the board? | six batches, at most 8 records |
| `casting` | What may happen to a ballot between its check and its casting, and to the files and caches around it? | three ballots of one voter and one of another, two sessions at a time, one interrupted cast and any number of kills elsewhere, revotes allowed or denied |
| `booth_app` | Does the booth send what it shows, whatever answers come late? | two valid credentials and a bad one, two encodable ballots and one that is not, two loads, two checks, two reviews |
| `booth_vote` | Is the ballot countable, and what do the count and the review read in it, compared with the screen? | seven elections of one or two questions, two or three candidates, five columns ever made in a question |
| `not_ranked` | finding | one Schulze question, four columns |
| `result_not_last` | finding | as `lifecycle` |
| `crash_tally` | finding | as `crash` |
| `archive_read` | finding | as `archive`, reads of `Last_event` may fail |

Why these bounds are enough to be interesting.  Two ballots of two voters let a
revote, a forgotten ballot and a ballot after the tally happen.  Dates at 1 with a
clock up to 2 put each date in the future, in the present and in the past, and the
grace period on both sides of its end.  Two shuffles are the server's and one
more, so a chain exists; two kills let a kill hit the repair of an earlier one.
Three transactions and two keys make queues of two waiters and every cycle of two;
cycles through more elections need more imports.  Eight records hold a setup,
ballots, and a tally, after truncated remains.  Three ballots of a voter let a
session see one, be overtaken by a second, and a third follow; the other voter's
logins and ballots interleave.  Two reviews let the first encryption end during
the second, and two checks let a late one replace a key.  Three candidates and two
added levels make empty levels before, between and after full ones; every kind of
question occurs, those that can offer a blank vote with and without one.  Deadlock
is not checked where the system really stops: a deleted election at the last clock
value, crossing imports in `locks`, a booth that was left for the login page in
`booth_app`.  In `crash` a bound stops the log.

What the passing runs show is stated at each property.  The less obvious:

* `TallyComplete`: no ballot accepted before the tally is missed, and none is
  accepted after, although the grace period and automatic openings are evaluated
  in handlers of their own.
* `StateAgreesWithLog`: `archive_election`, `skip_shuffler` and `select_shuffler`
  ignore the state, yet no waiting election lacks the key or the shuffles it
  waits for.
* `SealedMeansFrozen`, `NoResultBeforePublication`: the two promises to voters.
* `OrderedArchiveVerifies`: after kills the archive verifies as long as its events
  are in order; a kill alone never makes an unverifiable archive.
* `OnlyImportsDeadlock`: every deadlock needs two imports that cross.
* `ReplacesWhatWasSeen`: a ballot replaces the one its session saw, although the
  session may be hours old; where revotes are denied it replaces none.  An
  interrupted cast (`lost`) is excepted: its ballot is in the archive and its
  mapping is not, so the next vote is taken for a first one (the tally still counts
  the last ballot of the credential).
* `NoBallotTwice`: only `precast_ballot` looks for a duplicate in the archive; that
  `do_cast_ballot` need not rests on the comparison of the mapping.
* `ReadBackAsCast`: through expired caches, deferred rewritings and kills, no older
  ballot comes back.  `listed` (the administrator's list of voters) is not part of
  it: a kill before the deferred rewriting leaves a voter out until the next vote.
* `ShownIsSent`, `ReviewFaithful`: the second is about a review in which nothing
  is pending any more.  While an earlier encryption is still under way the page
  may show its ballot beside newer answers, and Next is already offered: what is
  sent is then the earlier ballot, and its tracker the one shown.
* `DraftGivenUp`: a draft goes only once the archive, the key and the credentials
  are written, and then for an election that can be used.  A kill between the
  deletion of the draft and the write of the state is excepted, because it does
  leave an election that is lost (finding 5), for good.
* `CountedAsArranged`: for Schulze and STV questions, what the count reads from the
  ballot, for any sequence of moves and of inserted and deleted levels: ranks from
  top to bottom; levels from left to right, without holes.  It is the arrangement
  on the screen but for two candidates displayed as not ranked, of whom one was
  moved back there and the other never ranked: Schulze prefers the first
  (finding 4).  For the other kinds `SubmittedCountable` says that the ballot is
  counted, and the review what it says.
* `RecapFollowsVotes`: the review is computed from the ballot, and is exactly what
  the votes of the page say (marks, lists, grades, all levels with their numbers,
  ranks, who is without a rank, blank).  It is what the page displayed except that
  candidates moved back to those not ranked are reviewed as the last preference
  level, and that a ballot with these only is not reviewed as blank.  Generic
  questions have no review.
* `SubmittedCountable`, `EarlierQuestionsValid`: going back and changing answers
  that were already checked leads to no unchecked ballot.

Met while modelling, of no property: `belenios.init` calls `onsuccess` after
`onfailure`, so the booth opens without the configuration of the server and the
receipt is then never rendered (`ReceiptShown` assumes `config`); an election given
by parameters cannot be sent (`WaitsEnd` is about `url.uuid`); a fetch that is
rejected leaves the page loading; a late failure of a credential check brings the
voter back to its entry from any step; the answers to generic questions are neither
checked nor recapitulated; returning from the review loses the choices; the alert
about deleting a level that is not empty refers to a `t` out of scope
(`PreferentialVotingCandidatesList.js:247`).  In the select box of
a candidate that is not ranked, the place above one ranked candidate is missing
(`PreferentialVotingWithoutEqualityColumn.js:94` compares indices in different
columns; `RankedPlaces` models it), which dragging still reaches.

### Findings

1. `result_not_last`.  `raw_get_election_state` runs its caller's continuation
   inside the exception handler of the automatic release
   (`web_persist.ml:289-295`).  When `release_tally` is called while the release
   is due, the release happens, the continuation refuses the state `Tallied`, and
   it is run again with the old state: the result is published twice.
   `doc/specification.tex:509` says the archive "stops evolving when the election
   is tallied".
2. `crash_tally`.  A kill between the append of the tally and the write of the
   state leaves a closed election with a tally.  If it is opened again, the next
   tally counts only ballots of after the kill.  `doc/specification.tex:1779-1786`
   defines the tallied ballots as the last of each credential among all accepted
   ballots.
3. `archive_read`.  `Filesystem.read_file` takes any error for absence; an append
   that does not name the last event it expects then starts the archive anew.
   `doc/specification.tex:508` calls the archive append-only.
4. `not_ranked`.  `moveCandidate` saves the index of the column "not-ranked", so a
   candidate moved back there gets the rank after the last level.  The comment at
   `AllQuestionsWithPagination.js:227` says that 0 is "not ranked".  The same screen
   thus stands for different ballots.  The count tells them apart: `schulze.ml:63-72`
   reads 0 as `max_int` and the index of the column as it is, so a candidate moved
   back beats one that was never ranked.  The review shows him under a preference
   level (`PreferentialVotingVoteRecap.js:82-115`), and a ballot from which every
   candidate was moved back is not the blank one.
5. `crash`.  `validate_election` deletes the draft (`election_ops.ml:379`) before it
   writes the state (line 399).  A kill in between leaves an archive, a key and
   credentials, but neither draft nor state, and the server reads the election as
   archived (`web_persist.ml:275-277`, "cannot get out of Archived"): it can be
   neither validated again nor opened.  `doc/web.md:59` says that a draft "becomes
   validated. Then, it is immediately opened", and line 67 that a validated election
   is archived by its administrator, who has not done it here.  The run passes because
   `DraftGivenUp` excepts the kill; without the exception TLC stops at
   `Crash(ValidateCut)`.

## 4. Fairness

`ElectionLifecycle!Fairness` is weak fairness of `Tick` (time passes) and of
`Visit`: the server applies its dates only when somebody looks, and its own
scheduler has no timer for it, so the result comes out only under the assumption
that somebody does.  No fairness is assumed of voters, trustees or the
administrator.  `StorageLocks!Fairness` is weak fairness of each transaction's
accesses and end and of each deferred task: the Lwt scheduler resumes every
runnable thread, and a handler's code terminates.  The queues are first in, first
out, so weak fairness suffices; `EveryoneServed` lets a process wait only for a
deadlock.  `BoothApp!Fairness` is weak fairness of the timers and callbacks of the
browser and of the ends of requests; nobody makes the voter click, and nothing is
assumed of the loading of the election.  `Casting` and `BoothVote` state none: they
check safety only.

## 5. The proofs

`ElectionLifecycleProofs` proves, for any sets of trustees, voters and dates and
any bounds, under the assumptions of the module (the trustees are finitely many
and include the server; without a shared key the threshold is all of them; dates
are naturals or absent), all the safety properties of the module:

* From `Inv`: `TypeCorrect`, `PhasesInOrder`, `TallyIsComplete`, `SharesAreUnique`.
  None of the last three is inductive.  `Inv` adds what the log may hold in each
  state (`AtMost(log, n)`: no event of a phase later than n; a draft has an empty
  log; an election that shuffles or decrypts has a tally; one tally at most).
  `AtMost` is what makes an append by a handler keep the order, and with the order
  `Run(log, "Ballot")` is the set of all the ballots, so that the fold misses none.
* From `FullInv`, which adds to `Inv` the last tally and its shuffles in each state,
  what the verifier wants of every event that is there, and the audit cache:
  `StateAgrees`, `ArchiveAlwaysVerifies`, `CacheIsFresh`.
* The action properties `SealIsFirm` and `ResultsWait`: the handlers that a seal or
  the publication date must stop are taken one by one, after `Refresh`.

There is one step per action, over `Refresh`, which is proved to preserve each part
of the invariant once and then used by every handler.

`ElectionCrashProofs` proves all the properties of the runs of `ElectionCrash` but
the one that is violated, under kills between any two writes: `CrashTypeCorrect`,
`StateNeverAhead`, `OrderedArchivePasses` and the action properties `DraftEnds` and
`RepeatedTallyIsSame`.  After a kill the phases need not be in order, so `Inv` is
lost.  What is left, `CrashInv`, says of the log alone (`LogOK`) that the latest
tally counts what a new tally would count as long as no ballot follows it
(`TallyMatches`), and that a log whose events do follow the phases has linked
shuffles and a result that the shares before it support; and of the state
(`NotAhead`) that it announces no more than the log has.  Every step, and every part
of one that a kill leaves, is shown to be `Legal`: it keeps `CrashInv`, grows the
log, changes what a tally would count only by a ballot after the latest tally, and
deletes the draft only once the archive, its key and the credentials are there.
`Remains` says which elections can be used: all handlers but validation and deletion,
cut or not, leave the draft alone and write no state where there is none.

`StorageLocksProofs` proves `LocksTypeCorrect`, `HandlersExclude`
(`MutualExclusion`) and `LocksDoNotLeak` (`NoLeak`) for any numbers of
transactions, elections and deferred tasks.  The strengthening says that a process
waits for at most one key, is at most once in its queue, and that queues and
`waits` agree; `LockStep` and `UnlockStep` are the two lemmas that every action
cites.  `DeadlockNeedsImports` (`OnlyImportsDeadlock`) adds `PathInv`: what a
transaction holds and awaits is where it is on its path.  Whoever holds an election
and waits is then an import, and waits for an election; whoever holds the server's
key waits for an election.  Following who holds what a process waits for, one
therefore meets, after two steps at most, two imports that are not the same.

`ArchiveFileProofs` proves `IndexFollows`, `ChainHolds`, `ArchiveIsAppendOnly` and the
refinement `ArchiveImplementsBoard`, for any batches, hash function and length of
the file, if `ReadErrors = FALSE`; with read errors they are false, as
`archive_read` shows.  `ArchiveInv` says that the committed records are the first of
the file, that they form a chain which `Last_event` closes, that the index is that
of these records, and of an append under way that the file and what is still to be
written are together the committed records and those of the append, chained, with
the contents of one batch more.  A commit then adds one batch to the board, and
every other step leaves it as it is.

`SequenceFolds` makes induction over data possible for these proofs.  The induction
theorems of the library take a predicate, which the provers cannot instantiate;
here induction is about a set (`SetInduction`, `SequenceInduction`), and
`FoldUnfolds` shows from it that `FoldLeft` is what its recursive definition says.
The module has the folded operator as a constant: `ArchiveFileProofs` instantiates
it with `Link`, `UpdateRoots` and `AddEvent`, `BoothVoteProofs` with `Lower`.

`CastingProofs` proves `SeenIsReplaced`, `BallotsAreCastOnce` and
`WhatWasCastIsRead` for any credentials, users, ballots and bounds, under
`CastingAssumption` (a user owns at most one credential, which is the check of
duplicate usernames in `submit_public_credentials`).  The invariant adds
`MappingsCurrent` and `RecordsCurrent` (file and cache agree and hold the last
ballot) and `SeenWasCast`: what a session saw is in the archive, and before its
own ballot.  The last is why a page that casts a second time is refused: the
mapping is then the ballot itself, or a later one, and not what was seen.

`BoothAppProofs` proves `SentIsShown`, `BallotsUnderValid` and `ReviewIsFaithful`
for any credentials, answers and bounds.  Its invariant says that keys, pending
encryptions and ballots are under valid credentials (`KeysValid`), that from the
questions on the key is that of the credential (`KeyAgrees`), and that during a
review the last of the pending encryptions, or the ballot if there is none, is of
the answers under review (`Awaited`), since callbacks end in order.

`BoothVoteProofs` proves all the properties of `BoothVote` but the one that is
violated, for any election, under `ElectionsAssumption` and `ColumnsAssumption`
(the names of the two fixed columns are no numbers; `None`, which stands for
undefined, is neither a number nor a sequence).  It has two invariants.

* `VoteInv`: `Move`, `InsertLevel` and `DeleteLevel` keep an arrangement `Arranged`,
  over lemmas on inserting into and removing from sequences, and an answer touches
  the current question only.  From it: `CandidatesPlacedOnce`, `ColumnsStayInOrder`,
  `PassedStaysValid`, `AlertsUpToDate`.
* `FitInv` (`VotesFit`): the vote of each question is one that its kind allows --
  0 or 1 in a classic one, one list selected or nothing chosen, a grade or none --
  and agrees with the columns displayed (`LevelsFit`, `RanksFit`); the ballot under
  review is made of these votes.  A candidate in NotRanked may have the index of that
  column, or none: the disjunction in `LevelsFit` is what the events really do, and
  neither count nor review takes the two for the same.  `RankPlaces` says which
  candidates have which rank, `MovedBack` being those of NotRanked that have one.
  Together with the checks each question has passed (`EarlierQuestionsValid`) it
  gives `SubmittedIsCounted`, `ColumnsAreCounted` and `ReviewFollowsVotes`.

Between the two stand lemmas about the operators of `BoothBallot`.  The longest is
`LevelsSent`, on the loop that removes the empty levels.  A pass (`LowerPass`) keeps
the order of the levels, and lowers the highest unless nothing is above an empty
one; so the loop ends.  `Settle`, which is this loop, is a recursive function that
the provers only know as a `CHOOSE`; the witness is `Compact`, which gives each
candidate the number of levels up to his own.  It depends on the order only, hence
does not change along the passes, and is the identity on a ballot without holes.
`LevelNumber` says the same of the review: a level is shown under the number of
levels up to it.
`SumOfOnes` counts the choices of a classic ballot, `RanksProcessed` reads a column
back from the ranks.

Only model-checked: that no run stops where it must not (TLC's deadlock check), and all
liveness (`ResultComesOut`, `EveryoneServed` and that of the booth), because liveness
under fairness is beyond the installed provers; and `IndexAgrees`, `ChainOK` and the
refinement are proved without read errors only, as said above.  The violated
properties are refuted by their runs.

## 6. Plan

In order, the most important behaviour first.

1. *Done:* `ElectionLifecycle`, `ElectionCrash`, `StorageLocks`, `PublicBoard` and
   `ArchiveFile`, with their runs and proofs.
2. *Done:* `Casting`, `BoothApp`, `CandidateColumns`, `BoothBallot` and `BoothVote`,
   with their runs and proofs.
3. `MailQueue`: two queues, mode and counter, kills between writes; abstract
   specification: a bag of pending messages, each sent at least once.
4. `KeyCeremony`: the steps of a threshold key with retries and resets, and the
   draft's readiness for `Validate`.
5. `CredentialGeneration`: the background thread against edits and deletion of the
   draft.
6. `Caches`: elections by owner and by date, cleared during a build; the data
   policy's decision and its later application; deletion file by file.
7. Accounts: concurrent first logins, one-time codes, the cache of sent messages.
8. Counting methods as operators against their definitions on all small profiles.
9. `AbstractElection`, the phases a voter sees, refined by `ElectionLifecycle`.
10. What the models of the core leave out: two threads of one transaction in
    `StorageLocks`, where the second passes `Mutex_set.lock` while the first waits
    (`mutex_set.ml:48`); and in `ElectionCrash` properties of the keys, which
    `archive_election` may delete before the state (`main.ml:1160`), and of the
    server's own shuffle, before which the state is written (`web_persist.ml:817`,
    849).  These kills are in the model, but `StateNeverAheadOfLog` looks at the log
    only, and `OrderedArchiveVerifies` at logs in the order of the phases.
11. *Done:* the safety properties of all the runs that pass.  Next: the invariant of
    `MailQueue`, and of each module above as it is written.

Hazards that wait for these modules: the caches of ballots and of elections are
cleared while they are built (`elections_cache.ml:125`, `public_archive.ml:203`);
the data policy decides before it locks (`main.ml:1653`), and its deletion may be
cut short (`main.ml:1168`); several loops process one queue of mails
(`mails_voter_bulk.ml:188`); credentials are generated while the draft is edited
(`web_persist.ml:941`); two first logins (`web_auth.ml:208`); the cache of sent
messages (`api_generic.ml:205`); the median of an even number of grades
(`majority_judgment.ml:93`).

## 7. Not modelled

* Cryptography: group arithmetic, proofs of knowledge, encryption.  Ballots,
  shuffles and partial decryptions that the server refuses do not appear.
* In `ElectionCrash`: the dates are taken to be one file (they are two, of which
  one says whether results are hidden), and the removal of a directory's files on
  deletion is one step.  Power loss is not modelled: a kill of the process keeps
  what was written.  (Of all files only the archive is synced, by each append:
  `main.ml:1351`.)
* Read errors outside `Last_event`.
* In `ElectionLifecycle`: the preparation of the draft, credential and revote
  policy (that is `Casting`), weights, passwords, mails, and the dates used by the
  data policy; the counters `MaxTime`, `MaxBallots`, `MaxShuffles`, `MaxSeals`
  bound what the code does not.
* In `Casting`: a line that is written in part, the grace period (in
  `ElectionLifecycle`), confirmation mails.
* In the booth: layout, translations, the parsing of questions, and the window
  sizes (both lists of grades are one action).
* The administrator's pages and the other clients, configuration, translations, deployment.

--------------------------- MODULE BoothAppProofs ---------------------------
(***************************************************************************)
(* What the voter is shown is what is sent, under a checked credential,    *)
(* for any credentials and answers, and any number of loads, checks,       *)
(* encryptions and callbacks under way.                                    *)
(*                                                                         *)
(* The three properties speak of the ballot shown.  The invariant also     *)
(* speaks of the callbacks that will produce it: the key each will use,    *)
(* and, during a review, that the last of them has the answers shown.      *)
(***************************************************************************)
EXTENDS BoothApp, TLAPS

(* The number given to an encryption is a natural number.                  *)
TimersCounted == Len(timers) <= encrypted

(* A key comes from a credential that was checked, wherever it is kept.    *)
KeysValid ==
    /\ module \in Valid \cup {None}
    /\ \A i \in DOMAIN encrypting : encrypting[i].cred \in Valid \cup {None}
    /\ ballot # None => ballot.cred \in Valid
    /\ OnlyUnderValid

(* From the questions to the sending, the key is the one of the credential. *)
KeyAgrees == step \in 2..4 => module \in {None, credential}

(* The ballot awaited, b, is the one under review.                         *)
Matches(b) == b.answers = uncrypted /\ b.cred \in {None, credential}

(* The review ends with the answers shown: they are in the last timer, or  *)
(* in the last encryption, or in the ballot shown unless the voter was     *)
(* told of a failure.                                                      *)
Awaited ==
    step = 3 =>
        \/ timers # <<>> /\ timers[Len(timers)] = uncrypted
        \/ /\ timers = <<>> /\ encrypting # <<>>
           /\ Matches(encrypting[Len(encrypting)])
        \/ /\ timers = <<>> /\ encrypting = <<>>
           /\ \/ alerted
              \/ /\ crypted # None
                 /\ crypted.answers = uncrypted /\ crypted.cred = credential

Inv ==
    /\ TypeOK /\ TimersCounted
    /\ KeysValid
    /\ ShownIsSent
    /\ KeyAgrees /\ Awaited

-----------------------------------------------------------------------------
(* The last element of a sequence to which one is appended.                *)
LEMMA AppendLast ==
    ASSUME NEW S, NEW s \in Seq(S), NEW x \in S
    PROVE  /\ Append(s, x) \in Seq(S)
           /\ Append(s, x) # <<>>
           /\ Len(Append(s, x)) = Len(s) + 1
           /\ Append(s, x)[Len(Append(s, x))] = x
           /\ \A i \in DOMAIN Append(s, x) :
                \/ Append(s, x)[i] = x
                \/ i \in DOMAIN s /\ Append(s, x)[i] = s[i]
  OBVIOUS

(* What is left of a sequence without its head: nothing, or the same last. *)
LEMMA TailLast ==
    ASSUME NEW S, NEW s \in Seq(S), s # <<>>
    PROVE  /\ Tail(s) \in Seq(S)
           /\ Head(s) = s[1] /\ Head(s) \in S /\ 1 \in DOMAIN s
           /\ Len(s) \in Nat \ {0} /\ Len(Tail(s)) = Len(s) - 1
           /\ Tail(s) = <<>> => s[Len(s)] = Head(s)
           /\ Tail(s) # <<>> => Tail(s)[Len(Tail(s))] = s[Len(s)]
           /\ \A i \in DOMAIN Tail(s) : i + 1 \in DOMAIN s /\ Tail(s)[i] = s[i + 1]
  OBVIOUS

LEMMA InitInv == Init => Inv
  <1> SUFFICES ASSUME Init PROVE Inv
    OBVIOUS
  <1> USE BoothAssumption DEF Init
  <1>1. TypeOK /\ TimersCounted
    <2>1. url.uuid \in BOOLEAN /\ url.credential \in Credentials \cup {None}
      BY DEF Urls
    <2>2. /\ fetches \in Nat /\ loads \in Nat /\ step \in 1..5
          /\ credential \in Credentials \cup {None}
      BY <2>1
    <2>3. inits \in Seq(BOOLEAN) /\ timers \in Seq(Answers) /\ encrypting \in Seq(Ballots)
      OBVIOUS
    <2>4. Len(timers) <= encrypted
      OBVIOUS
    <2>5. /\ page \in {"booth", "login", "closed"} /\ status \in 0..2
          /\ checks \subseteq [cred : Credentials, number : Nat]
          /\ posts \subseteq [sent : Ballots, shown : Ballots]
      OBVIOUS
    <2> QED
      BY <2>2, <2>3, <2>4, <2>5, Zenon, 0 \in Nat DEF TypeOK, TimersCounted
  <1>2. KeysValid /\ ShownIsSent
    BY DEF KeysValid, OnlyUnderValid, ShownIsSent
  <1>3. KeyAgrees /\ Awaited
    BY DEF KeyAgrees, Awaited
  <1> QED
    BY <1>1, <1>2, <1>3 DEF Inv

(* The encryption that the next timer starts.                              *)
Started ==
    [answers |-> Head(timers), cred |-> module, number |-> encrypted - Len(timers)]

LEMMA StartCheckTypes ==
    ASSUME TypeOK, NEW c \in Credentials, StartCheck(c)
    PROVE  /\ checks' \subseteq [cred : Credentials, number : Nat]
           /\ firstLoad' \in BOOLEAN /\ checked' \in Nat
  <1>1. checked \in Nat
    BY DEF TypeOK
  <1>2. [cred |-> c, number |-> checked] \in [cred : Credentials, number : Nat]
    BY <1>1
  <1>3. checks' \subseteq [cred : Credentials, number : Nat]
    BY <1>2, Zenon DEF StartCheck, TypeOK
  <1>4. checked' \in Nat
    BY <1>1 DEF StartCheck
  <1>5. firstLoad' \in BOOLEAN
    BY Zenon DEF StartCheck
  <1> QED
    BY <1>3, <1>4, <1>5

LEMMA TypeStep ==
    ASSUME TypeOK, TimersCounted, [Next]_vars
    PROVE  TypeOK' /\ TimersCounted'
  <1> USE BoothAssumption DEF loading, identity, review, sending
  <1>1. CASE LoadFromUuid
    BY <1>1 DEF LoadFromUuid, AskUuid, TypeOK, TimersCounted
  <1>2. ASSUME NEW readable \in BOOLEAN, LoadFromParameters(readable)
        PROVE  TypeOK' /\ TimersCounted'
    BY <1>2, AppendLast DEF LoadFromParameters, AskUuid, TypeOK, TimersCounted
  <1>3. CASE FetchEnds
    <2>1. inits' = inits \/ \E readable \in BOOLEAN : inits' = Append(inits, readable)
      BY <1>3 DEF FetchEnds
    <2>2. inits' \in Seq(BOOLEAN)
      BY <2>1, AppendLast DEF TypeOK
    <2>3. fetches' \in Nat
      BY <1>3 DEF FetchEnds, TypeOK
    <2>4. status' \in {status, 2} /\ election' \in {election, TRUE}
      BY <1>3, Zenon DEF FetchEnds
    <2>5. status' \in 0..2
      BY <2>4 DEF TypeOK
    <2>6. election' \in BOOLEAN
      BY <2>4, Zenon DEF TypeOK
    <2> QED
      BY <1>3, <2>2, <2>3, <2>5, <2>6 DEF FetchEnds, TypeOK, TimersCounted
  <1>4. ASSUME NEW configured \in BOOLEAN, InitEnds(configured)
        PROVE  TypeOK' /\ TimersCounted'
    <2>1. inits' \in Seq(BOOLEAN)
      BY <1>4, TailLast DEF InitEnds, TypeOK
    <2>2. config' \in BOOLEAN
      BY <1>4, Zenon DEF InitEnds, TypeOK
    <2>3. status' \in 0..2
      <3>1. status' \in {1, 2}
        BY <1>4, Zenon DEF InitEnds
      <3> QED
        BY <3>1
    <2>4. /\ checks' \subseteq [cred : Credentials, number : Nat]
          /\ firstLoad' \in BOOLEAN /\ checked' \in Nat
      <3>1. CASE StartCheck(credential) /\ credential # None
        BY <3>1, StartCheckTypes DEF TypeOK
      <3>2. CASE UNCHANGED <<firstLoad, checks, checked>>
        BY <3>2 DEF TypeOK
      <3> QED
        BY <1>4, <3>1, <3>2, Zenon DEF InitEnds
    <2> QED
      BY <1>4, <2>1, <2>2, <2>3, <2>4 DEF InitEnds, TypeOK, TimersCounted
  <1>5. ASSUME NEW c \in Credentials, EnterCredential(c)
        PROVE  TypeOK' /\ TimersCounted'
    <2>1. /\ checks' \subseteq [cred : Credentials, number : Nat]
          /\ firstLoad' \in BOOLEAN /\ checked' \in Nat
      BY <1>5, StartCheckTypes DEF EnterCredential
    <2> QED
      BY <1>5, <2>1 DEF EnterCredential, TypeOK, TimersCounted
  <1>6. ASSUME NEW check \in checks, CheckEnds(check)
        PROVE  TypeOK' /\ TimersCounted'
    BY <1>6 DEF CheckEnds, TypeOK, TimersCounted
  <1>7. ASSUME NEW answers \in Answers, OnVoteSubmit(answers)
        PROVE  TypeOK' /\ TimersCounted'
    <2>1. timers' \in Seq(Answers) /\ Len(timers') = Len(timers) + 1
      BY <1>7, AppendLast DEF OnVoteSubmit, TypeOK
    <2>2. Len(timers) \in Nat
      BY DEF TypeOK
    <2>3. encrypted' \in Nat /\ TimersCounted'
      BY <1>7, <2>1, <2>2 DEF OnVoteSubmit, TypeOK, TimersCounted
    <2>4. alerted' \in BOOLEAN
      BY <1>7, Zenon DEF OnVoteSubmit
    <2> QED
      BY <1>7, <2>1, <2>3, <2>4 DEF OnVoteSubmit, TypeOK
  <1>8. CASE TimerEnds
    <2>1. /\ timers # <<>> /\ timers' = Tail(timers)
          /\ encrypting' = Append(encrypting, Started)
      BY <1>8 DEF TimerEnds, Started
    <2>2. Started \in Ballots
      BY <2>1, TailLast DEF Started, Ballots, TypeOK, TimersCounted
    <2>3. encrypting' \in Seq(Ballots) /\ timers' \in Seq(Answers)
      BY <2>1, <2>2, AppendLast, TailLast DEF TypeOK
    <2>4. TimersCounted'
      BY <1>8, <2>1, TailLast DEF TimerEnds, TypeOK, TimersCounted
    <2> QED
      BY <1>8, <2>3, <2>4 DEF TimerEnds, TypeOK
  <1>9. CASE EncryptionEnds
    <2>1. encrypting' \in Seq(Ballots) /\ Head(encrypting) \in Ballots
      BY <1>9, TailLast DEF EncryptionEnds, TypeOK
    <2>2. /\ crypted' \in {crypted, Head(encrypting)}
          /\ ballot' \in {ballot, Head(encrypting)}
          /\ alerted' \in {alerted, TRUE}
      BY <1>9 DEF EncryptionEnds
    <2>3. crypted' \in Ballots \cup {None} /\ ballot' \in Ballots \cup {None}
      BY <2>1, <2>2 DEF TypeOK
    <2>4. alerted' \in BOOLEAN
      BY <2>2 DEF TypeOK
    <2> QED
      BY <1>9, <2>1, <2>3, <2>4 DEF EncryptionEnds, TypeOK, TimersCounted
  <1>10. CASE OnClickPrevious
    BY <1>10 DEF OnClickPrevious, TypeOK, TimersCounted
  <1>11. CASE OnClickNext
    BY <1>11 DEF OnClickNext, TypeOK, TimersCounted
  <1>12. ASSUME NEW post \in posts, NEW accepted \in BOOLEAN, PostEnds(post, accepted)
         PROVE  TypeOK' /\ TimersCounted'
    <2>1. /\ page' \in {page, "login"} /\ step' \in {step, 5}
          /\ confirmation' \in {confirmation, TRUE}
          /\ receipt' \in {receipt, "asked"}
      BY <1>12, Zenon DEF PostEnds, Confirm
    <2>2. posts' \subseteq [sent : Ballots, shown : Ballots]
      BY <1>12 DEF PostEnds, TypeOK
    <2>3. confirmation' \in BOOLEAN
      BY <2>1, Zenon DEF TypeOK
    <2>4. /\ page' \in {"booth", "login", "closed"} /\ step' \in 1..5
          /\ receipt' \in {None, "asked", "result", "expired"}
      BY <2>1 DEF TypeOK
    <2> QED
      BY <1>12, <2>2, <2>3, <2>4 DEF PostEnds, TypeOK, TimersCounted
  <1>13. CASE ConfirmationTimer
    BY <1>13 DEF ConfirmationTimer, Confirm, TypeOK, TimersCounted
  <1>14. ASSUME NEW answer \in {"result", "expired"}, ReceiptEnds(answer)
         PROVE  TypeOK' /\ TimersCounted'
    BY <1>14 DEF ReceiptEnds, TypeOK, TimersCounted
  <1>15. CASE UNCHANGED vars
    BY <1>15 DEF vars, TypeOK, TimersCounted
  <1> QED
    BY <1>1, <1>2, <1>3, <1>4, <1>5, <1>6, <1>7, <1>8, <1>9, <1>10, <1>11, <1>12,
       <1>13, <1>14, <1>15 DEF Next

(* Only four actions touch the keys kept, and each takes one from where it *)
(* is already known to be valid, or from a check that has just passed.     *)
LEMMA KeysStep ==
    ASSUME Inv, [Next]_vars
    PROVE  KeysValid' /\ ShownIsSent'
  <1> USE BoothAssumption DEF loading, identity, review, sending
  <1> DEFINE Keys == <<module, encrypting, ballot, crypted, posts>>
  <1>0. ASSUME UNCHANGED Keys
        PROVE  KeysValid' /\ ShownIsSent'
    BY <1>0 DEF Inv, KeysValid, OnlyUnderValid, ShownIsSent
  <1>1. CASE LoadFromUuid
    BY <1>0, <1>1 DEF LoadFromUuid
  <1>2. ASSUME NEW readable \in BOOLEAN, LoadFromParameters(readable)
        PROVE  KeysValid' /\ ShownIsSent'
    BY <1>0, <1>2 DEF LoadFromParameters
  <1>3. CASE FetchEnds
    BY <1>0, <1>3 DEF FetchEnds
  <1>4. ASSUME NEW configured \in BOOLEAN, InitEnds(configured)
        PROVE  KeysValid' /\ ShownIsSent'
    BY <1>0, <1>4 DEF InitEnds
  <1>5. ASSUME NEW c \in Credentials, EnterCredential(c)
        PROVE  KeysValid' /\ ShownIsSent'
    BY <1>0, <1>5 DEF EnterCredential
  <1>6. ASSUME NEW check \in checks, CheckEnds(check)
        PROVE  KeysValid' /\ ShownIsSent'
    <2>1. module' \in Valid \cup {None}
      BY <1>6 DEF CheckEnds, Inv, KeysValid
    <2> QED
      BY <1>6, <2>1 DEF CheckEnds, Inv, KeysValid, OnlyUnderValid, ShownIsSent
  <1>7. ASSUME NEW answers \in Answers, OnVoteSubmit(answers)
        PROVE  KeysValid' /\ ShownIsSent'
    BY <1>7 DEF OnVoteSubmit, Inv, KeysValid, OnlyUnderValid, ShownIsSent
  <1>8. CASE TimerEnds
    <2>1. /\ timers # <<>>
          /\ encrypting' = Append(encrypting, Started)
          /\ UNCHANGED <<module, ballot, crypted, posts>>
      BY <1>8 DEF TimerEnds, Started
    <2>2. Started \in Ballots /\ Started.cred \in Valid \cup {None}
      BY <2>1, TailLast DEF Started, Ballots, Inv, KeysValid, TypeOK, TimersCounted
    <2>3. \A i \in DOMAIN encrypting' : encrypting'[i].cred \in Valid \cup {None}
      BY <2>1, <2>2, AppendLast DEF Inv, KeysValid, TypeOK
    <2> QED
      BY <2>1, <2>3 DEF Inv, KeysValid, OnlyUnderValid, ShownIsSent
  <1>9. CASE EncryptionEnds
    <2> DEFINE b == Head(encrypting)
    <2>1. /\ encrypting # <<>> /\ encrypting' = Tail(encrypting)
          /\ UNCHANGED <<module, posts>>
          /\ \/ UNCHANGED <<crypted, ballot>>
             \/ b.cred # None /\ crypted' = b /\ ballot' = b
      BY <1>9 DEF EncryptionEnds
    <2>2. b \in Ballots /\ b.cred \in Valid \cup {None}
      BY <2>1, TailLast DEF Inv, KeysValid, TypeOK
    <2>3. \A i \in DOMAIN encrypting' : encrypting'[i].cred \in Valid \cup {None}
      BY <2>1, TailLast DEF Inv, KeysValid, TypeOK
    <2> QED
      BY <2>1, <2>2, <2>3 DEF Inv, KeysValid, OnlyUnderValid, ShownIsSent
  <1>10. CASE OnClickPrevious
    BY <1>10 DEF OnClickPrevious, Inv, KeysValid, OnlyUnderValid, ShownIsSent
  <1>11. CASE OnClickNext
    <2>1. CASE UNCHANGED posts
      BY <1>0, <1>11, <2>1 DEF OnClickNext
    <2>2. CASE posts' = posts \cup {[sent |-> ballot, shown |-> crypted]}
      <3>1. crypted # None /\ UNCHANGED <<module, encrypting, ballot, crypted>>
        BY <1>11 DEF OnClickNext
      <3>2. ballot = crypted /\ ballot.cred \in Valid
        BY <3>1 DEF Inv, KeysValid, ShownIsSent
      <3> QED
        BY <2>2, <3>1, <3>2 DEF Inv, KeysValid, OnlyUnderValid, ShownIsSent
    <2> QED
      BY <1>11, <2>1, <2>2 DEF OnClickNext
  <1>12. ASSUME NEW post \in posts, NEW accepted \in BOOLEAN, PostEnds(post, accepted)
         PROVE  KeysValid' /\ ShownIsSent'
    BY <1>12 DEF PostEnds, Inv, KeysValid, OnlyUnderValid, ShownIsSent
  <1>13. CASE ConfirmationTimer
    BY <1>0, <1>13 DEF ConfirmationTimer
  <1>14. ASSUME NEW answer \in {"result", "expired"}, ReceiptEnds(answer)
         PROVE  KeysValid' /\ ShownIsSent'
    BY <1>0, <1>14 DEF ReceiptEnds
  <1>15. CASE UNCHANGED vars
    BY <1>0, <1>15 DEF vars
  <1> QED
    BY <1>1, <1>2, <1>3, <1>4, <1>5, <1>6, <1>7, <1>8, <1>9, <1>10, <1>11, <1>12,
       <1>13, <1>14, <1>15 DEF Next

(* A timer or an encryption that ends makes place for the one after it, and *)
(* the last to end is the one that was awaited.                            *)
LEMMA ReviewStep ==
    ASSUME Inv, [Next]_vars
    PROVE  KeyAgrees' /\ Awaited'
  <1> USE BoothAssumption DEF loading, identity, review, sending
  <1> DEFINE Under == <<step, module, credential, review>>
  <1>0. ASSUME UNCHANGED Under
        PROVE  KeyAgrees' /\ Awaited'
    BY <1>0 DEF Inv, KeyAgrees, Awaited, Matches
  <1>1. CASE LoadFromUuid
    BY <1>0, <1>1 DEF LoadFromUuid
  <1>2. ASSUME NEW readable \in BOOLEAN, LoadFromParameters(readable)
        PROVE  KeyAgrees' /\ Awaited'
    BY <1>0, <1>2 DEF LoadFromParameters
  <1>3. CASE FetchEnds
    BY <1>0, <1>3 DEF FetchEnds
  <1>4. ASSUME NEW configured \in BOOLEAN, InitEnds(configured)
        PROVE  KeyAgrees' /\ Awaited'
    BY <1>0, <1>4 DEF InitEnds
  <1>5. ASSUME NEW c \in Credentials, EnterCredential(c)
        PROVE  KeyAgrees' /\ Awaited'
    BY <1>0, <1>5 DEF EnterCredential
  <1>6. ASSUME NEW check \in checks, CheckEnds(check)
        PROVE  KeyAgrees' /\ Awaited'
    BY <1>6 DEF CheckEnds, KeyAgrees, Awaited
  <1>7. ASSUME NEW answers \in Answers, OnVoteSubmit(answers)
        PROVE  KeyAgrees' /\ Awaited'
    <2>1. timers' # <<>> /\ timers'[Len(timers')] = answers
      BY <1>7, AppendLast DEF OnVoteSubmit, Inv, TypeOK
    <2> QED
      BY <1>7, <2>1 DEF OnVoteSubmit, Displayed, Inv, KeyAgrees, Awaited
  <1>8. CASE TimerEnds
    <2>1. /\ timers # <<>> /\ timers' = Tail(timers)
          /\ encrypting' = Append(encrypting, Started)
          /\ UNCHANGED <<step, module, credential, uncrypted, crypted, alerted>>
      BY <1>8 DEF TimerEnds, Started
    <2>2. KeyAgrees'
      BY <2>1 DEF Inv, KeyAgrees
    <2>3. CASE step # 3
      BY <2>1, <2>2, <2>3 DEF Awaited
    <2>4. CASE step = 3 /\ timers' # <<>>
      BY <2>1, <2>2, <2>4, TailLast DEF Inv, TypeOK, Awaited
    <2>5. CASE step = 3 /\ timers' = <<>>
      <3>1. Started \in Ballots
        BY <2>1, TailLast DEF Started, Ballots, Inv, TypeOK, TimersCounted
      <3>2. /\ encrypting' # <<>>
            /\ encrypting'[Len(encrypting')] = Started
        BY <2>1, <3>1, AppendLast DEF Inv, TypeOK
      <3>3. Head(timers) = uncrypted
        BY <2>1, <2>5, TailLast DEF Inv, TypeOK, Awaited
      <3>4. Started.answers = uncrypted /\ Started.cred \in {None, credential}
        BY <2>5, <3>3 DEF Started, Inv, KeyAgrees
      <3> QED
        BY <2>1, <2>2, <2>5, <3>2, <3>4 DEF Awaited, Matches
    <2> QED
      BY <2>3, <2>4, <2>5
  <1>9. CASE EncryptionEnds
    <2> DEFINE b == Head(encrypting)
    <2>1. /\ encrypting # <<>> /\ encrypting' = Tail(encrypting)
          /\ UNCHANGED <<step, module, credential, uncrypted, timers>>
          /\ alerted' = TRUE \/ (b.cred # None /\ crypted' = b)
      BY <1>9 DEF EncryptionEnds
    <2>2. KeyAgrees'
      BY <2>1 DEF Inv, KeyAgrees
    <2>3. CASE step # 3 \/ timers # <<>>
      BY <2>1, <2>2, <2>3 DEF Inv, Awaited
    <2>4. CASE step = 3 /\ timers = <<>>
      <3>1. Matches(encrypting[Len(encrypting)])
        BY <2>1, <2>4 DEF Inv, Awaited
      <3>2. CASE encrypting' # <<>>
        <4>1. encrypting'[Len(encrypting')] = encrypting[Len(encrypting)]
          BY <2>1, <3>2, TailLast DEF Inv, TypeOK
        <4> QED
          BY <2>1, <2>2, <2>4, <3>1, <3>2, <4>1 DEF Awaited, Matches
      <3>3. CASE encrypting' = <<>>
        <4>1. Matches(b) /\ b \in Ballots
          BY <2>1, <3>1, <3>3, TailLast DEF Inv, TypeOK
        <4>2. b # None
          BY <4>1
        <4> QED
          BY <2>1, <2>2, <2>4, <3>3, <4>1, <4>2 DEF Awaited, Matches
      <3> QED
        BY <3>2, <3>3
    <2> QED
      BY <2>3, <2>4
  <1>10. CASE OnClickPrevious
    BY <1>10 DEF OnClickPrevious, Displayed, Inv, KeyAgrees, Awaited
  <1>11. CASE OnClickNext
    <2>1. step = 3 /\ step' \in {3, 4}
      BY <1>11 DEF OnClickNext, Displayed
    <2> QED
      BY <1>11, <2>1 DEF OnClickNext, Inv, KeyAgrees, Awaited, Matches
  <1>12. ASSUME NEW post \in posts, NEW accepted \in BOOLEAN, PostEnds(post, accepted)
         PROVE  KeyAgrees' /\ Awaited'
    BY <1>0, <1>12 DEF PostEnds, KeyAgrees, Awaited
  <1>13. CASE ConfirmationTimer
    BY <1>0, <1>13 DEF ConfirmationTimer
  <1>14. ASSUME NEW answer \in {"result", "expired"}, ReceiptEnds(answer)
         PROVE  KeyAgrees' /\ Awaited'
    BY <1>0, <1>14 DEF ReceiptEnds
  <1>15. CASE UNCHANGED vars
    BY <1>0, <1>15 DEF vars
  <1> QED
    BY <1>1, <1>2, <1>3, <1>4, <1>5, <1>6, <1>7, <1>8, <1>9, <1>10, <1>11, <1>12,
       <1>13, <1>14, <1>15 DEF Next

-----------------------------------------------------------------------------
(* The invariant of the booth: where every key and every awaited ballot    *)
(* comes from (app.js, belenios_jslib.ml).                                 *)
THEOREM BoothInvariant == Spec => []Inv
  <1>1. Inv /\ [Next]_vars => Inv'
    BY TypeStep, KeysStep, ReviewStep DEF Inv
  <1> QED
    BY InitInv, <1>1, PTL DEF Spec

(* The states of VoteApp and of belenios keep their shapes.                *)
THEOREM BoothTypeCorrect == Spec => []TypeOK
  <1>1. Inv => TypeOK
    BY DEF Inv
  <1> QED
    BY BoothInvariant, <1>1, PTL

(* Whatever the order of clicks, timers and callbacks, the ballot that     *)
(* submitBallot posts is the one whose tracker the voter saw.              *)
THEOREM SentIsShown == Spec => []ShownIsSent
  <1>1. Inv => ShownIsSent
    BY DEF Inv
  <1> QED
    BY BoothInvariant, <1>1, PTL

(* No ballot is made under a credential that checkCredential refused.      *)
THEOREM BallotsUnderValid == Spec => []OnlyUnderValid
  <1>1. Inv => OnlyUnderValid
    BY DEF Inv, KeysValid
  <1> QED
    BY BoothInvariant, <1>1, PTL

(* The review is of the answers shown beside the ballot, under the         *)
(* credential accepted last.                                               *)
THEOREM ReviewIsFaithful == Spec => []ReviewFaithful
  <1>1. Inv => ReviewFaithful
    BY DEF Inv, Awaited, ReviewFaithful
  <1> QED
    BY BoothInvariant, <1>1, PTL
=============================================================================

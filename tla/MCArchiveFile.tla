--------------------------- MODULE MCArchiveFile ---------------------------
(* Small instances of ArchiveFile for TLC.                                 *)
EXTENDS ArchiveFile, TLC

CONSTANTS setup, b, tally, pd, srv, res

Start == <<Data(setup), Event("Setup", setup)>>
BallotBatch == <<Data(b), Event("Ballot", b)>>
TallyBatch ==
    <<Event("EndBallots", NoHash), Data(tally), Event("EncryptedTally", tally)>>
EndShufflesBatch == <<Event("EndShuffles", NoHash)>>
ShareBatch(x) == <<Data(x), Event("PartialDecryption", x)>>
ReleaseBatch == ShareBatch(srv) \o <<Data(res), Event("Result", res)>>

(* The batches of six handlers; validate_election, finish_shuffling and    *)
(* the posting of a partial decryption do not name the last event.         *)
MCChecked == {BallotBatch, TallyBatch, ReleaseBatch}
MCBatches == MCChecked \cup {Start, EndShufflesBatch, ShareBatch(pd)}

(* A hash function without collisions.                                     *)
MCHash(x) == x
=============================================================================

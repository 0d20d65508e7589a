------------------------------ MODULE MCUnits ------------------------------
(***************************************************************************)
(* Units of work: on a card's row, on ticket numbers and what hangs on      *)
(* them, on the files of a card, and on the daily quota of a user.  They    *)
(* share nothing: a behaviour follows the one that `part` names.  The row   *)
(* is on SQLite unless the configuration says otherwise.                    *)
(***************************************************************************)
EXTENDS CardTransactions

VARIABLES
    part,
    card, rows, next, shown, tx, calls,
    upload, attached, holder, disk, total, reserved, deleting,
    today, day, used, uploads

rowVars    == vars
numberVars == <<card, rows, next, shown, tx, calls>>
fileVars   == <<upload, attached, holder, disk, total, reserved, deleting>>
quotaVars  == <<today, day, used, uploads>>
partVars   == <<rowVars, numberVars, fileVars, quotaVars, part>>

\* Two cards and a call at a time, relations of both types; or three cards and
\* two calls at a time.
Tickets == INSTANCE CardDiscard WITH
    Numbers <- 1 .. 2, Requests <- {"r1"}, Types <- {"blocks", "relates_to"},
    Symmetric <- {"relates_to"}, Postgres <- FALSE, MaxCalls <- 6
TicketsOnPostgres == INSTANCE CardDiscard WITH
    Numbers <- 1 .. 3, Requests <- {"r1", "r2"}, Types <- {"relates_to"},
    Symmetric <- {"relates_to"}, Postgres <- TRUE, MaxCalls <- 5

\* One file more than fits, and two more than a card may list.
Blobs == {"a", "b", "c"}
Deleters == {"d", "e"}
Files == INSTANCE AttachmentBlobs WITH
    HighWater <- 2, MaxActive <- 1, Postgres <- FALSE, FirstColumn <- TRUE,
    Faults <- {"crash", "rm"}, rows <- attached, card <- holder
FilesOnPostgres == INSTANCE AttachmentBlobs WITH
    HighWater <- 2, MaxActive <- 1, Postgres <- TRUE, FirstColumn <- TRUE,
    Faults <- {"crash", "rm", "partialWrite"}, rows <- attached, card <- holder
\* Nothing fails; or the card never is in the first column, so none discards it.
FilesUnharmed == INSTANCE AttachmentBlobs WITH
    HighWater <- 2, MaxActive <- 1, Postgres <- FALSE, FirstColumn <- TRUE,
    Faults <- {}, rows <- attached, card <- holder
FilesOnBoard == INSTANCE AttachmentBlobs WITH
    HighWater <- 2, MaxActive <- 1, Postgres <- FALSE, FirstColumn <- FALSE,
    Faults <- {"crash", "rm"}, rows <- attached, card <- holder

Quota == INSTANCE UploadQuota WITH
    Uploads <- {"u", "v", "w"}, Sizes <- 1 .. 3, LimitBytes <- 4, MaxDay <- 2,
    SpansMidnight <- FALSE

-----------------------------------------------------------------------------
PartsInit ==
    /\ Init /\ Quota!Init
    /\ \/ part = "numbers on postgres" /\ TicketsOnPostgres!Init /\ Files!Init
       \/ part = "files on board" /\ FilesOnBoard!Init /\ Tickets!Init
       \/ part \in {"row", "numbers", "files", "files on postgres", "files unharmed", "quota"}
          /\ Tickets!Init /\ Files!Init

RowStep == part = "row" /\ Next /\ UNCHANGED <<numberVars, fileVars, quotaVars, part>>

NumberStep ==
    \/ part = "numbers" /\ Tickets!Next /\ UNCHANGED <<rowVars, fileVars, quotaVars, part>>
    \/ part = "numbers on postgres" /\ TicketsOnPostgres!Next
       /\ UNCHANGED <<rowVars, fileVars, quotaVars, part>>

FileStep ==
    /\ \/ part = "files" /\ Files!Next
       \/ part = "files on postgres" /\ FilesOnPostgres!Next
       \/ part = "files unharmed" /\ FilesUnharmed!Next
       \/ part = "files on board" /\ FilesOnBoard!Next
    /\ UNCHANGED <<rowVars, numberVars, quotaVars, part>>

QuotaStep == part = "quota" /\ Quota!Next /\ UNCHANGED <<rowVars, numberVars, fileVars, part>>

PartsNext == RowStep \/ NumberStep \/ FileStep \/ QuotaStep

PartsSpec == PartsInit /\ [][PartsNext]_partVars /\ Fairness

-----------------------------------------------------------------------------
\* Numbers and what hangs on them (CardDiscard): on SQLite a relation is there
\* once and a discard that passed its checks succeeds; on Postgres nothing
\* reaches a card it was not meant for and a failed discard takes nothing away.
\* On SQLite only a draft is discarded, as its creator last saw it.
NumbersHold ==
    /\ [](/\ part = "numbers" => Tickets!RelatedOnce /\ Tickets!DiscardsSucceed
          /\ part = "numbers on postgres" =>
                /\ TicketsOnPostgres!MeantForThisCard
                /\ TicketsOnPostgres!RelatedOnceEachWay
                /\ TicketsOnPostgres!TrailBeginsAtCreation)
    /\ [][part = "numbers" => Tickets!DiscardsDrafts]_partVars

\* Files and limits (AttachmentBlobs, UploadQuota): what is listed can be
\* downloaded, what nobody lists is deleted unless something failed, and no
\* limit is passed.
FilesInv ==
    /\ Files!BlobsTypeOK /\ Files!ListedHasBlob
    /\ part \in {"files", "files unharmed", "files on board"} => Files!ActiveWithinCap
    /\ part = "files unharmed" => Files!SettledDiskIsListed
    /\ part = "files on board" => Files!DiskWithinHighWater /\ Files!TotalCountsDisk
    /\ Quota!DailyLimit /\ Quota!CountsWhatWasAdmitted
=============================================================================

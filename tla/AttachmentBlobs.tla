-------------------------- MODULE AttachmentBlobs --------------------------
(***************************************************************************)
(* The files of one card: an upload reserves room under the high-water mark *)
(* (LocalBlobStore), stores its blob, and only then commits its row         *)
(* (AttachmentService.add); removal and discard commit first and delete the *)
(* blob afterwards.  No transaction spans the two stores: each step may     *)
(* fail alone, and the process may stop between any two of them.  A blob    *)
(* is one unit of disk.                                                     *)
(***************************************************************************)
EXTENDS Integers, FiniteSets

CONSTANTS
    Blobs,          \* storage keys: one for every upload there will be
    Deleters,       \* removals and discards in flight at once
    HighWater,      \* blobHighWaterBytes, in blobs
    MaxActive,      \* MAX_ACTIVE_ATTACHMENTS_PER_CARD
    Postgres,
    FirstColumn,    \* the card may stand in the first column
    Faults,         \* what may go wrong: "crash", "rm", "partialWrite"
    None

VARIABLES
    upload,     \* blob -> where its upload is
    rows,       \* blob -> its attachment row: "none", "live" or "deleted"
    card,       \* "first" column, "board", "archived" or "gone"
    disk,       \* the files in BLOB_DIR
    total,      \* LocalBlobStore.total
    reserved,   \* LocalBlobStore.reserved
    deleting    \* deleter -> the files it has left, and the one it has seen

vars == <<upload, rows, card, disk, total, reserved, deleting>>

Resting == [keys |-> {}, seen |-> None]
Live == {b \in Blobs : rows[b] = "live"}

Init ==
    /\ upload = [b \in Blobs |-> "new"]
    /\ rows = [b \in Blobs |-> "none"]
    /\ card = IF FirstColumn THEN "first" ELSE "board"
    /\ disk = {} /\ total = 0 /\ reserved = 0
    /\ deleting = [d \in Deleters |-> Resting]

Goes(b, stage) == upload' = [upload EXCEPT ![b] = stage]

(***************************************************************************)
(* Upload                                                                  *)
(***************************************************************************)

\* The check and the hold are one synchronous step.
Fits == total + reserved + 1 <= HighWater

Reserve(b) ==
    /\ upload[b] = "new"
    /\ Fits
    /\ reserved' = reserved + 1
    /\ Goes(b, "reserved")
    /\ UNCHANGED <<rows, card, disk, total, deleting>>

Put(b) ==
    /\ upload[b] = "reserved"
    /\ disk' = disk \cup {b}
    /\ total' = total + 1
    /\ Goes(b, "stored")
    /\ UNCHANGED <<rows, card, reserved, deleting>>

\* writeFile stops half way: put rejects outside of the `try`, so nothing
\* deletes what it left and nothing counts it.
PutFails(b) ==
    /\ "partialWrite" \in Faults
    /\ upload[b] = "reserved"
    /\ disk' = disk \cup {b}
    /\ reserved' = reserved - 1
    /\ Goes(b, "over")
    /\ UNCHANGED <<rows, card, total, deleting>>

MayAdd == card \in {"first", "board"} /\ Cardinality(Live) < MaxActive

\* Postgres: rows are counted in one statement and inserted in another.
Count(b) ==
    /\ Postgres
    /\ upload[b] = "stored"
    /\ MayAdd
    /\ Goes(b, "counted")
    /\ UNCHANGED <<rows, card, disk, total, reserved, deleting>>

MayInsert(b) ==
    IF Postgres THEN upload[b] = "counted" /\ card # "gone"
    ELSE upload[b] = "stored" /\ MayAdd

Insert(b) ==
    /\ MayInsert(b)
    /\ rows' = [rows EXCEPT ![b] = "live"]
    /\ reserved' = reserved - 1
    /\ Goes(b, "over")
    /\ UNCHANGED <<card, disk, total, deleting>>

\* An archived or discarded card, the cap; on Postgres the foreign key.
InsertRefused(b) ==
    /\ \/ upload[b] = "stored" /\ ~MayAdd
       \/ upload[b] = "counted" /\ card = "gone"
    /\ Goes(b, "cleanup")
    /\ UNCHANGED <<rows, card, disk, total, reserved, deleting>>

Without(b) == disk \ {b}

Cleanup(b) ==
    /\ upload[b] = "cleanup"
    /\ disk' = Without(b)
    /\ total' = total - 1
    /\ reserved' = reserved - 1
    /\ Goes(b, "over")
    /\ UNCHANGED <<rows, card, deleting>>

\* Best effort: the domain error goes on, the blob stays.
CleanupFails(b) ==
    /\ "rm" \in Faults
    /\ upload[b] = "cleanup"
    /\ reserved' = reserved - 1
    /\ Goes(b, "over")
    /\ UNCHANGED <<rows, card, disk, total, deleting>>

(***************************************************************************)
(* Removal and discard                                                     *)
(***************************************************************************)

RemoveUncommitted(d, b) ==
    /\ deleting[d] = Resting
    /\ rows[b] = "live"
    /\ deleting' = [deleting EXCEPT ![d].keys = {b}]
    /\ UNCHANGED <<upload, rows, card, disk, total, reserved>>
Remove(d, b) ==
    /\ deleting[d] = Resting
    /\ rows[b] = "live" /\ card \in {"first", "board"}
    /\ rows' = [rows EXCEPT ![b] = "deleted"]
    /\ deleting' = [deleting EXCEPT ![d].keys = {b}]
    /\ UNCHANGED <<upload, card, disk, total, reserved>>

\* The keys of all rows of the card, removed ones included.
Keys == {b \in Blobs : rows[b] # "none"}

Discard(d) ==
    /\ deleting[d] = Resting
    /\ card = "first"
    /\ card' = "gone"
    /\ rows' = [b \in Blobs |-> "none"]
    /\ deleting' = [deleting EXCEPT ![d].keys = Keys]
    /\ UNCHANGED <<upload, disk, total, reserved>>

\* LocalBlobStore.delete: stat first; a file already gone is left alone.
Stat(d) ==
    /\ deleting[d].seen = None
    /\ \E b \in deleting[d].keys :
          deleting' = IF b \in disk THEN [deleting EXCEPT ![d].seen = b]
                      ELSE [deleting EXCEPT ![d].keys = @ \ {b}]
    /\ UNCHANGED <<upload, rows, card, disk, total, reserved>>

Seen(d) == deleting[d].seen
Forget(d) == deleting' = [deleting EXCEPT ![d] = [keys |-> @.keys \ {@.seen}, seen |-> None]]

\* rm with `force`: no complaint if another deletion was faster.
Rm(d) ==
    /\ Seen(d) # None
    /\ disk' = Without(Seen(d))
    /\ total' = total - 1
    /\ Forget(d)
    /\ UNCHANGED <<upload, rows, card, reserved>>

RmFails(d) ==
    /\ "rm" \in Faults
    /\ Seen(d) # None
    /\ Forget(d)
    /\ UNCHANGED <<upload, rows, card, disk, total, reserved>>

(***************************************************************************)
(* The card, and crashes                                                   *)
(***************************************************************************)

MoveCard ==
    /\ \/ card = "first" /\ card' = "board"
       \/ card = "board" /\ FirstColumn /\ card' = "first"
       \/ card = "board" /\ card' = "archived"
       \/ card = "archived" /\ card' = "board"
    /\ UNCHANGED <<upload, rows, disk, total, reserved, deleting>>

InFlight(b) == upload[b] \notin {"new", "over"}

\* A write in progress may have left its file; a new process scans the
\* directory, and what was in flight is forgotten.
Crash ==
    /\ "crash" \in Faults
    /\ \E written \in SUBSET {b \in Blobs : upload[b] = "reserved"} : disk' = disk \cup written
    /\ upload' = [b \in Blobs |-> IF InFlight(b) THEN "over" ELSE upload[b]]
    /\ total' = Cardinality(disk')
    /\ reserved' = 0
    /\ deleting' = [d \in Deleters |-> Resting]
    /\ UNCHANGED <<rows, card>>

Next ==
    \/ \E b \in Blobs : \/ Reserve(b) \/ Put(b) \/ PutFails(b) \/ Count(b) \/ Insert(b)
                        \/ InsertRefused(b) \/ Cleanup(b) \/ CleanupFails(b)
    \/ \E d \in Deleters : \/ \E b \in Blobs : Remove(d, b)
                           \/ Discard(d) \/ Stat(d) \/ Rm(d) \/ RmFails(d)
    \/ MoveCard \/ Crash

Spec == Init /\ [][Next]_vars

(***************************************************************************)
(* Properties                                                              *)
(***************************************************************************)

Settled == (\A b \in Blobs : ~InFlight(b)) /\ \A d \in Deleters : deleting[d] = Resting

\* The reservations are those of the uploads in flight, and every row is of
\* an upload that stored its blob.
BlobsTypeOK ==
    /\ upload \in [Blobs -> {"new", "reserved", "stored", "counted", "cleanup", "over"}]
    /\ rows \in [Blobs -> {"none", "live", "deleted"}]
    /\ card \in {"first", "board", "archived", "gone"}
    /\ disk \subseteq Blobs
    /\ reserved = Cardinality({b \in Blobs : InFlight(b)})
    /\ \A b \in Blobs : rows[b] # "none" => upload[b] = "over"

\* Whatever fails and whenever the process stops, an attachment that is listed
\* can be downloaded.
ListedHasBlob == Live \subseteq disk

\* No more than MAX_ACTIVE_ATTACHMENTS_PER_CARD files are listed on a card.
ActiveWithinCap == Cardinality(Live) <= MaxActive

\* When nothing failed and nothing is in flight the disk holds the files that
\* are listed and no other: every refusal and every removal cleaned up.
SettledDiskIsListed == Settled => disk = Live

\* Concurrent uploads never fill the disk past the high-water mark, across
\* crashes and deletions that fail.
DiskWithinHighWater == Cardinality(disk) <= HighWater

\* The running total is what a scan of the directory would count.
TotalCountsDisk == Settled => total = Cardinality(disk)
=============================================================================

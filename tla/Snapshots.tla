-------------------------------- MODULE Snapshots --------------------------------
(***************************************************************************)
(* The saved queue: what save_app_state and load_app_state accept, the     *)
(* order that old versions get, and what a start does to the transfers     *)
(* that were running.                                                      *)
(*                                                                         *)
(* A snapshot is a version and a sequence of items, the newest first.  A   *)
(* time is present or not; a count of bytes or a place in the queue is a   *)
(* number or None; wellFormed stands for the fields in which no other      *)
(* field takes part: address, destination, name, checksum and settings.    *)
(*                                                                         *)
(* What an item adds to the length of the encoded snapshot is text, and    *)
(* error for its error message; added is what its file leaves out and a    *)
(* load fills in: the defaults of newer fields and the place in the queue. *)
(***************************************************************************)
EXTENDS Integers, Sequences, FiniteSets

CONSTANTS
  MaxDownloads,    \* MAX_DOWNLOADS
  MaxLength,       \* MAX_STATE_BYTES, less what is not an item
  NoticeLength     \* of "Interrupted by the previous app shutdown; ready to resume"

None == -1
SchemaVersion == 5
Pending == {"queued", "scheduled"}
Running == {"starting", "probing", "retrying", "downloading", "verifying", "extracting", "cancelling"}
Resting == {"paused", "completed", "cancelled", "failed"}

Snapshot == [version: Nat, downloads: Seq(
  [kind: STRING, status: STRING, selection: BOOLEAN, wellFormed: BOOLEAN,
   queuedAt: BOOLEAN, scheduledFor: BOOLEAN, sequence: Nat \cup {None},
   completedAt: BOOLEAN, downloaded: Nat, total: Nat \cup {None},
   text: Nat, added: Nat, error: Nat])]

\* StoredDownload::validate
ValidItem(d) ==
  /\ d.wellFormed
  /\ d.kind \in {"direct", "media", "torrent"}
  /\ d.selection => d.kind = "torrent"
  /\ d.status \in Pending \cup Running \cup Resting
  /\ d.status \in Pending => d.queuedAt /\ d.sequence # None
  /\ d.status = "scheduled" => d.scheduledFor
  /\ d.completedAt => d.status = "completed"
  /\ d.total # None => d.downloaded <= d.total

\* An old version's item that has to get its place in the queue.
Placeless(d) == d.status \in Pending /\ d.sequence = None

\* Slip: the places are given out from the first item on.
Migrated_Forward(s) ==
  LET items == s.downloads
      next[i \in 0 .. Len(items)] ==
        IF i = 0 THEN 0 ELSE next[i - 1] + (IF Placeless(items[i]) THEN 1 ELSE 0)
      place(i) == IF s.version < 3 /\ Placeless(items[i]) THEN next[i - 1] ELSE items[i].sequence
  IN  [version |-> SchemaVersion,
       downloads |-> [i \in 1 .. Len(items) |-> [items[i] EXCEPT
                         !.sequence = place(i), !.text = @ + items[i].added, !.added = 0]]]

\* Before version 3 the places follow from the order: the last item is the oldest.
Migrated(s) ==
  LET items == s.downloads
      next[i \in 1 .. Len(items) + 1] ==       \* next_sequence when item i - 1 is reached
        IF i > Len(items) THEN 0 ELSE next[i + 1] + (IF Placeless(items[i]) THEN 1 ELSE 0)
      place(i) == IF s.version < 3 /\ Placeless(items[i]) THEN next[i + 1] ELSE items[i].sequence
  IN  [version |-> SchemaVersion,
       downloads |-> [i \in 1 .. Len(items) |-> [items[i] EXCEPT
                         !.sequence = place(i), !.text = @ + items[i].added, !.added = 0]]]

NoPlaceTwice(items) ==
  \A i, j \in DOMAIN items:
    i # j /\ items[i].sequence = items[j].sequence => items[i].sequence = None

\* AppSnapshot::validate
Accepts(s) ==
  LET items == Migrated(s).downloads IN
  /\ s.version <= SchemaVersion
  /\ Len(s.downloads) <= MaxDownloads
  /\ \A i \in DOMAIN s.downloads: ValidItem(items[i])
  /\ NoPlaceTwice(items)

\* The length of the encoded snapshot, and whether a load reads that much.
Length(s) ==
  LET items == s.downloads
      upTo[i \in 0 .. Len(items)] ==
        IF i = 0 THEN 0 ELSE upTo[i - 1] + items[i].text + items[i].error
  IN  upTo[Len(items)]
Fits(s) == Length(s) <= MaxLength

\* What save_app_state does not refuse.
Savable(s) == Accepts(s) /\ Fits(Migrated(s))

\* What a load hands to the front end: nothing is running at the start, and the
\* user is told so.
Opened(s) ==
  LET migrated == Migrated(s) IN
  [migrated EXCEPT !.downloads = [i \in DOMAIN s.downloads |->
     LET d == migrated.downloads[i]
     IN  IF d.status \in Running THEN [d EXCEPT !.status = "paused", !.error = NoticeLength]
                                ELSE d]]
=============================================================================

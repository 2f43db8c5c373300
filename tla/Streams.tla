------------------------------ MODULE Streams ------------------------------
(***************************************************************************)
(* How the changes of a device reach the other devices: outbox, segments,  *)
(* upload queue, the folder that a cloud client copies file by file, and   *)
(* the reader's position in the stream.                                    *)
(*                                                                         *)
(* The streams of different authors and scopes do not influence each       *)
(* other, so an author here is one stream.  The ops of an author are       *)
(* numbered in the order it committed them: the outbox is the interval     *)
(* sent + 1 .. made and the content of a segment is an interval from + 1   *)
(* .. to.  Signatures, permissions and cutoffs are the subject of other    *)
(* modules: here every complete file verifies and an incomplete one does   *)
(* not.                                                                    *)
(***************************************************************************)
EXTENDS Integers, Sequences, FiniteSets

CONSTANTS Author,       \* streams
          Reader,       \* devices that pull them
          MaxAttempts,  \* rejections before quarantine (DefaultMaxAttempts)
          MaxMade,      \* bound: ops per author
          MaxRestores   \* bound: backups restored per author

ASSUME StreamsAssumption ==
  /\ MaxAttempts \in Nat \ {0}
  /\ MaxMade \in Nat /\ MaxRestores \in Nat

VARIABLES
  made,    \* made[a]: number of ops the author has committed
  sent,    \* sent[a]: ops up to this one have left sync_outbox
  batch,   \* batch[a]: last op of the outbox as flush read it, 0 if no flush runs
  own,     \* own[a]: seq of the author's own row in sync_streams
  queue,   \* queue[a]: files in sync_uploads
  folder,  \* folder[a]: files of the stream in the author's copy of the folder
  partial, \* partial[r][a]: seqs of files that have arrived at r in part
  full,    \* full[r][a]: seqs of files that are complete at r
  pos,     \* pos[r][a]: seq of the reader's row in sync_streams
  got,     \* got[r][a]: the author's ops that r has applied, in that order
  status,  \* status[r][a]: the status of that row
  fails,   \* fails[r][a]: its failures
  life,    \* life[a]: how many times a backup was restored (observer)
  backup   \* backup[a]: the author's database as it was backed up

authorVars == <<made, sent, batch, own, queue, folder>>
readerVars == <<partial, full, pos, got, status, fails>>
restoreVars == <<life, backup>>
streamVars == <<authorVars, readerVars, restoreVars>>

File == [seq : Nat, from : Nat, to : Nat, life : Nat]

Database(a) == [made |-> made[a], sent |-> sent[a], own |-> own[a], queue |-> queue[a]]

StreamInit ==
  /\ made = [a \in Author |-> 0]
  /\ sent = [a \in Author |-> 0]
  /\ batch = [a \in Author |-> 0]
  /\ own = [a \in Author |-> 0]
  /\ queue = [a \in Author |-> {}]
  /\ folder = [a \in Author |-> {}]
  /\ partial = [r \in Reader |-> [a \in Author |-> {}]]
  /\ full = [r \in Reader |-> [a \in Author |-> {}]]
  /\ pos = [r \in Reader |-> [a \in Author |-> 0]]
  /\ got = [r \in Reader |-> [a \in Author |-> << >>]]
  /\ status = [r \in Reader |-> [a \in Author |-> "ok"]]
  /\ fails = [r \in Reader |-> [a \in Author |-> 0]]
  /\ life = [a \in Author |-> 0]
  /\ backup = [a \in Author |-> Database(a)]
-----------------------------------------------------------------------------
(* The author. *)

(* A local write commits one op to the outbox, also while a flush runs. *)
LocalWrite(a) ==
  /\ made[a] < MaxMade
  /\ made' = [made EXCEPT ![a] = @ + 1]
  /\ UNCHANGED <<sent, batch, own, queue, folder, readerVars, restoreVars>>

(* readOutbox runs before the transaction of flush. *)
FlushRead(a) ==
  /\ batch[a] = 0
  /\ sent[a] < made[a]
  /\ batch' = [batch EXCEPT ![a] = made[a]]
  /\ UNCHANGED <<made, sent, own, queue, folder, readerVars, restoreVars>>

(* The ways to cut the ops lo + 1 .. hi into segments: the last op of each. *)
Cuts(lo, hi) ==
  {ends \in UNION {[1 .. n -> (lo + 1) .. hi] : n \in 1 .. (hi - lo)} :
     /\ ends[Len(ends)] = hi
     /\ \A i, j \in 1 .. Len(ends) : i < j => ends[i] < ends[j]}

Segment(a, ends, i) ==
  [seq  |-> own[a] + i,
   from |-> IF i = 1 THEN sent[a] ELSE ends[i - 1],
   to   |-> ends[i],
   life |-> life[a]]

(* writeBatch, in one transaction: the segments are queued, the position   *)
(* is moved and the entries that were read leave the outbox.               *)
FlushForgettingSeq(a) ==
  /\ batch[a] # 0
  /\ \E ends \in Cuts(sent[a], batch[a]) :
       queue' = [queue EXCEPT ![a] = @ \cup {Segment(a, ends, i) : i \in 1 .. Len(ends)}]
  /\ sent' = [sent EXCEPT ![a] = batch[a]]
  /\ batch' = [batch EXCEPT ![a] = 0]
  /\ UNCHANGED <<made, own, folder, readerVars, restoreVars>>

FlushClearingOutbox(a) ==
  /\ batch[a] # 0
  /\ \E ends \in Cuts(sent[a], batch[a]) :
       /\ queue' = [queue EXCEPT ![a] = @ \cup {Segment(a, ends, i) : i \in 1 .. Len(ends)}]
       /\ own' = [own EXCEPT ![a] = @ + Len(ends)]
  /\ sent' = [sent EXCEPT ![a] = made[a]]
  /\ batch' = [batch EXCEPT ![a] = 0]
  /\ UNCHANGED <<made, folder, readerVars, restoreVars>>

FlushCommit(a) ==
  /\ batch[a] # 0
  /\ \E ends \in Cuts(sent[a], batch[a]) :
       /\ queue' = [queue EXCEPT ![a] = @ \cup {Segment(a, ends, i) : i \in 1 .. Len(ends)}]
       /\ own' = [own EXCEPT ![a] = @ + Len(ends)]
  /\ sent' = [sent EXCEPT ![a] = batch[a]]
  /\ batch' = [batch EXCEPT ![a] = 0]
  /\ UNCHANGED <<made, folder, readerVars, restoreVars>>

(* Upload takes the queued files in path order, which is the order of seq, *)
(* and stops the stream at a file it cannot create.                        *)
NextUpload(a, f) == f \in queue[a] /\ \A g \in queue[a] : f.seq <= g.seq

Taken(a, f) == \E g \in folder[a] : g.seq = f.seq

UploadCreate(a, f) ==
  /\ NextUpload(a, f)
  /\ ~ Taken(a, f)
  /\ folder' = [folder EXCEPT ![a] = @ \cup {f}]
  /\ UNCHANGED <<made, sent, batch, own, queue, readerVars, restoreVars>>

(* The file is there with these bytes, from this attempt or from one that  *)
(* was cut off: the queue forgets it.                                      *)
UploadDone(a, f) ==
  /\ NextUpload(a, f)
  /\ f \in folder[a]
  /\ queue' = [queue EXCEPT ![a] = @ \ {f}]
  /\ UNCHANGED <<made, sent, batch, own, folder, readerVars, restoreVars>>

(* The process ends in the middle of a sync. *)
Crash(a) ==
  /\ batch[a] # 0
  /\ batch' = [batch EXCEPT ![a] = 0]
  /\ UNCHANGED <<made, sent, own, queue, folder, readerVars, restoreVars>>
-----------------------------------------------------------------------------
(* The cloud client of a reader: files arrive in any order, and a reader   *)
(* may see a file before all of it is there.                               *)

ArriveInPart(r, a, f) ==
  /\ f \in folder[a] /\ f.seq \notin partial[r][a] \cup full[r][a]
  /\ partial' = [partial EXCEPT ![r][a] = @ \cup {f.seq}]
  /\ UNCHANGED <<authorVars, full, pos, got, status, fails, restoreVars>>

Arrive(r, a, f) ==
  /\ f \in folder[a] /\ f.seq \notin full[r][a]
  /\ full' = [full EXCEPT ![r][a] = @ \cup {f.seq}]
  /\ partial' = [partial EXCEPT ![r][a] = @ \ {f.seq}]
  /\ UNCHANGED <<authorVars, pos, got, status, fails, restoreVars>>
-----------------------------------------------------------------------------
(* The reader: one round of the loop of pullStream, by what it finds at    *)
(* the next seq.  A quarantined stream is left alone.                      *)

Visible(r, a) == partial[r][a] \cup full[r][a]

SetStatus(r, a, st, n) ==
  /\ status' = [status EXCEPT ![r][a] = st]
  /\ fails' = [fails EXCEPT ![r][a] = n]
  /\ UNCHANGED <<authorVars, partial, full, pos, got, restoreVars>>

PullGap(r, a) ==
  /\ status[r][a] # "quarantined"
  /\ pos[r][a] + 1 \notin Visible(r, a)
  /\ \E q \in Visible(r, a) : q > pos[r][a] + 1
  /\ SetStatus(r, a, "waiting", fails[r][a])

PullUpToDate(r, a) ==
  /\ status[r][a] # "quarantined"
  /\ pos[r][a] + 1 \notin Visible(r, a)
  /\ \A q \in Visible(r, a) : q <= pos[r][a]
  /\ SetStatus(r, a, "ok", 0)

PullIncompleteForGood(r, a) ==
  /\ status[r][a] # "quarantined"
  /\ pos[r][a] + 1 \in partial[r][a]
  /\ SetStatus(r, a, "quarantined", fails[r][a] + 1)

(* Engine.fail: the incomplete file does not verify. *)
PullIncomplete(r, a) ==
  /\ status[r][a] # "quarantined"
  /\ pos[r][a] + 1 \in partial[r][a]
  /\ SetStatus(r, a, IF fails[r][a] + 1 >= MaxAttempts THEN "quarantined" ELSE "waiting",
               fails[r][a] + 1)

IsAhead(r, a, f) == f \in folder[a] /\ f.seq > pos[r][a] /\ f.seq \in full[r][a]

(* The file that readers apply after seq n. *)
IsNext(r, a, f) == f \in folder[a] /\ f.seq = pos[r][a] + 1 /\ f.seq \in full[r][a]

(* The ops of a segment, in order. *)
Ops(f) == [i \in 1 .. (f.to - f.from) |-> f.from + i]

(* Engine.apply, in one transaction with the position. *)
PullApply(r, a, f) ==
  /\ status[r][a] # "quarantined"
  /\ IsNext(r, a, f)
  /\ pos' = [pos EXCEPT ![r][a] = f.seq]
  /\ got' = [got EXCEPT ![r][a] = @ \o Ops(f)]
  /\ status' = [status EXCEPT ![r][a] = "ok"]
  /\ fails' = [fails EXCEPT ![r][a] = 0]
  /\ UNCHANGED <<authorVars, partial, full, restoreVars>>
-----------------------------------------------------------------------------
Upload(a) == \E f \in queue[a] : UploadCreate(a, f) \/ UploadDone(a, f)

Deliver(r, a) == \E f \in folder[a] : ArriveInPart(r, a, f) \/ Arrive(r, a, f)

Pull(r, a) == \/ PullGap(r, a) \/ PullUpToDate(r, a) \/ PullIncomplete(r, a)
              \/ \E f \in folder[a] : PullApply(r, a, f)

StreamNext == \E a \in Author :
          \/ LocalWrite(a) \/ FlushRead(a) \/ FlushCommit(a) \/ Upload(a) \/ Crash(a)
          \/ \E r \in Reader : Deliver(r, a) \/ Pull(r, a)

StreamSpec == StreamInit /\ [][StreamNext]_streamVars

(* A device that is used syncs every 30 seconds, and the cloud client goes *)
(* on until every file is complete.                                        *)
FairSpec == /\ StreamSpec
            /\ \A a \in Author :
                 /\ WF_streamVars(FlushRead(a)) /\ SF_streamVars(FlushCommit(a)) /\ WF_streamVars(Upload(a))
                 /\ \A r \in Reader : WF_streamVars(Pull(r, a))
                 /\ \A r \in Reader : WF_streamVars(\E f \in folder[a] : Arrive(r, a, f))
-----------------------------------------------------------------------------
(* The backup page of the settings: the database is copied, and later put  *)
(* back, with the sync state as it was.  What was uploaded stays where it  *)
(* is.                                                                     *)
Backup(a) ==
  /\ backup' = [backup EXCEPT ![a] = Database(a)]
  /\ UNCHANGED <<authorVars, readerVars, life>>

Restore(a) ==
  /\ life[a] < MaxRestores
  /\ life' = [life EXCEPT ![a] = @ + 1]
  /\ made' = [made EXCEPT ![a] = backup[a].made]
  /\ sent' = [sent EXCEPT ![a] = backup[a].sent]
  /\ own' = [own EXCEPT ![a] = backup[a].own]
  /\ queue' = [queue EXCEPT ![a] = backup[a].queue]
  /\ batch' = [batch EXCEPT ![a] = 0]
  /\ UNCHANGED <<folder, readerVars, backup>>

SpecWithRestore ==
  StreamInit /\ [][StreamNext \/ \E a \in Author : Backup(a) \/ Restore(a)]_streamVars
-----------------------------------------------------------------------------
StreamTypeOK ==
  /\ made \in [Author -> Nat] /\ sent \in [Author -> Nat]
  /\ batch \in [Author -> Nat] /\ own \in [Author -> Nat]
  /\ queue \in [Author -> SUBSET File] /\ folder \in [Author -> SUBSET File]
  /\ partial \in [Reader -> [Author -> SUBSET Nat]]
  /\ full \in [Reader -> [Author -> SUBSET Nat]]
  /\ pos \in [Reader -> [Author -> Nat]]
  /\ got \in [Reader -> [Author -> Seq(Nat)]]
  /\ status \in [Reader -> [Author -> {"ok", "waiting", "quarantined"}]]
  /\ fails \in [Reader -> [Author -> Nat]]
  /\ life \in [Author -> Nat]
  /\ \A r \in Reader, a \in Author :
        status[r][a] = "quarantined" <=> fails[r][a] >= MaxAttempts

Files(a) == queue[a] \cup folder[a]

(* A seq of a stream names one file for ever: what is queued for upload    *)
(* never differs from what is already in the folder, whatever was cut off  *)
(* in between.  (If it did, the upload would be blocked for good.)         *)
SeqNeverReused ==
  \A a \in Author : \A f, g \in Files(a) : f.seq = g.seq => f = g

(* No change is lost or sent twice: the segments written so far cut the    *)
(* committed ops up to the outbox into consecutive pieces.                 *)
SegmentsCoverOps ==
  \A a \in Author :
    /\ sent[a] <= made[a]
    /\ own[a] = 0 => sent[a] = 0
    /\ \A f \in Files(a) : f.seq \in 1 .. own[a] /\ f.from < f.to /\ f.to <= sent[a]
    /\ \A n \in 1 .. own[a] : \E f \in Files(a) : f.seq = n
    /\ \A f \in Files(a) : /\ f.seq = 1 => f.from = 0
                           /\ f.seq = own[a] => f.to = sent[a]
    /\ \A f, g \in Files(a) : g.seq = f.seq + 1 => g.from = f.to

(* The abstract log that the exchange of files implements. *)
Log == INSTANCE OpLog WITH
  Author <- Author, Reader <- Reader, made <- made, got <- got

(* A reader applies the author's ops in the order they were made, none     *)
(* left out and each once, whatever order the files arrive in; and its     *)
(* position in the stream names exactly the ops it has applied.            *)
AppliedInOrder ==
  \A r \in Reader, a \in Author :
     /\ got[r][a] = Log!Prefix(Len(got[r][a]))
     /\ pos[r][a] <= own[a]
     /\ pos[r][a] = 0 => got[r][a] = << >>
     /\ \A f \in Files(a) : /\ f.seq = pos[r][a] + 1 => f.from = Len(got[r][a])
                            /\ f.seq = pos[r][a] => f.to = Len(got[r][a])

(* Outbox, segments, uploads and pulls together implement the log: every   *)
(* step commits an op, extends what a reader has applied to a longer       *)
(* prefix, or changes nothing that the log shows.                          *)
ImplementsLog == Log!Spec

(* Everything an author has committed gets to every reader, unless the     *)
(* reader has quarantined the stream because a file stayed incomplete for  *)
(* MaxAttempts pulls.                                                      *)
EveryOpArrives ==
  \A r \in Reader, a \in Author : \A n \in 1 .. MaxMade :
     made[a] >= n ~> (Len(got[r][a]) >= n \/ status[r][a] = "quarantined")

=============================================================================

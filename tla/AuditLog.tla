------------------------------ MODULE AuditLog ------------------------------
(***************************************************************************)
(* DurableAuditLog of luv_safety.hpp: an append-only file of hash-chained  *)
(* events, synchronised every few appends, checked when it is opened, with *)
(* checkpoints in a manifest file.                                         *)
(*                                                                         *)
(* A digest is modelled by what was hashed, so that equal digests come     *)
(* from equal chains.  A crash keeps any part of the file beyond what was  *)
(* synchronised; a failed synchronisation leaves that boundary where it    *)
(* was.  Once part of an event is in the file nothing behind it can be     *)
(* read as events: file holds the events before it.                        *)
(***************************************************************************)
EXTENDS Naturals, Sequences, FiniteSets, SequencesExt

CONSTANTS
    Bodies,         \* what the events say: order, price, quantity, side, type
    SyncInterval,   \* sync_interval
    MaxEvents,      \* bound on the events in the file
    MaxCheckpoints, \* bound on the checkpoints
    MaxAuditFaults  \* bound on crashes and on writes and flushes that fail

ASSUME AuditAssumption ==
    /\ SyncInterval \in Nat \ {0}
    /\ {MaxEvents, MaxCheckpoints, MaxAuditFaults} \subseteq Nat

VARIABLES
    file,        \* the events of the log file that can be read
    torn,        \* part of an event follows them
    synced,      \* how many events a crash keeps
    log,         \* the members of the log, open or not
    manifest,    \* the checkpoints of the manifest file
    faults,      \* history: faults so far
    promised     \* history: positions append() reported written since open()

auditVars == <<file, torn, synced, log, manifest, faults, promised>>

Closed_ == [open |-> FALSE, sequence |-> 0, tail |-> <<>>, pending |-> 0]

Digest(previous, sequence, body) == Append(previous, <<sequence, body>>)

Event(sequence, previous, body) ==
    [sequence |-> sequence, body |-> body, previous_hash |-> previous,
     hash |-> Digest(previous, sequence, body)]

valid_event(e) == e.hash = Digest(e.previous_hash, e.sequence, e.body)

PreviousHash(f, i) == IF i = 1 THEN <<>> ELSE f[i - 1].hash

\* validate_existing_records and verify_log_integrity make the same walk.
verify_log_integrity(f) ==
    \A i \in DOMAIN f : /\ f[i].sequence = i - 1
                        /\ f[i].previous_hash = PreviousHash(f, i)
                        /\ valid_event(f[i])

\* The field flushed is history: whether the flush before it succeeded.
Checkpoint(f, first, last, flushed) ==
    [flushed |-> flushed, start |-> first, end |-> last, start_hash |-> f[first + 1].previous_hash,
     end_hash |-> f[last + 1].hash]

\* Only the first checkpoint of the manifest file is read.
verify_manifest(f, checkpoints) ==
    /\ checkpoints # <<>>
    /\ LET c == checkpoints[1]
       IN  /\ c.end < Len(f)
           /\ \A i \in c.start + 1 .. c.end + 1 :
                /\ f[i].previous_hash = IF i = c.start + 1 THEN c.start_hash ELSE f[i - 1].hash
                /\ valid_event(f[i])
           /\ f[c.end + 1].hash = c.end_hash

-----------------------------------------------------------------------------
AuditInit ==
    /\ file = <<>> /\ torn = FALSE /\ synced = 0
    /\ log = Closed_
    /\ manifest = <<>>
    /\ faults = 0
    /\ promised = {}

Fault == faults < MaxAuditFaults /\ faults' = faults + 1

open ==
    /\ ~log.open
    /\ ~torn /\ verify_log_integrity(file)
    /\ log' = [open |-> TRUE, sequence |-> Len(file), tail |-> PreviousHash(file, Len(file) + 1),
               pending |-> 0]
    /\ promised' = {}
    /\ UNCHANGED <<file, torn, synced, manifest, faults>>

\* fsync() of the whole file, or its failure.
flush_kept == synced' = Len(file') /\ UNCHANGED faults

flush_failed == Fault /\ UNCHANGED synced

\* Mutant: the members move on before the write is known to have succeeded.
AdvancedFirst(l, e) == [l EXCEPT !.sequence = @ + 1, !.tail = e.hash]

\* What a write that failed leaves of the members.
Unwritten(l, e) == l

Advanced(l, e) == [l EXCEPT !.sequence = @ + 1, !.tail = e.hash, !.pending = @ + 1]

\* Mutant: the file is synchronised one event too late.
DueLate(l) == l.pending > SyncInterval

SyncDue(l) == l.pending >= SyncInterval

\* append() writes the event, moves on and flushes when enough are pending.
append(body) ==
    LET e == Event(log.sequence, log.tail, body)
        l == Advanced(log, e)
    IN  /\ log.open /\ log.sequence < MaxEvents
        /\ file' = IF torn THEN file ELSE Append(file, e)
        /\ \/ /\ ~SyncDue(l)
              /\ log' = l
              /\ promised' = promised \cup {Len(file')}
              /\ UNCHANGED <<synced, faults>>
           \/ /\ SyncDue(l) /\ flush_kept
              /\ log' = [l EXCEPT !.pending = 0]
              /\ promised' = promised \cup {Len(file')}
           \/ /\ SyncDue(l) /\ flush_failed
              /\ log' = l
              /\ UNCHANGED promised
        /\ UNCHANGED <<torn, manifest>>

\* write() fails at once or after part of the event.
append_failed(body) ==
    /\ log.open
    /\ Fault
    /\ torn' \in {torn, TRUE}
    /\ log' = Unwritten(log, Event(log.sequence, log.tail, body))
    /\ UNCHANGED <<file, synced, manifest, promised>>

flush ==
    /\ log.open
    /\ UNCHANGED <<file, torn, manifest, promised>>
    /\ \/ flush_kept /\ log' = [log EXCEPT !.pending = 0]
       \/ flush_failed /\ UNCHANGED log

\* close() ignores what its flush answers.
close ==
    /\ log.open
    /\ UNCHANGED <<file, torn, manifest>>
    /\ flush_kept \/ flush_failed
    /\ log' = Closed_
    /\ promised' = {}

\* Mutant: the checkpoint is written without flushing the log.
CheckpointUnflushed == UNCHANGED <<synced, faults, log>>

CheckpointFlush == flush_kept /\ log' = [log EXCEPT !.pending = 0]

\* write_manifest_checkpoint flushes, reads both ends back and appends.  It
\* goes on when the flush fails.
write_manifest_checkpoint(first, last) ==
    /\ log.open /\ ~torn /\ first <= last /\ last < log.sequence
    /\ UNCHANGED <<file, torn, promised>>
    /\ \/ /\ CheckpointFlush
          /\ manifest' = Append(manifest, Checkpoint(file, first, last, TRUE))
       \/ /\ flush_failed /\ UNCHANGED log
          /\ manifest' = Append(manifest, Checkpoint(file, first, last, FALSE))

\* A crash keeps what was synchronised and any part of the rest.
AuditCrash ==
    /\ Fault
    /\ \E n \in synced .. Len(file) :
        /\ file' = SubSeq(file, 1, n)
        /\ synced' = n
        /\ torn' \in IF n < Len(file) THEN BOOLEAN ELSE {torn, FALSE}
    /\ log' = Closed_
    /\ promised' = {}
    /\ UNCHANGED manifest

AuditNext ==
    \/ open \/ flush \/ close \/ AuditCrash
    \/ \E body \in Bodies : append(body) \/ append_failed(body)
    \/ /\ Len(manifest) < MaxCheckpoints
       /\ \E first, last \in 0 .. MaxEvents - 1 : write_manifest_checkpoint(first, last)

-----------------------------------------------------------------------------
(***************************************************************************)
(* Properties.                                                             *)
(***************************************************************************)

\* Unless a write was torn the file is one valid chain after every failure and
\* crash, so that open() accepts it, and an open log goes on where it ends.
ChainContinues ==
    ~torn =>
        /\ verify_log_integrity(file)
        /\ log.open => /\ log.sequence = Len(file)
                       /\ log.tail = PreviousHash(file, Len(file) + 1)

\* A crash loses fewer events that append() reported written since open() than
\* the interval, failed flushes included.
LossBounded ==
    ~torn => Cardinality({i \in promised : i > synced}) < SyncInterval

\* A checkpoint whose flush succeeded verifies for ever: no later failure or
\* crash, and nothing appended afterwards, takes its events away.
CheckpointHolds ==
    manifest # <<>> /\ manifest[1].flushed => verify_manifest(file, manifest)

\* The trail keeps what it promised through failed writes, failed flushes,
\* crashes and restarts.
AuditSound == ChainContinues /\ LossBounded /\ CheckpointHolds
=============================================================================

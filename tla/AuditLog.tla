------------------------------ MODULE AuditLog ------------------------------
(***************************************************************************)
(* The audit log: callers on several threads record decisions; a record is *)
(* sealed into a hash chain and handed to a sink in memory, in a JSONL     *)
(* file, or in a write-once file with a sidecar manifest                   *)
(* (crates/mim-audit/src/log.rs, chain.rs, worm.rs).  The process may stop *)
(* at any point of an append and the medium may refuse a write.            *)
(*                                                                         *)
(* A hash is the list of everything hashed into it, so hashes are equal    *)
(* exactly when their inputs are.  The length of a file is its number of   *)
(* pieces: whole lines, and what is left of a line whose write was cut     *)
(* short.  A write cut exactly before its newline is not modelled.         *)
(***************************************************************************)
EXTENDS Integers, Sequences, FiniteSets

CONSTANTS
    Caller,    \* threads that share the log
    Setups,    \* the deployments considered
    Fragment,  \* the beginning of a line, without its newline
    Spoiled,   \* a fragment and the whole line written behind it
    MaxRecords \* records made in all: the model's bound

\* How a log is deployed: its sink; whether a process opens it with
\* AuditLog::memory, ::file or ::worm ("open") or with load_from_file
\* ("reload"); and which failures occur.
Setup == [sink: {"memory", "file", "worm"}, startup: {"open", "reload"},
          faults: SUBSET {"crash", "write_error", "sign_error"}]

Genesis  == <<>>
NoRecord == 0
Record   == 1..MaxRecords
Hash     == Seq(Record)
Envelope == [record: Record, previous: Hash]
Debris   == {Fragment, Spoiled}

ASSUME AuditAssumption ==
    /\ Setups \subseteq Setup
    /\ \A s \in Setups : s.startup = "reload" => s.sink = "file"
    /\ MaxRecords \in Nat
    /\ Fragment \notin Envelope /\ Spoiled \notin Envelope /\ Fragment # Spoiled

RecordHash(e) == Append(e.previous, e.record)

NoManifest == [byte_length |-> -1, last_record_hash |-> Genesis]

VARIABLES
    setup,     \* the deployment, which never changes
    running,   \* whether a process has the log open
    previous,  \* chain.previous_hash
    envelopes, \* chain.envelopes
    records,   \* what the memory sink was given
    file,      \* pieces of the JSONL file
    manifest,  \* the sidecar file of the WORM sink, or NoManifest
    state,     \* the WORM sink's manifest in memory
    sealing,   \* sealing[c]: the record caller c has handed to the sink and not sealed
    made,      \* records made so far
    acked      \* records whose record() call returned Ok

logVars == <<setup, running, previous, envelopes, records, file, manifest, state,
          sealing, made, acked>>

Sink        == setup.sink
Startup     == setup.startup
SetupFaults == setup.faults

LogInit ==
    /\ setup \in Setups
    /\ running = FALSE
    /\ previous = Genesis
    /\ envelopes = <<>>
    /\ records = <<>>
    /\ file = <<>>
    /\ manifest = NoManifest
    /\ state = NoManifest
    /\ sealing = [c \in Caller |-> NoRecord]
    /\ made = 0
    /\ acked = {}

-----------------------------------------------------------------------------
Parsable(f) == \A k \in DOMAIN f : f[k] \notin Debris

LastHash(f) == IF f = <<>> THEN Genesis ELSE RecordHash(f[Len(f)])

\* The manifest a WORM sink starts from: the sidecar, or what a scan of the
\* file finds.
OpeningState ==
    IF manifest # NoManifest THEN manifest
    ELSE [byte_length |-> Len(file), last_record_hash |-> LastHash(file)]

\* verify_file_length, and the parse of a file without a sidecar.
WormOpens == IF manifest # NoManifest THEN manifest.byte_length = Len(file)
                                      ELSE Parsable(file)

\* AuditLog::new behind ::memory, ::file and ::worm: the chain starts at
\* GENESIS, whatever the sink already holds.
Open ==
    /\ ~running
    /\ Startup = "open"
    /\ Sink = "worm" => WormOpens
    /\ running' = TRUE
    /\ previous' = Genesis
    /\ envelopes' = <<>>
    /\ state' = IF Sink = "worm" THEN OpeningState ELSE state
    /\ manifest' = IF Sink = "worm" THEN OpeningState ELSE manifest
    /\ UNCHANGED <<records, file, sealing, made, acked>>

\* Slip: a reloaded log starts a new chain.
ReloadAfresh ==
    /\ ~running
    /\ Startup = "reload"
    /\ Parsable(file)
    /\ running' = TRUE
    /\ previous' = Genesis
    /\ envelopes' = file
    /\ UNCHANGED <<records, file, manifest, state, sealing, made, acked>>

\* load_from_file: the chain continues from the last line; a line that does not
\* parse is an error.
Reload ==
    /\ ~running
    /\ Startup = "reload"
    /\ Parsable(file)
    /\ running' = TRUE
    /\ previous' = LastHash(file)
    /\ envelopes' = file
    /\ UNCHANGED <<records, file, manifest, state, sealing, made, acked>>

-----------------------------------------------------------------------------
\* The first half of record: append_record, outside the chain lock.
Begin(c) ==
    /\ running
    /\ sealing[c] = NoRecord
    /\ made < MaxRecords
    /\ made' = made + 1
    /\ sealing' = [sealing EXCEPT ![c] = made + 1]
    /\ records' = IF Sink = "memory" THEN Append(records, made + 1) ELSE records
    /\ UNCHANGED <<running, previous, envelopes, file, manifest, state, acked>>

Seal(c) == [record |-> sealing[c], previous |-> previous]

EndsInFragment == file # <<>> /\ file[Len(file)] = Fragment

\* O_APPEND writes behind whatever the file ends in: behind a fragment, the
\* new line and the fragment become one line that does not parse.
Written(e) ==
    CASE Sink = "memory" -> file
      [] Sink # "memory" /\ EndsInFragment -> [file EXCEPT ![Len(file)] = Spoiled]
      [] OTHER -> Append(file, e)

\* A write cut short; behind a fragment it only lengthens the fragment.
Cut == IF EndsInFragment THEN file ELSE Append(file, Fragment)

\* The WORM sink refuses to append to a file whose length it does not expect.
SinkAccepts == running /\ (Sink = "worm" => state.byte_length = Len(file))

Grown(e) == IF Sink = "worm"
            THEN [byte_length |-> Len(file) + 1, last_record_hash |-> RecordHash(e)]
            ELSE state

\* Slip: the caller's record is not kept between the two halves.
CommitUnasked(c) ==
    /\ SinkAccepts
    /\ file' = Written(Seal(c))
    /\ previous' = RecordHash(Seal(c))
    /\ envelopes' = Append(envelopes, Seal(c))
    /\ acked' = acked \cup {sealing[c]}
    /\ sealing' = [sealing EXCEPT ![c] = NoRecord]
    /\ UNCHANGED <<running, records, manifest, state, made>>

\* Slip: the sidecar is left to be written with the next line.
CommitUnsealed(c) ==
    /\ SinkAccepts
    /\ sealing[c] # NoRecord
    /\ file' = Written(Seal(c))
    /\ state' = Grown(Seal(c))
    /\ previous' = RecordHash(Seal(c))
    /\ envelopes' = Append(envelopes, Seal(c))
    /\ acked' = acked \cup {sealing[c]}
    /\ sealing' = [sealing EXCEPT ![c] = NoRecord]
    /\ UNCHANGED <<running, records, manifest, made>>

\* The second half, under the chain lock: seal, append, advance the chain.  The
\* lock is taken not to be poisoned: no caller panicked while it held it.
Commit(c) ==
    /\ SinkAccepts
    /\ sealing[c] # NoRecord
    /\ file' = Written(Seal(c))
    /\ state' = Grown(Seal(c))
    /\ manifest' = IF Sink = "worm" THEN Grown(Seal(c)) ELSE manifest
    /\ previous' = RecordHash(Seal(c))
    /\ envelopes' = Append(envelopes, Seal(c))
    /\ acked' = acked \cup {sealing[c]}
    /\ sealing' = [sealing EXCEPT ![c] = NoRecord]
    /\ UNCHANGED <<running, records, made>>

\* The envelope is not signed, or append_envelope fails, before the chain
\* advances: the file does not have the expected length; or the write is refused,
\* or cut short; or the line gets there although the call fails (BufWriter
\* flushes again when it is dropped, or the WORM sink cannot read the new length).
AppendFails(c) ==
    /\ running
    /\ sealing[c] # NoRecord
    /\ \/ "sign_error" \in SetupFaults /\ UNCHANGED file
       \/ ~SinkAccepts /\ UNCHANGED file
       \/ SinkAccepts /\ "write_error" \in SetupFaults /\ Sink # "memory"
            /\ file' \in {file, Cut, Written(Seal(c))}
    /\ sealing' = [sealing EXCEPT ![c] = NoRecord]
    /\ UNCHANGED <<running, previous, envelopes, records, manifest, state, made, acked>>

\* The line is written and the sidecar is not: the WORM sink counts the line,
\* the chain does not.
ManifestFails(c) ==
    /\ SinkAccepts /\ Sink = "worm" /\ "write_error" \in SetupFaults
    /\ sealing[c] # NoRecord
    /\ file' = Written(Seal(c))
    /\ state' = Grown(Seal(c))
    /\ sealing' = [sealing EXCEPT ![c] = NoRecord]
    /\ UNCHANGED <<running, previous, envelopes, records, manifest, made, acked>>

\* What a process loses when it stops.
Stop ==
    /\ running' = FALSE
    /\ previous' = Genesis
    /\ envelopes' = <<>>
    /\ state' = NoManifest
    /\ records' = <<>>
    /\ sealing' = [c \in Caller |-> NoRecord]
    /\ UNCHANGED <<made, acked>>

\* The process stops between appends.
Crash ==
    /\ running /\ "crash" \in SetupFaults
    /\ UNCHANGED <<file, manifest>>
    /\ Stop

\* The process stops inside append_envelope: after some or all of the line, or
\* after the sidecar, which is replaced in one rename.
CrashInAppend(c) ==
    /\ SinkAccepts /\ "crash" \in SetupFaults /\ Sink # "memory"
    /\ sealing[c] # NoRecord
    /\ \/ file' \in {Cut, Written(Seal(c))} /\ UNCHANGED manifest
       \/ Sink = "worm" /\ file' = Written(Seal(c)) /\ manifest' = Grown(Seal(c))
    /\ Stop

Step ==
    \/ Open
    \/ Reload
    \/ \E c \in Caller : Begin(c) \/ Commit(c) \/ AppendFails(c)
                            \/ ManifestFails(c) \/ CrashInAppend(c)
    \/ Crash

LogNext == Step /\ UNCHANGED setup

LogSpec == LogInit /\ [][LogNext]_logVars

-----------------------------------------------------------------------------
\* verify_chain over a list of envelopes.
ChainVerifies(s) ==
    \A k \in DOMAIN s : s[k].previous = IF k = 1 THEN Genesis ELSE RecordHash(s[k - 1])

Manifest == [byte_length: {-1} \cup Nat, last_record_hash: Hash]

\* Types of the log, its sink and its callers (log.rs:127, worm.rs:14).
LogTypeOK ==
    /\ setup \in Setups
    /\ running \in BOOLEAN
    /\ previous \in Hash
    /\ envelopes \in Seq(Envelope)
    /\ records \in Seq(Record)
    /\ file \in Seq(Envelope \cup Debris)
    /\ manifest \in Manifest /\ state \in Manifest
    /\ sealing \in [Caller -> Record \cup {NoRecord}]
    /\ made \in 0..MaxRecords
    /\ acked \subseteq Record

\* A JSONL file that a reload accepts is one chain from GENESIS, whatever stopped
\* in between; not so where a start does not reload, or after an append that failed
\* and left its line all the same (log.rs:168, 222, 247).
FileChainVerifies ==
    Startup = "reload" /\ "write_error" \notin SetupFaults /\ Parsable(file) => ChainVerifies(file)

\* Record r can be read back from the first n pieces of the file.
ReadableWithin(n, r) ==
    \E k \in DOMAIN file : k <= n /\ file[k] \notin Debris /\ file[k].record = r

\* The sidecar vouches for every acknowledged record: each lies within the
\* length it names, so a truncation that loses one is noticed
\* (worm.rs:59, 127).
AcknowledgedIsSealed ==
    Sink = "worm" => \A r \in acked : ReadableWithin(manifest.byte_length, r)
=============================================================================

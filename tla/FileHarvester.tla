---------------------------- MODULE FileHarvester -----------------------------
(***************************************************************************)
(* The native file harvester of cpp/src/harvesters/file.hpp: a thread that *)
(* tails a path, against a writer that appends to the file, byte by byte,  *)
(* and an administrator who removes or renames it, creates it anew, puts   *)
(* an earlier file back, or truncates it.  Every stat, open and read is a  *)
(* step of its own, and a stat or an open may fail.                        *)
(*                                                                         *)
(* A byte is a pair <<line, part>>: the parts 1..Length[line] are the text *)
(* of the line, part 0 is its newline.  A file is numbered by its identity *)
(* (device and inode), which no other file gets while it is open.          *)
(***************************************************************************)
EXTENDS Naturals, Sequences

CONSTANTS
    Length,             \* bytes of text of each line, in the order written
    MaxLineBytes,       \* max_line_bytes
    ReadBufferSize,     \* read_buffer_size
    StartAtEnd,         \* start_at_end
    FlushPartial,       \* flush_partial_line_on_close
    MaxFiles,           \* bound: files ever created at the path
    MaxTroubles         \* bound: truncations, failing identity checks, files put
                        \* back, and other files taken for a truncated one

Lines == DOMAIN Length

ASSUME FileHarvesterAssumption ==
    /\ Length \in Seq(Nat \ {0}) /\ Length # <<>>
    /\ MaxLineBytes \in Nat \ {0} /\ ReadBufferSize \in Nat \ {0}
    /\ StartAtEnd \in BOOLEAN /\ FlushPartial \in BOOLEAN
    /\ MaxFiles \in Nat \ {0} /\ MaxTroubles \in Nat

VARIABLES
    content,        \* the bytes of each file
    path,           \* the file the path names, 0 when there is none
    files,          \* number of files created
    truncations, faults,
    wfile, wline, wpart,    \* the writer's file, its line, and how much of it
    pc,             \* where the harvester thread is
    stop,           \* stop_requested
    first_open,
    before,         \* identity_before_open
    stream,         \* the file that is open, 0 when none is
    identity, offset, pending_line, dropping,   \* OpenFile
    buffer,         \* bytes read and not yet consumed
    start,          \* the offset at which the stream was opened
    ingested,       \* the lines ingested
    raced,          \* history: has the path changed between the identity check
                    \* and the size check of one turn of the loop?
    revisited       \* history: has the harvester opened, or the writer, a file
                    \* that is not newer than its last, or did the path come
                    \* back to the file it named while another was opened?

fileVars == <<content, path, files, truncations, faults>>
writerVars == <<wfile, wline, wpart>>
lineVars == <<pending_line, dropping, ingested>>
openVars == <<first_open, before, stream, identity, start>>
readVars == <<offset, buffer>>
historyVars == <<raced, revisited>>
vars == <<fileVars, writerVars, pc, stop, openVars, readVars, lineVars, historyVars>>

Init ==
    /\ content = [f \in 1..MaxFiles |-> <<>>]
    /\ path = 1 /\ files = 1 /\ truncations = 0 /\ faults = 0
    /\ wfile = 1 /\ wline = 1 /\ wpart = 0
    /\ pc = "open" /\ stop = FALSE
    /\ first_open = TRUE /\ before = 0 /\ stream = 0 /\ identity = 0
    /\ start = 0 /\ offset = 0 /\ buffer = <<>>
    /\ pending_line = <<>> /\ dropping = FALSE /\ ingested = <<>>
    /\ raced = FALSE /\ revisited = FALSE

-----------------------------------------------------------------------------
(* The writer and the administrator *)

Written(n) == Length[n] + 1     \* bytes of line n with its newline

Byte(n, k) == IF k <= Length[n] THEN <<n, k>> ELSE <<n, 0>>

\* The next byte of the line, or the first byte of the next line.
WriterAppend ==
    /\ \/ /\ wpart < Written(wline)
          /\ wpart' = wpart + 1 /\ UNCHANGED wline
       \/ /\ wpart = Written(wline) /\ wline + 1 \in Lines
          /\ wline' = wline + 1 /\ wpart' = 1
    /\ content' = [content EXCEPT ![wfile] = Append(@, Byte(wline', wpart'))]
    /\ UNCHANGED <<path, files, truncations, faults, wfile, pc, stop, openVars,
                   readVars, lineVars, historyVars>>

\* The writer opens the file now at the path, between two lines.
WriterReopen ==
    /\ path # 0 /\ wfile # path
    /\ wpart \in {0, Written(wline)}
    /\ wfile' = path
    /\ revisited' = (revisited \/ path < wfile)
    /\ UNCHANGED <<fileVars, wline, wpart, pc, stop, openVars, readVars,
                   lineVars, raced>>

\* Rotation: the file is renamed or removed, a new one is created.
Unlink ==
    /\ path # 0
    /\ path' = 0
    /\ raced' = (raced \/ pc = "size")
    /\ UNCHANGED <<content, files, truncations, faults, writerVars, pc, stop,
                   openVars, readVars, lineVars, revisited>>

Create ==
    /\ path = 0 /\ files < MaxFiles
    /\ files' = files + 1
    /\ path' = files'
    /\ UNCHANGED <<content, truncations, faults, writerVars, pc, stop, openVars,
                   readVars, lineVars, historyVars>>

\* An earlier file is put back.
Restore ==
    /\ path = 0 /\ truncations + faults < MaxTroubles
    /\ faults' = faults + 1
    /\ path' \in 1..files
    /\ UNCHANGED <<content, files, truncations, writerVars, pc, stop, openVars,
                   readVars, lineVars, historyVars>>

Truncate ==
    /\ path # 0 /\ truncations + faults < MaxTroubles
    /\ truncations' = truncations + 1
    /\ content' = [content EXCEPT ![path] = <<>>]
    /\ UNCHANGED <<path, files, faults, writerVars, pc, stop, openVars, readVars,
                   lineVars, historyVars>>

-----------------------------------------------------------------------------
(* Lines *)

\* nlohmann::json::parse accepts a whole line and no other text.
Parses(text) ==
    \E n \in Lines : text = [k \in 1..Length[n] |-> <<n, k>>]

\* process_line_safely: what does not parse is logged and dropped.
Process(text, out) == IF Parses(text) THEN Append(out, text[1][1]) ELSE out

\* Mutated form of FinishLine: the end of an overlong line is missed.
FinishLineDropsOn(s) ==
    IF s.dropping THEN [s EXCEPT !.pending = <<>>]
    ELSE [s EXCEPT !.pending = <<>>,
                   !.out = IF s.pending = <<>> THEN @ ELSE Process(s.pending, @)]

\* finish_line, on a record of the open file's line state.
FinishLine(s) ==
    IF s.dropping THEN [s EXCEPT !.pending = <<>>, !.dropping = FALSE]
    ELSE [s EXCEPT !.pending = <<>>,
                   !.out = IF s.pending = <<>> THEN @ ELSE Process(s.pending, @)]

\* One turn of consume_bytes.
ConsumeByte(s, byte) ==
    CASE byte[2] = 0 -> FinishLine(s)
      [] byte[2] # 0 /\ s.dropping -> s
      [] byte[2] # 0 /\ ~s.dropping /\ Len(s.pending) >= MaxLineBytes ->
            [s EXCEPT !.pending = <<>>, !.dropping = TRUE]
      [] OTHER -> [s EXCEPT !.pending = Append(@, byte)]

\* consume_bytes, byte by byte; what other threads do meanwhile comes in between.
Consume ==
    /\ buffer # <<>>
    /\ buffer' = Tail(buffer)
    /\ LET s == ConsumeByte([pending |-> pending_line, dropping |-> dropping,
                             out |-> ingested], Head(buffer))
       IN  /\ pending_line' = s.pending
           /\ dropping' = s.dropping
           /\ ingested' = s.out
    /\ UNCHANGED <<fileVars, writerVars, pc, stop, openVars, offset, historyVars>>

\* flush_or_drop_pending_line.
FlushOrDropPendingLine ==
    /\ ingested' = IF ~dropping /\ pending_line # <<>> /\ FlushPartial
                   THEN Process(pending_line, ingested) ELSE ingested
    /\ pending_line' = <<>>
    /\ dropping' = FALSE

-----------------------------------------------------------------------------
(* open_file *)

\* What the call may return: the file the path names at this moment, or 0 when
\* there is none or a stat fails.
current_path_identity == {path, 0}

\* The size of the file at the path, by another stat, which may fail as well.
safe_file_size == Len(content[path])

OpenIdentity ==
    /\ pc = "open" /\ ~stop
    /\ before' \in current_path_identity \ {0}
    /\ pc' = "opening"
    /\ UNCHANGED <<fileVars, writerVars, stop, first_open, stream, identity,
                   start, readVars, lineVars, historyVars>>

OpenStream ==
    /\ pc = "opening"
    /\ stream' \in {path, 0}
    /\ pc' = IF stream' = 0 THEN "open" ELSE "opened"
    /\ UNCHANGED <<fileVars, writerVars, stop, first_open, before, identity,
                   start, readVars, lineVars, historyVars>>

\* The path names the file it named before, but another one was opened.
CameBack == path = before /\ stream # before

\* A fresh OpenFile at the given offset.
Opened(at, back) ==
    /\ identity' = before
    /\ offset' = at
    /\ start' = at
    /\ first_open' = FALSE
    /\ pc' = "read"
    /\ revisited' = (revisited \/ back \/ before <= identity)

\* The path is unchanged; where to start is known, or depends on the size.
Settled ==
    IF first_open /\ StartAtEnd
    THEN /\ pc' = "sizing"
         /\ revisited' = (revisited \/ CameBack)
         /\ UNCHANGED <<identity, first_open, start, offset>>
    ELSE Opened(0, CameBack)

\* Mutated form of OpenRecheck: the path is not looked at again.
OpenRecheckSkipped ==
    /\ pc = "opened"
    /\ Settled
    /\ UNCHANGED <<fileVars, writerVars, stop, before, stream, buffer, lineVars,
                   raced>>

\* identity_after_open: the path must not have changed.
OpenRecheck ==
    /\ pc = "opened"
    /\ \E after \in current_path_identity :
          \/ /\ after # before
             /\ stream' = 0
             /\ pc' = "open"
             /\ UNCHANGED <<identity, first_open, start, offset, revisited>>
          \/ /\ after = before
             /\ Settled
             /\ UNCHANGED stream
    /\ UNCHANGED <<fileVars, writerVars, stop, before, buffer, lineVars, raced>>

\* The size at which to start is read from the path, not from the stream.
OpenSize ==
    /\ pc = "sizing"
    /\ \/ /\ stream' = 0
          /\ pc' = "open"
          /\ UNCHANGED <<identity, first_open, start, offset, revisited>>
       \/ /\ path # 0
          /\ Opened(safe_file_size, FALSE)
          /\ UNCHANGED stream
    /\ UNCHANGED <<fileVars, writerVars, stop, before, buffer, lineVars, raced>>

-----------------------------------------------------------------------------
(* read_available, run and drain_for_grace_period *)

\* The bytes one read returns: at most a buffer, none beyond the end.
Chunk ==
    SubSeq(content[stream], offset + 1,
           IF Len(content[stream]) < offset + ReadBufferSize
           THEN Len(content[stream]) ELSE offset + ReadBufferSize)

\* One turn of read_available's loop, after the bytes of the one before are
\* consumed; a short read is the last one.
ReadAvailable(last) ==
    /\ buffer' = Chunk
    /\ offset' = offset + Len(Chunk)
    /\ IF Len(Chunk) < ReadBufferSize THEN pc' \in last ELSE UNCHANGED pc

Read ==
    /\ pc = "read" /\ ~stop
    /\ ReadAvailable({"identity"})
    /\ UNCHANGED <<fileVars, writerVars, stop, openVars, lineVars, historyVars>>

\* Mutated form of CheckIdentity: only a missing file counts as rotated.
CheckIdentityMissing ==
    /\ pc = "identity"
    /\ pc' = IF path = 0 THEN "drain" ELSE "size"
    /\ UNCHANGED <<fileVars, writerVars, stop, openVars, readVars, lineVars, historyVars>>

\* The path is gone, cannot be looked at or names another file: drain the old one.
CheckIdentity ==
    /\ pc = "identity"
    /\ \E now \in current_path_identity :
          /\ faults' = IF now = path THEN faults ELSE faults + 1
          /\ truncations + faults' <= MaxTroubles
          /\ pc' = IF now # identity THEN "drain" ELSE "size"
    /\ UNCHANGED <<content, path, files, truncations, writerVars, stop, openVars,
                   readVars, lineVars, historyVars>>

\* The file at the path is shorter than what was read: truncated, read again
\* from the start.  Otherwise, or when the stat fails, nothing is done.
CheckSize ==
    /\ pc = "size"
    /\ pc' = "read"
    /\ \/ /\ path # 0 /\ safe_file_size < offset
          /\ faults' = IF path = stream THEN faults ELSE faults + 1
          /\ truncations + faults' <= MaxTroubles
          /\ offset' = 0
          /\ FlushOrDropPendingLine
       \/ UNCHANGED <<faults, offset, lineVars>>
    /\ UNCHANGED <<content, path, files, truncations, writerVars, stop, openVars,
                   buffer, historyVars>>

\* Reading goes on until the grace period is over, after one pass at least.
DrainRead ==
    /\ pc = "drain" /\ ~stop
    /\ ReadAvailable({"drain", "close"})
    /\ UNCHANGED <<fileVars, writerVars, stop, openVars, lineVars, historyVars>>

DrainStopped ==
    /\ pc = "drain" /\ stop
    /\ pc' = "close"
    /\ UNCHANGED <<fileVars, writerVars, stop, openVars, readVars, lineVars, historyVars>>

\* close_file after a rotation, and the end of the OpenFile; the next file is read
\* from its beginning.
Close ==
    /\ pc = "close"
    /\ FlushOrDropPendingLine
    /\ stream' = 0
    /\ pc' = "open"
    /\ offset' = 0 /\ start' = 0
    /\ UNCHANGED <<fileVars, writerVars, stop, first_open, before, identity,
                   buffer, historyVars>>

\* Stop: request_stop, and the thread's way out of run.
RequestStop ==
    /\ ~stop
    /\ stop' = TRUE
    /\ UNCHANGED <<fileVars, writerVars, pc, openVars, readVars, lineVars, historyVars>>

Shutdown ==
    /\ stop
    /\ \/ pc = "open" /\ UNCHANGED lineVars
       \/ pc \in {"read", "identity"} /\ FlushOrDropPendingLine
    /\ stream' = 0
    /\ pc' = "done"
    /\ offset' = 0 /\ start' = 0
    /\ UNCHANGED <<fileVars, writerVars, stop, first_open, before, identity,
                   buffer, historyVars>>

-----------------------------------------------------------------------------

\* What the thread does when no byte is left to consume.
Proceed ==
    /\ buffer = <<>>
    /\ \/ OpenIdentity \/ OpenStream \/ OpenRecheck \/ OpenSize
       \/ Read \/ CheckIdentity \/ CheckSize
       \/ DrainRead \/ DrainStopped \/ Close \/ Shutdown

Harvest == Consume \/ Proceed

Next ==
    \/ WriterAppend \/ WriterReopen
    \/ Unlink \/ Create \/ Restore \/ Truncate
    \/ RequestStop
    \/ Harvest

Spec == Init /\ [][Next]_vars

\* The thread runs, and the grace period ends.
FairSpec ==
    /\ Spec
    /\ WF_vars(Harvest)
    /\ SF_vars(Proceed /\ DrainRead /\ pc' = "close")

-----------------------------------------------------------------------------
(* Properties *)

\* current holds an open file.
FileOpen == pc \in {"read", "identity", "size", "drain", "close"}

\* The values the variables of the harvester range over; the line buffer never
\* exceeds max_line_bytes, and the file that is read is always the one whose
\* identity was recorded, although the path changes while it is opened, unless
\* the path comes back in time to the file it named first.
TypeOK ==
    /\ path \in 0..files /\ files \in 1..MaxFiles
    /\ pc \in {"open", "opening", "opened", "sizing", "read", "identity", "size",
               "drain", "close", "done"}
    /\ stream \in 0..files /\ identity \in 0..files /\ before \in 0..files
    /\ offset \in Nat /\ start \in Nat
    /\ Len(pending_line) <= MaxLineBytes
    /\ \A i \in 1..Len(ingested) : ingested[i] \in Lines
    /\ {stop, first_open, dropping, raced, revisited} \subseteq BOOLEAN
    /\ FileOpen => stream = identity \/ revisited

\* Lines are ingested in the order written, each at most once.
IngestedOnce == \A i, j \in 1..Len(ingested) : i < j => ingested[i] < ingested[j]

\* Lines are ingested once and in order, across rotation, truncation and
\* reopening, as long as neither side goes back to a file: the harvester does
\* when an earlier file is put back, and when a stat at the identity check fails
\* (file.hpp:190: a path it cannot look at counts as gone), and reads the file
\* again from its beginning.
OnceUnlessRevisited == revisited \/ IngestedOnce

\* The same, except when the path changes between the identity check and the
\* size check of one turn of the loop.
OnceUnlessRaced == raced \/ revisited \/ IngestedOnce

\* How much of the stream has been consumed.
Consumed == offset - Len(buffer)

\* Line n is in the part of the open file that has been read: all its bytes
\* follow the place the file was opened at, and its newline has been consumed.
ReadWhole(n) ==
    \E i \in (start + 1)..Len(content[stream]) :
        /\ content[stream][i] = <<n, 1>>
        /\ i + Length[n] <= Consumed
        /\ i + Length[n] <= Len(content[stream])

\* Every line of acceptable length that has been read has been ingested: buffer
\* boundaries, partial lines, overlong lines before it, rotations and reopening
\* lose none (file.hpp:34-38), unless the file was truncated: one that is
\* refilled before the next size check is read on from its middle.
ReadLinesIngested ==
    (FileOpen /\ truncations = 0) =>
        \A n \in Lines :
            (Length[n] <= MaxLineBytes /\ ReadWhole(n))
                => \E i \in 1..Len(ingested) : ingested[i] = n

\* A line written after the place where the file was opened is ingested, as
\* long as the file stays at the path, is not truncated, and the harvester is
\* not stopped.
Tailed ==
    \A n \in Lines :
        LET tailing == /\ stream = path /\ ~stop /\ truncations = 0
                       /\ pc \in {"read", "identity", "size"}
            whole == \E i \in (start + 1)..Len(content[stream]) :
                        /\ content[stream][i] = <<n, 1>>
                        /\ i + Length[n] <= Len(content[stream])
            done == \E i \in 1..Len(ingested) : ingested[i] = n
        IN  (tailing /\ whole /\ Length[n] <= MaxLineBytes)
                ~> (done \/ path # stream \/ stop \/ truncations > 0)

=============================================================================

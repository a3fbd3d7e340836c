------------------------------ MODULE LogScan -------------------------------
(***************************************************************************)
(* StreamLogFilter: the scan of a log and its rotated files into a         *)
(* temporary file, which is then streamed in chunks, while the logger that *)
(* owns the log (spdlog's rotating sink: the agent filters its own log)    *)
(* goes on writing and rotating it.                                        *)
(*                                                                         *)
(* A log line is an index into Log, in the order in which lines are        *)
(* written.  slot[i] is the file that has the name of rotation i, 0 being  *)
(* the base path; a file that is open keeps its identity when its name     *)
(* moves on.  Sizes are in units of a byte string the properties need not  *)
(* look into.                                                              *)
(***************************************************************************)
EXTENDS Integers, FiniteSets, SequencesExt

CONSTANTS
    Log,                \* the lines: format, seconds, nanos, level, text, size
    ZoneOffset,         \* local time minus UTC, in seconds
    NanosPerSecond,     \* nanos are below it
    NanosPerMilli,      \* the unit in which the sink prints the time
    Specs,              \* filters asked for
    Limits,             \* values of max_output_bytes
    Int64Half,          \* 2^63: int64 values are below it, uint64 ones below its double
    ChunkSizes,         \* values of chunk_size
    MaxFiles,           \* rotated files the logger keeps
    MaxDepth,           \* largest rotation_scan_depth
    MaxRotations        \* bound: rotations during the scan

(* google.protobuf.Timestamp: nanos count forward within the second.        *)
Timestamps == [seconds : Int, nanos : 0..(NanosPerSecond - 1)]

ASSUME LogScanAssumption ==
    /\ MaxFiles \in Nat \ {0}
    /\ MaxDepth \in Nat
    /\ MaxRotations \in Nat
    /\ NanosPerSecond \in Nat \ {0}
    /\ NanosPerMilli \in 1..NanosPerSecond
    /\ Int64Half \in Nat \ {0}
    /\ Limits \subseteq 0..(2 * Int64Half - 1)
    /\ ChunkSizes \subseteq Nat \ {0}
    /\ ZoneOffset \in Int
    /\ Log \in Seq([format : STRING, seconds : Int, nanos : 0..(NanosPerSecond - 1),
                    level : STRING, text : SUBSET STRING, size : Nat])
    /\ Len(Log) > MaxFiles
    /\ Specs \subseteq [start : SUBSET Timestamps, end : SUBSET Timestamps,
                        level_in : SUBSET STRING, grep_contains : SUBSET STRING]

Lines == DOMAIN Log
Slots == 0..MaxFiles
Files == 1..(MaxFiles + 1 + MaxRotations)
NoFile == 0

VARIABLES
    slot,               \* the file of each name, or NoFile
    content,            \* the lines of each file
    torn,               \* the last line of the base file is only partly flushed
    rotating,           \* the name that the rotation under way fills next
    rotations,          \* rotations begun
    opts,               \* options and specification of the operation
    at_start,           \* whole lines in reach of the scan when it began
    pc,                 \* program counter of StreamLogFilter
    candidates,         \* candidates still to visit
    in,                 \* the file that is open, and the lines read from it
    out,                \* lines written, [line, size]
    total_size,         \* metrics->total_size
    temp_exists,        \* the temporary file exists
    temp_size,          \* its size on disk once closed
    remove_failed,      \* an attempt to remove it has failed
    close_failed,       \* the flush in out.close() has failed
    chunks,             \* chunks delivered, [offset, size]
    offset,             \* offset of StreamFile
    status              \* what StreamLogFilter returned

logVars == <<slot, content, torn, rotating, rotations>>
tempVars == <<temp_exists, remove_failed>>
outVars == <<out, total_size, temp_size, close_failed>>
streamVars == <<chunks, offset>>
vars == <<logVars, opts, at_start, pc, candidates, in, outVars, tempVars, streamVars, status>>

Refusals == {"UNIMPLEMENTED", "FAILED_PRECONDITION", "PERMISSION_DENIED"}

(* "thrown": an exception that nobody catches has ended the agent.          *)
Statuses == Refusals \cup {"none", "OK", "INTERNAL", "RESOURCE_EXHAUSTED", "consumer",
                           "thrown"}

(* "failed" and "stream_failed": FilterLogsToTemp or StreamFilteredFile has *)
(* returned an error; "streamed": all chunks are delivered; "eof": the EOF  *)
(* is to be filled in.                                                      *)
PCs == {"begin", "next", "open", "read", "stream", "chunk", "failed", "stream_failed",
        "streamed", "eof", "done"}

Options == [include_rotations : BOOLEAN, depth : 0..MaxDepth, extension : BOOLEAN,
            cleanup : BOOLEAN, limit : Limits, chunk_size : ChunkSizes, spec : Specs]

----------------------------------------------------------------------------
(* Which lines are selected.                                               *)

ToLower(level) ==
    CASE level = "INFO" -> "info"
      [] level = "WARN" -> "warn"
      [] OTHER -> level

(* Faulty variant: seconds and nanos are compared each for itself.          *)
TimestampLessApart(lhs, rhs) == lhs.seconds <= rhs.seconds /\ lhs.nanos < rhs.nanos

TimestampLess(lhs, rhs) ==
    \/ lhs.seconds < rhs.seconds
    \/ lhs.seconds = rhs.seconds /\ lhs.nanos < rhs.nanos

(* What a line that has the spdlog format says: the sink prints local time  *)
(* down to the millisecond, and the printed digits are read as UTC.         *)
ParsedLine(l) ==
    [ts |-> [seconds |-> Log[l].seconds + ZoneOffset,
             nanos |-> Log[l].nanos - (Log[l].nanos % NanosPerMilli)],
     level_lower |-> ToLower(Log[l].level)]

InRange(parsed, spec) ==
    /\ \A start \in spec.start : ~TimestampLess(parsed.ts, start)
    /\ \A end \in spec.end : ~TimestampLess(end, parsed.ts)

InLevelFilter(parsed, levels) ==
    levels = {} \/ \E allowed \in levels : parsed.level_lower = ToLower(allowed)

ContainsFilter(text, needles) == needles \subseteq text

Selected(piece) ==
    /\ Log[piece.line].format = "spdlog"
    /\ InRange(ParsedLine(piece.line), opts.spec)
    /\ InLevelFilter(ParsedLine(piece.line), opts.spec.level_in)
    /\ ContainsFilter(piece.text, opts.spec.grep_contains)

(* What is in the file of a line: the line, or a part of a torn one, which *)
(* may lack its text or no more than the end of the line.                  *)
Pieces(l, whole) ==
    IF whole
      THEN {[line |-> l, whole |-> TRUE, text |-> Log[l].text, size |-> Log[l].size]}
      ELSE [line : {l}, whole : {FALSE}, text : SUBSET Log[l].text, size : 1..Log[l].size]

----------------------------------------------------------------------------
(* Which files are scanned: the base, then each rotation from the newest to *)
(* the oldest, under both names it may have.                                *)

Infix(i) == [index |-> i, infix |-> TRUE]
Suffix(i) == [index |-> i, infix |-> FALSE]

Depth(depth) == IF depth = 0 THEN 2 ELSE depth

(* Faulty variant: the same name twice for a path without extension.        *)
BothNames(i, extension) ==
    IF extension THEN <<Suffix(i), Infix(i)>> ELSE <<Suffix(i), Suffix(i)>>

(* The names of rotation i, without the infix form if there is no extension *)
(* to put it before.                                                        *)
NamesOf(i, extension) ==
    IF extension THEN <<Suffix(i), Infix(i)>> ELSE <<Suffix(i)>>

(* The names of rotation 1, then those of rotation 2, and so on.            *)
Rotations(depth, extension) ==
    LET n == Len(NamesOf(1, extension)) IN
      [k \in 1..(n * Depth(depth)) |->
          NamesOf(1 + ((k - 1) \div n), extension)[1 + ((k - 1) % n)]]

(* Faulty variant: the oldest file first, for an output in order of time.   *)
OldestFirst(include_rotations, depth, extension) ==
    Reverse(<<Suffix(0)>> \o
            IF include_rotations THEN Rotations(depth, extension) ELSE <<>>)

EnumerateCandidates(include_rotations, depth, extension) ==
    <<Suffix(0)>> \o IF include_rotations THEN Rotations(depth, extension) ELSE <<>>

(* spdlog puts the number before the extension.                             *)
FileAt(path) ==
    IF /\ path.index \in Slots
       /\ path.index = 0 \/ path.infix = opts.extension
    THEN slot[path.index]
    ELSE NoFile

(* Rotations in reach of a scan.                                            *)
Reach == {path.index : path \in ToSet(EnumerateCandidates(opts.include_rotations,
                                                          opts.depth, opts.extension))}

LinesInReach ==
    UNION {ToSet(content[slot[i]]) : i \in {j \in Reach \cap Slots : slot[j] # NoFile}}

----------------------------------------------------------------------------
(* At first the base and n rotated files have a line each.                  *)
Init ==
    /\ opts \in Options
    /\ \E n \in Slots :
         /\ slot = [i \in Slots |-> IF i <= n THEN i + 1 ELSE NoFile]
         /\ content = [f \in Files |-> IF f <= n + 1 THEN <<n + 2 - f>> ELSE <<>>]
    /\ torn = FALSE
    /\ rotating = 0
    /\ rotations = 0
    /\ at_start = {}
    /\ pc = "begin"
    /\ candidates = <<>>
    /\ in = [file |-> NoFile, read |-> 0]
    /\ out = <<>>
    /\ total_size = 0
    /\ temp_exists = FALSE
    /\ temp_size = 0
    /\ remove_failed = FALSE
    /\ close_failed = FALSE
    /\ chunks = <<>>
    /\ offset = 0
    /\ status = "none"

(* A request that is refused has no temporary file yet.                     *)
Refuse(st) ==
    /\ pc = "begin"
    /\ pc' = "done"
    /\ status' = st
    /\ UNCHANGED <<logVars, opts, at_start, candidates, in, outVars, tempVars, streamVars>>

(* An error of FilterLogsToTemp or StreamFile, which StreamLogFilter        *)
(* handles at site.                                                         *)
FailAt(site, st) ==
    /\ pc' = site
    /\ status' = st
    /\ UNCHANGED <<logVars, opts, at_start, candidates, in, outVars, tempVars, streamVars>>

(* No directory, no unique name, or the file cannot be created.             *)
CreateFails == pc = "begin" /\ FailAt("failed", "INTERNAL")

Begin ==
    /\ pc = "begin"
    /\ pc' = "next"
    /\ temp_exists' = TRUE
    /\ candidates' = EnumerateCandidates(opts.include_rotations, opts.depth, opts.extension)
    /\ at_start' = LinesInReach \ (IF torn THEN {Last(content[slot[0]])} ELSE {})
    /\ UNCHANGED <<logVars, opts, in, outVars, remove_failed, streamVars, status>>

(* fs::exists of the next candidate.                                        *)
Visit ==
    /\ pc = "next"
    /\ candidates # <<>>
    /\ IF FileAt(Head(candidates)) = NoFile
         THEN candidates' = Tail(candidates) /\ UNCHANGED pc
         ELSE pc' = "open" /\ UNCHANGED candidates
    /\ UNCHANGED <<logVars, opts, at_start, in, outVars, tempVars, streamVars, status>>

(* fs::exists throws what is not "there is no such file"; WorkerLoop does   *)
(* not catch it, and the agent ends.                                        *)
ExistsThrows == pc = "next" /\ candidates # <<>> /\ FailAt("done", "thrown")

(* The name is looked up again to open it, and may have moved on.           *)
Open ==
    /\ pc = "open"
    /\ candidates' = Tail(candidates)
    /\ LET file == FileAt(Head(candidates)) IN
         IF file = NoFile
           THEN pc' = "next" /\ UNCHANGED in
           ELSE pc' = "read" /\ in' = [file |-> file, read |-> 0]
    /\ UNCHANGED <<logVars, opts, at_start, outVars, tempVars, streamVars, status>>

----------------------------------------------------------------------------
(* static_cast<std::int64_t> of a uint64.                                   *)
ToInt64(n) == IF n < Int64Half THEN n ELSE n - 2 * Int64Half

(* Faulty variant: the limit is checked without what is about to be         *)
(* written.                                                                 *)
enforce_limit_late(to_write) == opts.limit = 0 \/ total_size <= ToInt64(opts.limit)

enforce_limit(to_write) == opts.limit = 0 \/ total_size + to_write <= ToInt64(opts.limit)

(* The next line of the file, of which only a part is there if it is the    *)
(* last one of the base file and has not been flushed to its end.           *)
NextLine == content[in.file][in.read + 1]
NextIsWhole == ~(torn /\ in.file = slot[0] /\ in.read + 1 = Len(content[in.file]))

HasLine == pc = "read" /\ in.read < Len(content[in.file])

Closed == [file |-> NoFile, read |-> 0]

(* getline: a part of a line is taken for a line, and ends the file.        *)
GetLine ==
    IF NextIsWhole
      THEN in' = [in EXCEPT !.read = @ + 1] /\ UNCHANGED pc
      ELSE in' = Closed /\ pc' = "next"

(* A line that is not selected, or a part that is cut in its header.        *)
Skip ==
    /\ HasLine
    /\ \/ ~NextIsWhole
       \/ \E piece \in Pieces(NextLine, TRUE) : ~Selected(piece)
    /\ GetLine
    /\ UNCHANGED <<logVars, opts, at_start, candidates, outVars, tempVars, streamVars, status>>

WriteLine ==
    /\ HasLine
    /\ \E piece \in Pieces(NextLine, NextIsWhole) :
         /\ Selected(piece)
         /\ enforce_limit(piece.size)
         /\ out' = Append(out, [line |-> piece.line, size |-> piece.size])
         /\ total_size' = total_size + piece.size
    /\ GetLine
    /\ UNCHANGED <<logVars, opts, at_start, candidates, temp_size, close_failed, tempVars,
                   streamVars, status>>

LimitReached ==
    /\ HasLine
    /\ \E piece \in Pieces(NextLine, NextIsWhole) :
         Selected(piece) /\ ~enforce_limit(piece.size)
    /\ FailAt("failed", "RESOURCE_EXHAUSTED")

WriteFails ==
    /\ HasLine
    /\ \E piece \in Pieces(NextLine, NextIsWhole) :
         Selected(piece) /\ enforce_limit(piece.size)
    /\ FailAt("failed", "INTERNAL")

EndOfFile ==
    /\ pc = "read"
    /\ in.read = Len(content[in.file])
    /\ pc' = "next"
    /\ in' = Closed
    /\ UNCHANGED <<logVars, opts, at_start, candidates, outVars, tempVars, streamVars, status>>

(* out.close(): what is still buffered reaches the disk, or some of it does *)
(* not, which nobody looks at.                                              *)
Close ==
    /\ pc = "next"
    /\ candidates = <<>>
    /\ pc' = "stream"
    /\ close_failed' \in BOOLEAN
    /\ temp_size' \in IF close_failed' THEN 0..total_size ELSE {total_size}
    /\ UNCHANGED <<logVars, opts, at_start, candidates, in, out, total_size, tempVars,
                   streamVars, status>>

----------------------------------------------------------------------------
(* StreamFile.                                                              *)

Reopen ==
    /\ pc = "stream"
    /\ pc' = "chunk"
    /\ offset' = 0
    /\ UNCHANGED <<logVars, opts, at_start, candidates, in, outVars, tempVars, chunks, status>>

ReopenFails == pc = "stream" /\ FailAt("stream_failed", "INTERNAL")

(* Faulty variant: a read that is short fails, as in while (in.read(...)).  *)
GotFull == IF temp_size - offset < opts.chunk_size THEN 0 ELSE opts.chunk_size

Got == IF temp_size - offset < opts.chunk_size THEN temp_size - offset ELSE opts.chunk_size

(* Faulty variant: a full chunk is assumed.                                 *)
OffsetByChunk(got) == offset + opts.chunk_size

OffsetAfter(got) == offset + got

(* The consumer takes a chunk or returns an error.                          *)
Chunk ==
    /\ pc = "chunk"
    /\ Got > 0
    /\ chunks' = Append(chunks, [offset |-> offset, size |-> Got])
    /\ offset' = OffsetAfter(Got)
    /\ UNCHANGED <<logVars, opts, at_start, pc, candidates, in, outVars, tempVars, status>>

ConsumerFails == pc = "chunk" /\ Got > 0 /\ FailAt("stream_failed", "consumer")

Streamed ==
    /\ pc = "chunk"
    /\ Got <= 0
    /\ pc' = "streamed"
    /\ UNCHANGED <<logVars, opts, at_start, candidates, in, outVars, tempVars, streamVars,
                   status>>

----------------------------------------------------------------------------
(* The four places that remove the temporary file, each with fs::remove     *)
(* and an error code nobody looks at.                                       *)

CleanUp ==
    \/ opts.cleanup /\ temp_exists' = FALSE /\ UNCHANGED remove_failed
    \/ opts.cleanup /\ temp_exists /\ remove_failed' = TRUE /\ UNCHANGED temp_exists
    \/ ~opts.cleanup /\ UNCHANGED tempVars

Return(from, to) ==
    /\ pc = from
    /\ pc' = to
    /\ UNCHANGED <<logVars, opts, at_start, candidates, in, outVars, streamVars>>

FilterFailed == Return("failed", "done") /\ CleanUp /\ UNCHANGED status

(* Faulty variant: an error of the stream just passes on.                   *)
StreamFailedForgetful == Return("stream_failed", "done") /\ UNCHANGED <<tempVars, status>>

StreamFailed == Return("stream_failed", "done") /\ CleanUp /\ UNCHANGED status

(* The end of StreamFilteredFile.                                           *)
StreamSucceeded == Return("streamed", "eof") /\ CleanUp /\ UNCHANGED status

(* The EOF is filled in, and the file removed once more.                    *)
FillEof == Return("eof", "done") /\ CleanUp /\ status' = "OK"

----------------------------------------------------------------------------
(* The logger: rotating_file_sink.  A line may reach the file in two parts, *)
(* and rotation i takes the name of i + 1 from the oldest down, each in the *)
(* two steps of a removal and a renaming.                                   *)

NextWritten == 1 + Cardinality(UNION {ToSet(content[f]) : f \in Files})

LoggerIdle == rotating = 0 /\ slot[0] # NoFile

scanVars == <<opts, at_start, pc, candidates, in, outVars, tempVars, streamVars, status>>

WriteLog ==
    /\ LoggerIdle
    /\ ~torn
    /\ NextWritten \in Lines
    /\ content' = [content EXCEPT ![slot[0]] = Append(@, NextWritten)]
    /\ torn' \in BOOLEAN
    /\ UNCHANGED <<slot, rotating, rotations, scanVars>>

FlushLog ==
    /\ torn
    /\ torn' = FALSE
    /\ UNCHANGED <<slot, content, rotating, rotations, scanVars>>

BeginRotation ==
    /\ LoggerIdle
    /\ content[slot[0]] # <<>>
    /\ rotations < MaxRotations
    /\ rotations' = rotations + 1
    /\ torn' = FALSE
    /\ rotating' = MaxFiles
    /\ UNCHANGED <<slot, content, scanVars>>

NothingToRename ==
    /\ rotating > 0
    /\ slot[rotating - 1] = NoFile
    /\ rotating' = rotating - 1
    /\ UNCHANGED <<slot, content, torn, rotations, scanVars>>

RemoveTarget ==
    /\ rotating > 0
    /\ slot[rotating - 1] # NoFile
    /\ slot[rotating] # NoFile
    /\ slot' = [slot EXCEPT ![rotating] = NoFile]
    /\ UNCHANGED <<content, torn, rotating, rotations, scanVars>>

Rename ==
    /\ rotating > 0
    /\ slot[rotating - 1] # NoFile
    /\ slot[rotating] = NoFile
    /\ slot' = [slot EXCEPT ![rotating] = slot[rotating - 1], ![rotating - 1] = NoFile]
    /\ rotating' = rotating - 1
    /\ UNCHANGED <<content, torn, rotations, scanVars>>

NewBase ==
    /\ rotating = 0
    /\ slot[0] = NoFile
    /\ slot' = [slot EXCEPT ![0] = MaxFiles + 1 + rotations]
    /\ UNCHANGED <<content, torn, rotating, rotations, scanVars>>

Scan ==
    \/ \E st \in Refusals : Refuse(st)
    \/ CreateFails \/ Begin \/ Visit \/ ExistsThrows \/ Open
    \/ Skip \/ WriteLine \/ LimitReached \/ WriteFails \/ EndOfFile \/ Close
    \/ Reopen \/ ReopenFails \/ Chunk \/ ConsumerFails \/ Streamed
    \/ FilterFailed \/ StreamFailed \/ StreamSucceeded \/ FillEof

Logger ==
    WriteLog \/ FlushLog \/ BeginRotation \/ NothingToRename \/ RemoveTarget \/ Rename \/ NewBase

Next == Scan \/ Logger

Spec == Init /\ [][Next]_vars

----------------------------------------------------------------------------
(* Properties.                                                             *)

(* Types of the operation's state; in particular a chunk never starts past *)
(* the end of the file, and the file that is read is one of the log's.     *)
TypeOK ==
    /\ slot \in [Slots -> Files \cup {NoFile}]
    /\ content \in [Files -> Seq(Lines)]
    /\ torn \in BOOLEAN
    /\ rotating \in Slots
    /\ rotations \in 0..MaxRotations
    /\ opts \in Options
    /\ at_start \subseteq Lines
    /\ pc \in PCs
    /\ candidates \in Seq([index : Nat, infix : BOOLEAN])
    /\ in \in [file : Files \cup {NoFile}, read : Nat]
    /\ pc = "read" => in.file \in Files /\ in.read <= Len(content[in.file])
    /\ out \in Seq([line : Lines, size : Nat])
    /\ total_size \in Nat
    /\ temp_exists \in BOOLEAN
    /\ temp_size \in 0..total_size
    /\ remove_failed \in BOOLEAN
    /\ close_failed \in BOOLEAN
    /\ chunks \in Seq([offset : 0..temp_size, size : Nat])
    /\ offset \in 0..temp_size
    /\ status \in Statuses
    /\ status = "none" <=> pc \notin {"failed", "stream_failed", "done"}

TimeOf(ts) == ts.seconds * NanosPerSecond + ts.nanos

(* The time at which a line was logged, as a clock on the wall shows it.    *)
WallTime(l) == TimeOf(Log[l]) + ZoneOffset * NanosPerSecond

(* What the filters but the time window ask for.                            *)
Matches(l) ==
    /\ Log[l].format = "spdlog"
    /\ opts.spec.level_in # {} =>
         \E level \in opts.spec.level_in : ToLower(level) = ToLower(Log[l].level)
    /\ opts.spec.grep_contains \subseteq Log[l].text

(* Whatever its digits below the millisecond are, the line is in the window.*)
Wanted(l) ==
    /\ Matches(l)
    /\ \A start \in opts.spec.start : TimeOf(start) + NanosPerMilli - 1 <= WallTime(l)
    /\ \A end \in opts.spec.end : WallTime(l) <= TimeOf(end)

(* Some line that is printed with the same time is in the window.           *)
Admitted(l) ==
    /\ Matches(l)
    /\ \A start \in opts.spec.start : TimeOf(start) <= WallTime(l)
    /\ \A end \in opts.spec.end : WallTime(l) < TimeOf(end) + NanosPerMilli

ScanEnded == pc \in {"stream", "chunk", "streamed", "eof"} \/ status = "OK"

(* A scan that ends has written every line asked for that was in reach when *)
(* it began and is not yet out of reach, however the log was rotated in     *)
(* between: it goes the way the files go (EnumerateCandidates), so a file   *)
(* that moves is still ahead of it.                                         *)
NothingMissed ==
    ScanEnded =>
        \A l \in at_start \cap LinesInReach :
            Wanted(l) => \E k \in DOMAIN out : out[k].line = l

(* FilterLogsToTemp writes no line that the window, read as wall-clock time *)
(* and to the millisecond, excludes, nor one that another filter does, also *)
(* when the line was still being written.                                   *)
OutputAsAsked == \A k \in DOMAIN out : Admitted(out[k].line)

(* A line is in the output twice only if the log was rotated meanwhile.     *)
RepeatsNeedRotation ==
    rotations = 0 => \A j, k \in DOMAIN out : out[j].line = out[k].line => j = k

(* On whatever way the operation ends, its temporary file is gone unless it *)
(* is to be kept, or could not be removed, or fs::exists has thrown; and a  *)
(* successful operation keeps it if it is to be kept.                       *)
TempFileFate ==
    pc = "done" =>
        /\ opts.cleanup /\ temp_exists => remove_failed \/ status = "thrown"
        /\ ~opts.cleanup /\ status = "OK" => temp_exists

(* Where the chunk after the first n begins.                                *)
EndOfChunk(n) == IF n = 0 THEN 0 ELSE chunks[n].offset + chunks[n].size

(* The chunks of StreamFile leave no gap and do not overlap, and those of a *)
(* successful operation have the size that the EOF states, unless the last  *)
(* flush of the temporary file failed unnoticed.                            *)
ChunksMatchEof ==
    /\ \A k \in DOMAIN chunks : chunks[k].offset = EndOfChunk(k - 1)
    /\ status = "OK" =>
         /\ EndOfChunk(Len(chunks)) = temp_size
         /\ ~close_failed => EndOfChunk(Len(chunks)) = total_size

(* os.proto: max_output_bytes is a hard limit on the output.  An operation  *)
(* that fails at it had a line that would have gone beyond it.              *)
ExhaustedMeansExceeded ==
    status = "RESOURCE_EXHAUSTED" /\ opts.limit # 0 =>
        total_size + Log[NextLine].size > opts.limit

(* What is delivered never exceeds the limit, in whatever parts lines are   *)
(* read, not even for limits beyond int64; and a limit within int64 is no   *)
(* lower than it says.                                                      *)
LimitIsHard ==
    opts.limit # 0 =>
        /\ EndOfChunk(Len(chunks)) <= opts.limit
        /\ opts.limit < Int64Half => ExhaustedMeansExceeded
=============================================================================

----------------------------- MODULE RawCapture -----------------------------
(***************************************************************************)
(* Raw capture: LoggingTransport around a link (transport/logging.rs), the *)
(* capture settings of Session (session/mod.rs) that drive it, and         *)
(* parse_raw_capture, which turns a file back into commands and responses. *)
(*                                                                         *)
(* A file is a sequence of lines [dir, text], <<>> when there is none;     *)
(* lines still in the BufWriter count as written, and a failed last flush  *)
(* may cut the file at any byte.  A failed write of a line is ignored by   *)
(* the code: such a file is garbled, and its contents are not followed.    *)
(* File names are drawn from small sets, so names made in the same second  *)
(* may collide.  A session has one call under way at a time, so the        *)
(* capture operations run between two exchanges.  An exchange may end      *)
(* after its write (an error, or a dropped future).                        *)
(***************************************************************************)
EXTENDS Wire, SequencesExt

CONSTANTS
    ManualNames,  \* paths the application passes to start_raw_capture
    DebugNames,   \* names built by start_debug_raw_capture
    VinNames,     \* names built by rename_raw_capture_for_vin
    FileFaults,   \* file operations that may fail
    MaxCommands,  \* bound on commands written
    MaxOps        \* bound on capture operations

ASSUME RawCaptureAssumption ==
    /\ "none" \notin ManualNames \cup DebugNames \cup VinNames
    /\ FileFaults \subseteq {"mkdir", "create", "write", "flush", "rename", "open"}
    /\ MaxCommands \in Nat /\ MaxOps \in Nat

VARIABLES
    writer,        \* the file LoggingTransport writes, NoPath when it does not
    capture_path,  \* LoggingTransport::capture_path
    observer,      \* the link has a chunk observer
    chunk_buf,     \* chunks observed and not yet logged
    enabled,       \* RawCaptureConfig::enabled
    current_path,  \* RawCaptureConfig::current_path
    files,         \* the files on disk, by name
    stream,        \* chunks on their way from the adapter
    asked,         \* the command whose answer is being read, 0 when none
    sent,          \* commands written so far
    ops,           \* capture operations so far
    said,          \* history: per file, the exchanges completed while it was written
    heard,         \* history: per file, the chunks received while it was written
    strays,        \* history: chunks received by a failed read or after a failed rename
    garbled,       \* history: files that lost part of a line, or two writers had open at once
    short,         \* history: files whose last flush failed
    broken         \* history: the last rename failed half-way

captureVars == <<writer, capture_path, observer, chunk_buf, enabled, current_path, files, stream,
                 asked, sent, ops, said, heard, strays, garbled, short, broken>>

transport == <<writer, capture_path, observer, chunk_buf>>
config == <<enabled, current_path>>
link == <<stream, asked, sent>>
history == <<said, heard, strays, garbled, short, broken>>

NoPath == "none"
Paths == ManualNames \cup DebugNames \cup VinNames

MayFail(op) == IF op \in FileFaults THEN BOOLEAN ELSE {FALSE}

----------------------------------------------------------------------------
(* Lines *)

CR == 13
LF == 10
TAB == 9
BACKSLASH == 92
PROMPT == 62

HexDigit(n) == IF n < 10 THEN 48 + n ELSE 55 + n
HexValue(c) == IF c \in 48..57 THEN c - 48 ELSE IF c \in 65..70 THEN c - 55 ELSE 0

Escapes == (CR :> 114) @@ (LF :> 110) @@ (TAB :> 116) @@ (BACKSLASH :> BACKSLASH)

escape_byte(b) ==
    IF b \in DOMAIN Escapes THEN <<BACKSLASH, Escapes[b]>>
    ELSE IF b \in 32..126 THEN <<b>>
    ELSE <<BACKSLASH, 120, HexDigit(b \div 16), HexDigit(b % 16)>>

escape_bytes(data) == Concat(Map(data, escape_byte))

(* A missing digit counts as 0; a backslash before anything else stays. *)
unescape_str(s) ==
    LET at(i) == IF i <= Len(s) THEN s[i] ELSE 48
        from[i \in 1..(Len(s) + 4)] ==
            IF i > Len(s) THEN <<>>
            ELSE IF s[i] # BACKSLASH THEN <<s[i]>> \o from[i + 1]
            ELSE IF i = Len(s) THEN <<BACKSLASH>>
            ELSE IF s[i + 1] = 120
                 THEN <<16 * HexValue(at(i + 2)) + HexValue(at(i + 3))>> \o from[i + 4]
            ELSE IF \E b \in DOMAIN Escapes : Escapes[b] = s[i + 1]
                 THEN <<CHOOSE b \in DOMAIN Escapes : Escapes[b] = s[i + 1]>> \o from[i + 2]
            ELSE <<BACKSLASH, s[i + 1]>> \o from[i + 2]
    IN  from[1]

Line(dir, data) == [dir |-> dir, text |-> escape_bytes(data)]
Header == Line("#", <<>>)

(* String::from_utf8_lossy, on the single bytes that occur. *)
from_utf8_lossy(bytes) == Map(bytes, LAMBDA b : IF b < 128 THEN b ELSE 65533)

StripCR(raw) == IF raw # <<>> /\ Last(raw) = CR THEN Front(raw) ELSE raw

(* A W line is kept until the next R line or replaced by the next W line. *)
ParseLine(acc, line) ==
    CASE line.dir = "W" ->
            [acc EXCEPT !.pending = {from_utf8_lossy(StripCR(unescape_str(line.text)))}]
      [] line.dir = "R" /\ acc.pending # {} ->
            [pending |-> {},
             pairs |-> Append(acc.pairs, <<CHOOSE c \in acc.pending : TRUE,
                                           from_utf8_lossy(unescape_str(line.text))>>)]
      [] OTHER -> acc

parse_raw_capture(lines) ==
    FoldLeft(ParseLine, [pending |-> {}, pairs |-> <<>>], lines).pairs

----------------------------------------------------------------------------
(* The link.  The answer to command c comes in two chunks, the second with *)
(* the prompt; they hold bytes that need escaping.                         *)

Command(c) == <<64 + c, CR>>
Chunk(c, part) == IF part = 1 THEN <<48 + c, BACKSLASH, 120>> ELSE <<128 + c, LF, PROMPT>>

HasPrompt(chunk) == \E i \in 1..Len(chunk) : chunk[i] = PROMPT

(* Numbers of chunks a read may take: it stops at the prompt. *)
Taken == {n \in 0..Len(stream) : \A i \in 1..(n - 1) : ~HasPrompt(stream[i])}

Complete(n) == n > 0 /\ HasPrompt(stream[n])

(* log_line, log_annotation, flush_chunks.  When the buffer cannot be      *)
(* written a piece of a line is lost and the error is ignored.             *)
log(lines) ==
    \/ /\ files' = IF writer \in garbled \cup {NoPath} THEN files
                   ELSE [files EXCEPT ![writer] = @ \o lines]
       /\ UNCHANGED garbled
    \/ /\ "write" \in FileFaults /\ writer # NoPath
       /\ files' = [files EXCEPT ![writer] = <<>>]
       /\ garbled' = garbled \cup {writer}

observed(n) == IF observer THEN chunk_buf \o SubSeq(stream, 1, n) ELSE chunk_buf

Hear(n) ==
    LET chunks == IF observer THEN {stream[i] : i \in 1..n} ELSE {}
    IN  heard' = IF writer = NoPath THEN heard ELSE [heard EXCEPT ![writer] = @ \cup chunks]

(* The line is logged before the link is asked to write. *)
write(ok, answered) ==
    /\ asked = 0 /\ sent < MaxCommands
    /\ sent' = sent + 1
    /\ log(<<Line("W", Command(sent'))>>)
    /\ asked' = IF ok THEN sent' ELSE 0
    /\ stream' = IF ok /\ answered THEN stream \o <<Chunk(sent', 1), Chunk(sent', 2)>> ELSE stream
    /\ UNCHANGED <<transport, config, ops, said, heard, strays, short, broken>>

flush_chunks(chunks) == Map(chunks, LAMBDA data : Line("R.chunk", data))

bad_Drained(chunks) == chunks
Drained(chunks) == IF writer = NoPath THEN chunks ELSE <<>>

(* A read ends at the prompt, or after a pause with what has come so far. *)
ReadOk(n) ==
    LET chunks == observed(n)
        data == Concat(SubSeq(stream, 1, n))
    IN  /\ n > 0
        /\ log(Append(flush_chunks(chunks), Line("R", data)))
        /\ chunk_buf' = Drained(chunks)
        /\ said' = IF writer = NoPath THEN said
                   ELSE [said EXCEPT ![writer] =
                            Append(@, <<StripCR(Command(asked)), from_utf8_lossy(data)>>)]
        /\ strays' = IF broken THEN strays \cup {stream[i] : i \in 1..n} ELSE strays

(* An error, or a dropped future: what was observed stays in the buffer. *)
ReadFails(n) ==
    /\ ~Complete(n)
    /\ chunk_buf' = observed(n)
    /\ strays' = strays \cup {stream[i] : i \in 1..n}
    /\ UNCHANGED <<files, said, garbled>>

read(n) ==
    /\ asked # 0
    /\ n \in Taken
    /\ ReadOk(n) \/ ReadFails(n)
    /\ Hear(n)
    /\ stream' = After(stream, n)
    /\ asked' = 0
    /\ UNCHANGED <<writer, capture_path, observer, config, sent, ops, short, broken>>

----------------------------------------------------------------------------
(* LoggingTransport's capture operations *)

(* What a failed last flush leaves of a file: its first lines and perhaps  *)
(* a part of the next one.  A line cut before its payload has none, a line *)
(* cut before its direction is none, and R.chunk may be cut to R.          *)
Beginnings(lines) ==
    LET first(n) == SubSeq(lines, 1, n - 1)
    IN  {lines}
        \cup UNION {{first(n)} \cup {Append(first(n), [lines[n] EXCEPT !.text = SubSeq(@, 1, k)]) :
                                        k \in 0..Len(lines[n].text)} : n \in 1..Len(lines)}
        \cup {Append(first(n), Line("R", <<>>)) :
                n \in {i \in 1..Len(lines) : lines[i].dir = "R.chunk"}}

(* The disk once the writer is closed, and the file left short. *)
Closed(flushFails) ==
    IF writer # NoPath /\ flushFails
    THEN {[files EXCEPT ![writer] = lines] : lines \in Beginnings(files[writer])}
    ELSE {files}

Shortened(flushFails) == IF writer # NoPath /\ flushFails THEN {writer} ELSE {}

(* File::create empties the file.  A previous writer is dropped, not       *)
(* stopped: nobody learns that its last flush failed, and when it is on    *)
(* the same path it writes into the new file.                              *)
start_capture(p, notes) ==
    /\ writer' = p
    /\ capture_path' = p
    /\ observer' = TRUE
    /\ \E flushFails \in MayFail("flush") :
            /\ \E disk \in Closed(flushFails) :
                    files' = [disk EXCEPT ![p] = IF writer = p THEN <<>> ELSE <<Header>> \o notes]
            /\ short' = (short \cup Shortened(flushFails)) \ {p}
    /\ said' = [said EXCEPT ![p] = <<>>]
    /\ heard' = [heard EXCEPT ![p] = {}]
    /\ garbled' = IF writer = p THEN garbled \cup {p} ELSE garbled \ {p}
    /\ broken' = FALSE
    /\ UNCHANGED <<chunk_buf, strays>>

NotStarted == UNCHANGED <<transport, files, history>>

stop_capture(flushFails) ==
    /\ observer' = FALSE
    /\ writer' = NoPath
    /\ capture_path' = IF writer # NoPath /\ flushFails THEN capture_path ELSE NoPath
    /\ files' \in Closed(flushFails)
    /\ short' = short \cup Shortened(flushFails)
    /\ broken' = FALSE
    /\ UNCHANGED <<chunk_buf, said, heard, strays, garbled>>

(* The file and what is known of it move from p to q. *)
Moved(f, p, q, none) == [f EXCEPT ![q] = f[p], ![p] = none]
MovedIn(S, p, q) == (S \ {p, q}) \cup (IF p \in S THEN {q} ELSE {})

bad_Appended(q) == [Moved(files, capture_path, q, <<>>) EXCEPT ![q] = <<Header>>]
Appended(q) == Moved(files, capture_path, q, <<>>)

MoveHistory(q) ==
    /\ said' = Moved(said, capture_path, q, <<>>)
    /\ heard' = Moved(heard, capture_path, q, {})
    /\ garbled' = MovedIn(garbled, capture_path, q)
    /\ short' = MovedIn(short, capture_path, q)

(* rename_capture by the step that fails; the writer is closed first.  A   *)
(* path is returned to the session only by the first and last outcomes.    *)
RenameSame(q) == q = capture_path /\ UNCHANGED <<transport, files, history>>

RenameRefused(q) ==
    /\ q # capture_path
    /\ {"mkdir", "flush"} \cap FileFaults # {}
    /\ UNCHANGED <<transport, files, history>>

RenameFails(q) ==
    /\ q # capture_path /\ "rename" \in FileFaults
    /\ writer' = NoPath
    /\ broken' = TRUE
    /\ UNCHANGED <<capture_path, observer, chunk_buf, files, said, heard, strays, garbled, short>>

ReopenFails(q) ==
    /\ q # capture_path /\ "open" \in FileFaults
    /\ writer' = NoPath
    /\ files' = Moved(files, capture_path, q, <<>>)
    /\ MoveHistory(q)
    /\ broken' = TRUE
    /\ UNCHANGED <<capture_path, observer, chunk_buf, strays>>

Renamed(q) ==
    /\ q # capture_path
    /\ writer' = q
    /\ capture_path' = q
    /\ observer' = TRUE
    /\ files' = Appended(q)
    /\ MoveHistory(q)
    /\ UNCHANGED <<chunk_buf, strays, broken>>

----------------------------------------------------------------------------
(* Session's capture operations *)

Op == asked = 0 /\ ops < MaxOps /\ ops' = ops + 1

start_raw_capture(p) ==
    /\ Op
    /\ UNCHANGED <<link, enabled>>
    /\ \/ {"mkdir", "create"} \cap FileFaults # {} /\ NotStarted /\ UNCHANGED current_path
       \/ start_capture(p, <<>>) /\ current_path' = p

bad_stop_raw_capture ==
    /\ Op
    /\ UNCHANGED <<link, enabled>>
    /\ \E flushFails \in MayFail("flush") :
            /\ stop_capture(flushFails)
            /\ current_path' = IF flushFails THEN current_path ELSE NoPath
stop_raw_capture ==
    /\ Op
    /\ UNCHANGED <<link, enabled>>
    /\ \E flushFails \in MayFail("flush") : stop_capture(flushFails)
    /\ current_path' = NoPath

(* What initialize does of it: start_debug_raw_capture, then a note to the *)
(* writer that is then in place.                                           *)
Note == <<Line("N", <<>>)>>

start_debug_raw_capture ==
    /\ Op
    /\ UNCHANGED <<link, enabled>>
    /\ \/ /\ ~enabled \/ writer # NoPath \/ {"mkdir", "create"} \cap FileFaults # {}
          /\ log(Note)
          /\ UNCHANGED <<transport, current_path, said, heard, strays, short, broken>>
       \/ /\ enabled /\ writer = NoPath
          /\ \E p \in DebugNames : start_capture(p, Note) /\ current_path' = p

(* After the VIN has been read. *)
rename_raw_capture_for_vin ==
    /\ Op
    /\ enabled /\ writer # NoPath
    /\ UNCHANGED <<link, enabled>>
    /\ \E q \in VinNames :
            \/ RenameSame(q) /\ current_path' = q
            \/ RenameRefused(q) /\ UNCHANGED current_path
            \/ RenameFails(q) /\ UNCHANGED current_path
            \/ ReopenFails(q) /\ UNCHANGED current_path
            \/ Renamed(q) /\ current_path' = q

set_raw_capture_enabled ==
    /\ Op
    /\ enabled' = ~enabled
    /\ UNCHANGED <<transport, current_path, files, link, history>>

----------------------------------------------------------------------------
CaptureInit ==
    /\ writer = NoPath /\ capture_path = NoPath /\ observer = FALSE /\ chunk_buf = <<>>
    /\ enabled \in BOOLEAN /\ current_path = NoPath
    /\ files = [p \in Paths |-> <<>>]
    /\ stream = <<>> /\ asked = 0 /\ sent = 0 /\ ops = 0
    /\ said = [p \in Paths |-> <<>>] /\ heard = [p \in Paths |-> {}]
    /\ strays = {} /\ garbled = {} /\ short = {} /\ broken = FALSE

CaptureNext ==
    \/ \E ok, answered \in BOOLEAN : write(ok, answered)
    \/ \E n \in 0..Len(stream) : read(n)
    \/ \E p \in ManualNames : start_raw_capture(p)
    \/ stop_raw_capture
    \/ start_debug_raw_capture
    \/ rename_raw_capture_for_vin
    \/ set_raw_capture_enabled

CaptureSpec == CaptureInit /\ [][CaptureNext]_captureVars

----------------------------------------------------------------------------
(* Properties *)

BeginningOf(pairs, exchanges) ==
    \/ pairs = <<>>
    \/ /\ Len(pairs) <= Len(exchanges)
       /\ IsPrefix(Front(pairs), exchanges)
       /\ LET torn == Last(pairs)
              true == exchanges[Len(pairs)]
          IN  /\ torn[1] = true[1]
              /\ torn[2] = <<>> \/ IsPrefix(Front(torn[2]), true[2])

(* A replay of a capture is what the application saw: parse_raw_capture    *)
(* gives exactly the exchanges completed while the file was written, in    *)
(* order and each command with its own answer, across failed exchanges and *)
(* renames (parse_raw_capture, rename_capture, LoggingTransport::read).    *)
(* A file whose last flush failed, which ends at any byte, is replayed as  *)
(* a beginning of them; only the last response may be cut, its last        *)
(* character half an escape, and still under its own command.  A file that *)
(* lost a line promises nothing.                                           *)
ReplayFaithful ==
    \A p \in Paths \ garbled :
        LET pairs == parse_raw_capture(files[p])
        IN  IF p \in short THEN BeginningOf(pairs, said[p]) ELSE pairs = said[p]

(* The last line of a file whose last flush failed may be torn. *)
WholeLines(p) == 1..(IF p \in short THEN Len(files[p]) - 1 ELSE Len(files[p]))

ChunkIndices(p) == {i \in WholeLines(p) : files[p][i].dir = "R.chunk"}

ChunksBefore(lines, i) ==
    LET first == CHOOSE j \in 1..i : /\ \A k \in j..(i - 1) : lines[k].dir = "R.chunk"
                                     /\ j = 1 \/ lines[j - 1].dir # "R.chunk"
    IN  Concat([k \in 1..(i - first) |-> lines[first + k - 1].text])

(* Chunk lines account for the reads (flush_chunks, stop_capture): the     *)
(* chunk lines before an R line end with its bytes, no chunk is logged     *)
(* twice, and a chunk in a file was received while that file was written   *)
(* or is left over from a failed read or rename.  The line that a failed   *)
(* flush may have torn is left out.                                        *)
ChunkLinesTrue ==
    \A p \in Paths \ garbled :
        /\ \A i \in WholeLines(p) :
                files[p][i].dir = "R" => IsSuffix(files[p][i].text, ChunksBefore(files[p], i))
        /\ \A i \in ChunkIndices(p) :
                /\ unescape_str(files[p][i].text) \in heard[p] \cup strays
                /\ \A j \in ChunkIndices(p) : files[p][i].text = files[p][j].text => i = j

(* Session::raw_capture_path names the file being written, and names none  *)
(* when no capture is active, unless a rename failed half-way: the writer  *)
(* is closed by then and both paths keep the old name                      *)
(* (rename_capture, rename_raw_capture_for_vin, stop_raw_capture).         *)
PathIsWriters ==
    /\ writer # NoPath => current_path = writer /\ capture_path = writer
    /\ ~broken /\ writer = NoPath => current_path = NoPath
    /\ broken => writer = NoPath /\ current_path = capture_path /\ current_path # NoPath
=============================================================================

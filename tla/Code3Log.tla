------------------------------ MODULE Code3Log ------------------------------
(***************************************************************************)
(* The Code 3 diagnosis log of src/proxy/code3_request_log.go: a file of   *)
(* JSON lines that is also the state which decides whether an error has    *)
(* been logged before.                                                     *)
(*                                                                         *)
(* A capturer is a goroutine inside capture, with an error that passed its *)
(* first checks (Code 3, not the transient reCAPTCHA one).  The mutex      *)
(* orders the capturers of one process; the steps inside it are separate   *)
(* actions because the file belongs to nobody: it can be deleted at any    *)
(* time, and a write can end early and leave part of a line.               *)
(***************************************************************************)
EXTENDS Integers, Sequences, SequencesExt, FiniteSets

CONSTANTS
  Capturers, NoCapturer,
  Errors,       \* normalised error messages
  NoError,
  MaxTears,     \* writes that end early
  MaxDeletes    \* deletions of the file

ASSUME LogAssumption ==
  NoCapturer \notin Capturers /\ NoError \notin Errors /\ MaxTears \in Nat /\ MaxDeletes \in Nat

VARIABLES
  lines,      \* the file: a sequence of lines, each a sequence of fragments
  ended,      \* the last line of the file has its newline
  exists,     \* the file is there
  mutex,      \* the capturer that holds l.mu
  capturePC,         \* capturePC[g]: where capturer g is
  error,      \* error[g]: the error g captures
  orphan,     \* orphan[g]: the file g has open was deleted
  captured,   \* history: captured[e]: entries of e that capture reported as written
  tears,      \* history: early ends of a write
  deletes     \* history: deletions

logVars == <<lines, ended, exists, mutex, capturePC, error, orphan, captured, tears, deletes>>

CaptureStates == {"idle", "scan", "open", "write", "close"}

Fragments == [error : Errors, whole : BOOLEAN]

LogTypeOK ==
  /\ lines \in Seq(Seq(Fragments))
  /\ ended \in BOOLEAN
  /\ exists \in BOOLEAN
  /\ mutex \in Capturers \cup {NoCapturer}
  /\ capturePC \in [Capturers -> CaptureStates]
  /\ error \in [Capturers -> Errors \cup {NoError}]
  /\ orphan \in [Capturers -> BOOLEAN]
  /\ captured \in [Errors -> Nat]
  /\ tears \in 0 .. MaxTears
  /\ deletes \in 0 .. MaxDeletes

LogInit ==
  /\ lines = << >> /\ ended = TRUE /\ exists = FALSE
  /\ mutex = NoCapturer
  /\ capturePC = [g \in Capturers |-> "idle"]
  /\ error = [g \in Capturers |-> NoError]
  /\ orphan = [g \in Capturers |-> FALSE]
  /\ captured = [e \in Errors |-> 0]
  /\ tears = 0 /\ deletes = 0

Goto(g, l) == capturePC' = [capturePC EXCEPT ![g] = l]

(* capture returns: the deferred Unlock.                                   *)
Leave(g) ==
  /\ Goto(g, "idle") /\ mutex' = NoCapturer
  /\ error' = [error EXCEPT ![g] = NoError]
  /\ orphan' = [orphan EXCEPT ![g] = FALSE]

-----------------------------------------------------------------------------
(* code3ErrorAlreadyLogged: a line that is not exactly one entry does not  *)
(* parse and is passed over; a last line without newline is read too.      *)
Readable(line, e) == line = << [error |-> e, whole |-> TRUE] >>

Logged(e) == \E i \in DOMAIN lines : Readable(lines[i], e)

(* The file after f was appended to it: the rest of a torn line is not     *)
(* cut off first.                                                          *)
Appended(f) ==
  IF ended THEN Append(lines, <<f>>)
  ELSE Front(lines) \o << Append(Last(lines), f) >>

Entry(g) == [error |-> error[g], whole |-> TRUE]

-----------------------------------------------------------------------------
LockNothing(g) ==   \* mutant of Lock
  /\ capturePC[g] = "idle"
  /\ Goto(g, "scan")
  /\ \E e \in Errors : error' = [error EXCEPT ![g] = e]
  /\ UNCHANGED <<lines, ended, exists, mutex, orphan, captured, tears, deletes>>

Lock(g) ==
  /\ capturePC[g] = "idle" /\ mutex = NoCapturer
  /\ mutex' = g
  /\ Goto(g, "scan")
  /\ \E e \in Errors : error' = [error EXCEPT ![g] = e]
  /\ UNCHANGED <<lines, ended, exists, orphan, captured, tears, deletes>>

Scan(g) ==
  /\ capturePC[g] = "scan"
  /\ IF Logged(error[g]) THEN Leave(g) ELSE Goto(g, "open") /\ UNCHANGED <<mutex, error, orphan>>
  /\ UNCHANGED <<lines, ended, exists, captured, tears, deletes>>

OpenTruncate(g) ==   \* mutant of OpenAppend: O_TRUNC for O_APPEND
  /\ capturePC[g] = "open"
  /\ exists' = TRUE /\ lines' = << >> /\ ended' = TRUE
  /\ Goto(g, "write")
  /\ UNCHANGED <<mutex, error, orphan, captured, tears, deletes>>

OpenAppend(g) ==
  /\ capturePC[g] = "open"
  /\ exists' = TRUE
  /\ Goto(g, "write")
  /\ UNCHANGED <<lines, ended, mutex, error, orphan, captured, tears, deletes>>

WriteEntry(g) ==
  /\ capturePC[g] = "write"
  /\ IF orphan[g]
       THEN UNCHANGED <<lines, ended>>
       ELSE lines' = Appended(Entry(g)) /\ ended' = TRUE
  /\ Goto(g, "close")
  /\ UNCHANGED <<exists, mutex, error, orphan, captured, tears, deletes>>

(* The write ends early, by an error or by the end of the process: a part  *)
(* of the entry, or all of it but the newline, stays in the file.          *)
WriteTorn(g) ==
  /\ capturePC[g] = "write" /\ ~orphan[g] /\ tears < MaxTears
  /\ \E w \in BOOLEAN : lines' = Appended([Entry(g) EXCEPT !.whole = w])
  /\ ended' = FALSE
  /\ tears' = tears + 1
  /\ Leave(g)
  /\ UNCHANGED <<exists, captured, deletes>>

SyncAndClose(g) ==
  /\ capturePC[g] = "close"
  /\ captured' = [captured EXCEPT ![error[g]] = @ + 1]
  /\ Leave(g)
  /\ UNCHANGED <<lines, ended, exists, tears, deletes>>

(* Any other call on the file fails: an error is returned, and what has    *)
(* been written stays.                                                     *)
CaptureFails(g) ==
  /\ capturePC[g] # "idle"
  /\ Leave(g)
  /\ UNCHANGED <<lines, ended, exists, captured, tears, deletes>>

(* The operator deletes the file; a capturer that has it open writes on,   *)
(* and reports an entry that nobody can read.                              *)
Delete ==
  /\ exists /\ deletes < MaxDeletes
  /\ lines' = << >> /\ ended' = TRUE /\ exists' = FALSE
  /\ orphan' = [g \in Capturers |-> capturePC[g] \in {"write", "close"}]
  /\ deletes' = deletes + 1
  /\ UNCHANGED <<mutex, capturePC, error, captured, tears>>

Capture(g) ==
  \/ Lock(g) \/ Scan(g) \/ OpenAppend(g) \/ WriteEntry(g) \/ WriteTorn(g)
  \/ SyncAndClose(g) \/ CaptureFails(g)

(* The process ends: nobody captures, and the file stays.                  *)
Abandon ==
  /\ capturePC' = [g \in Capturers |-> "idle"]
  /\ mutex' = NoCapturer
  /\ error' = [g \in Capturers |-> NoError]
  /\ orphan' = [g \in Capturers |-> FALSE]
  /\ UNCHANGED <<lines, ended, exists, captured, tears, deletes>>

-----------------------------------------------------------------------------
(* Properties.                                                             *)

Holds(line, e) == \E i \in DOMAIN line : line[i] = [error |-> e, whole |-> TRUE]

(* An error is in the file once: the second of two requests that fail with *)
(* it at the same time finds the entry of the first, also when a capture   *)
(* has failed after its write and when the file was deleted in between.    *)
(* A write that ends early can break this, once: the next entry joins the  *)
(* line it left, where no later scan finds it.                             *)
OneEntryPerTear ==
  \A e \in Errors : Cardinality({i \in DOMAIN lines : Holds(lines[i], e)}) <= 1 + tears

(* Of all entries of an error that captures of this and of earlier         *)
(* processes reported as written, a deletion of the file costs one at      *)
(* most, and any other is there to be read, so long as no write ended      *)
(* early: also when the file is deleted between a scan and its append, or  *)
(* while it is open, so that the report is of an entry that is gone.       *)
ReportedIsReadable ==
  tears = 0 => \A e \in Errors : captured[e] <= deletes + (IF Logged(e) THEN 1 ELSE 0)
=============================================================================

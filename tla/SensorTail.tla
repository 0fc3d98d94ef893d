----------------------------- MODULE SensorTail -----------------------------
(* The Agent's two sensors that follow a log file: the authentication log   *)
(* (agent/sshwatch.go) and the runtime sensor's events (runtimewatch.go).   *)
(* Poll reads from the checkpoint to the end of the file, the events are    *)
(* queued, Commit writes the new checkpoint (agent/runner.go).  The log is  *)
(* rotated or truncated at any time; the Agent dies at any time.            *)
(*                                                                           *)
(* The file is a sequence of pieces of one length: a whole line the sensor  *)
(* reports (hit) or not (miss), the first piece of a line above the size    *)
(* bound (over), and its last one (end).  Every line has a number: lines of *)
(* equal text carry different times.                                        *)
EXTENDS SequencesExt, Integers

CONSTANTS
    Sources,        \* a subset of {"auth", "runtime"}
    MaxLines,       \* lines ever written
    MaxLength,      \* pieces in the file
    MaxRead,        \* pieces one poll reads (code: 4 MiB, 2 MiB)
    MaxEvents,      \* events after which a poll stops (code: 500, 200)
    MaxInode        \* rotations explored

VARIABLES
    source,         \* the sensor of this behaviour
    log,            \* the file: its inode and pieces
    written,        \* lines written so far
    saved,          \* the checkpoint on disk
    poll,           \* a poll under way
    known           \* events queued, by id; the Controller ignores a repeat

vars == <<source, log, written, saved, poll, known>>

(* `cut' is not in the code: it counts the truncations of the file, and in *)
(* a checkpoint names the contents its offset was taken in.                  *)
NoCheckpoint ==
    [inode |-> 0, generation |-> 0, offset |-> 0, discarding |-> FALSE, cut |-> 0]
Idle == [at |-> "idle", to |-> NoCheckpoint, events |-> {}]

EventId(c, place, line) == <<c.inode, c.generation, place, line>>

(* A replaced or truncated file starts a new generation at its beginning.  *)
(* A file that has grown past the offset again is not seen to be another.   *)
Adopt(c) ==
    IF c.inode # log.inode \/ Len(log.pieces) < c.offset
    THEN [inode |-> log.inode, generation |-> c.generation + 1, offset |-> 0,
          discarding |-> FALSE, cut |-> log.cut]
    ELSE c

(* One piece: what is reported, and whether an oversized line is still     *)
(* being thrown away.                                                        *)
Reports(piece, discarding) == ~discarding /\ piece.is \in {"hit", "over"}

ReadPiece(r, piece) ==
    IF Cardinality(r.events) >= MaxEvents THEN r
    ELSE [to |-> [r.to EXCEPT
              !.offset = @ + 1,
              !.discarding = piece.is = "over"],
          events |-> r.events \cup
              (IF Reports(piece, r.to.discarding)
               THEN {EventId(r.to, r.to.offset, piece.line)} ELSE {})]

Window(c) ==
    SubSeq(log.pieces, c.offset + 1,
           IF Len(log.pieces) < c.offset + MaxRead THEN Len(log.pieces)
           ELSE c.offset + MaxRead)

ReadFrom(c) == FoldLeft(ReadPiece, [to |-> c, events |-> {}], Window(c))

(* The runtime sensor ends in an error at a line above the bound. *)
Stuck(c) ==
    /\ source = "runtime"
    /\ \E i \in 1 .. ReadFrom(c).to.offset - c.offset : Window(c)[i].is = "over"

Poll ==
    /\ poll = Idle
    /\ IF saved = NoCheckpoint
       THEN poll' = [at |-> "queue", events |-> {},
                     to |-> [inode |-> log.inode, generation |-> 1,
                             offset |-> Len(log.pieces), discarding |-> FALSE,
                             cut |-> log.cut]]
       ELSE LET c == Adopt(saved) IN
            /\ ~Stuck(c)
            /\ poll' = [at |-> "queue", to |-> ReadFrom(c).to,
                        events |-> ReadFrom(c).events]
    /\ UNCHANGED <<source, log, written, saved, known>>

Enqueue ==
    /\ poll.at = "queue"
    /\ known' = known \cup poll.events
    /\ poll' = [poll EXCEPT !.at = "commit"]
    /\ UNCHANGED <<source, log, written, saved>>

\* Fault: the checkpoint moves although the queue has refused the events.
RefusedButCommitted ==
    /\ poll.at = "queue" /\ poll.events # {}
    /\ poll' = Idle /\ saved' = poll.to
    /\ UNCHANGED <<source, log, written, known>>
QueueRefuses ==
    /\ poll.at = "queue" /\ poll.events # {}
    /\ poll' = Idle
    /\ UNCHANGED <<source, log, written, saved, known>>

Commit ==
    /\ poll.at = "commit"
    /\ saved' = poll.to /\ poll' = Idle
    /\ UNCHANGED <<source, log, written, known>>

Dies ==
    /\ poll # Idle /\ poll' = Idle
    /\ UNCHANGED <<source, log, written, saved, known>>

(***************************************************************************)
(* Whoever writes the log.                                                 *)
(***************************************************************************)
Piece(is) == [is |-> is, line |-> written + 1]
Open == Len(log.pieces) > 0 /\ Last(log.pieces).is = "over"

WriteLine ==
    /\ written < MaxLines /\ Len(log.pieces) < MaxLength /\ ~Open
    /\ \E is \in {"hit", "miss", "over"} :
          log' = [log EXCEPT !.pieces = Append(@, Piece(is))]
    /\ written' = written + 1
    /\ UNCHANGED <<source, saved, poll, known>>

EndLine ==
    /\ Open /\ Len(log.pieces) < MaxLength
    /\ log' = [log EXCEPT !.pieces = Append(@, [Last(@) EXCEPT !.is = "end"])]
    /\ UNCHANGED <<source, written, saved, poll, known>>

Rotate ==
    /\ log.inode < MaxInode
    /\ log' = [log EXCEPT !.inode = @ + 1, !.pieces = <<>>]
    /\ UNCHANGED <<source, written, saved, poll, known>>

Truncate ==
    /\ log.pieces # <<>> /\ written < MaxLines
    /\ log' = [log EXCEPT !.pieces = <<>>, !.cut = @ + 1]
    /\ UNCHANGED <<source, written, saved, poll, known>>

Init ==
    /\ source \in Sources
    /\ log = [inode |-> 1, pieces |-> <<>>, cut |-> 0] /\ written = 0
    /\ saved = NoCheckpoint /\ poll = Idle /\ known = {}

Next ==
    \/ Poll \/ Enqueue \/ QueueRefuses \/ Commit \/ Dies
    \/ WriteLine \/ EndLine \/ Rotate \/ Truncate

Spec == Init /\ [][Next]_vars

(* Five seconds between polls; the Agent does not die, nor the queue        *)
(* refuse, in every single poll.                                             *)
Fairness == SF_vars(Poll) /\ SF_vars(Enqueue) /\ SF_vars(Commit)

FairSpec == Spec /\ Fairness

(***************************************************************************)
(* A line has one event id for ever: a poll repeated after a crash, or a   *)
(* line that is read again in another generation, never counts twice.       *)
OncePerLine == \A e, f \in known : e[4] = f[4] => e = f

(* A line that lies ahead of the checkpoint is reported at last, whatever  *)
(* is written after it and however long an oversized line before it is,     *)
(* unless the file is rotated or truncated first.  A truncated file that    *)
(* has grown past the offset by the next poll is not seen to be new: the    *)
(* lines below the offset are lost, and none is promised.                    *)
Ahead(n) ==
    /\ source = "auth" /\ saved.inode = log.inode /\ saved.cut = log.cut
    /\ poll # Idle => poll.to.inode = log.inode /\ poll.to.cut = log.cut
    /\ Len(log.pieces) > saved.offset
    /\ \E i \in saved.offset + 1 .. Len(log.pieces) :
          log.pieces[i] = [is |-> "hit", line |-> n]

Gone(n) == \A i \in DOMAIN log.pieces : log.pieces[i].line # n

LinesAreReported ==
    \A n \in 1 .. MaxLines :
        Ahead(n) ~> (Gone(n) \/ \E e \in known : e[4] = n)

(* A suspicious line is reported, and counts once.                         *)
LinesAreReportedOnce == []OncePerLine /\ LinesAreReported
=============================================================================

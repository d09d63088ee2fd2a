----------------------------- MODULE DepthSensor -----------------------------
(***************************************************************************)
(* The pressureSensor node (pressure_sensor.cpp).  An Arduino prints one   *)
(* line per reading on a serial port; every 100 ms the node drains the     *)
(* port and publishes the newest line on depth_data.                       *)
(*                                                                         *)
(* The tty is the queue of complete lines that canonical mode keeps in the *)
(* kernel.  Lines arrive between any two steps of a drain; there is no     *)
(* flow control, so a line that finds the queue full is lost.  A line is   *)
(* its number and whether parse_depth_line accepts it: "D " and a number,  *)
(* as opposed to a boot message, a line cut by noise, or an empty line.    *)
(***************************************************************************)
EXTENDS Integers, Sequences

CONSTANTS MaxLines,  \* bound: lines the Arduino prints
          TtySize,   \* bound: lines the kernel buffers
          NoLine     \* got_line = false

ASSUME DepthSensorAssumption ==
  /\ MaxLines \in Nat /\ TtySize \in Nat
  /\ NoLine \notin [number : Nat, parses : BOOLEAN]

VARIABLES
  tty,          \* lines buffered and not yet read
  plugged,      \* FALSE once the port has been hung up
  node,         \* where read_and_publish is: "idle", "draining" (its loop), "parsing"
  latest_line,  \* its local variable, NoLine while got_line is false
  published,    \* numbers of the lines published so far
  \* history
  printed,      \* lines printed so far
  buffered,     \* number of the last line that went into the tty
  found_empty   \* buffered, when this drain found the tty empty; 0: it did not

arduino == <<plugged, printed, buffered>>
vars == <<tty, arduino, node, latest_line, published, found_empty>>

Line == [number : 1 .. MaxLines, parses : BOOLEAN]

TypeOK ==
  /\ tty \in Seq(Line) /\ Len(tty) <= TtySize
  /\ plugged \in BOOLEAN /\ node \in {"idle", "draining", "parsing"}
  /\ latest_line \in Line \cup {NoLine}
  /\ published \in Seq(1 .. MaxLines)
  /\ printed \in 0 .. MaxLines /\ buffered \in 0 .. MaxLines
  /\ found_empty \in 0 .. MaxLines

Init ==
  /\ tty = <<>> /\ plugged = TRUE
  /\ node = "idle" /\ latest_line = NoLine
  /\ published = <<>>
  /\ printed = 0 /\ buffered = 0 /\ found_empty = 0

-----------------------------------------------------------------------------
(* The other end of the cable.                                             *)
println(parses) ==
  /\ plugged /\ printed < MaxLines
  /\ printed' = printed + 1
  /\ IF Len(tty) < TtySize
     THEN /\ tty' = Append(tty, [number |-> printed + 1, parses |-> parses])
          /\ buffered' = printed + 1
     ELSE UNCHANGED <<tty, buffered>>
  /\ UNCHANGED <<plugged, node, latest_line, published, found_empty>>

\* The USB plug is pulled: the kernel hangs the tty up and drops its input.
unplug ==
  /\ plugged
  /\ plugged' = FALSE /\ tty' = <<>>
  /\ UNCHANGED <<printed, buffered, node, latest_line, published, found_empty>>

-----------------------------------------------------------------------------
(* read_and_publish.  X_Something is a plausible mistake in X, used to test *)
(* that the properties notice it.                                           *)

\* "bool got_line = false" at the start of every drain.
Forgotten_Member(line) == line
Forgotten(line) == NoLine

timer ==
  /\ node = "idle"
  /\ node' = "draining"
  /\ latest_line' = Forgotten(latest_line)
  /\ UNCHANGED <<tty, arduino, published, found_empty>>

\* "latest_line = buffer": a later line replaces an earlier one.
Newer_KeepFirst(line) == IF latest_line = NoLine THEN line ELSE latest_line
Newer(line) == line

\* bytes_read > 0.
read_line ==
  /\ node = "draining" /\ tty # <<>>
  /\ latest_line' = Newer(Head(tty))
  /\ tty' = Tail(tty)
  /\ UNCHANGED <<arduino, node, published, found_empty>>

\* EAGAIN: the buffer is empty.
read_again ==
  /\ node = "draining" /\ plugged /\ tty = <<>>
  /\ node' = "parsing"
  /\ found_empty' = buffered
  /\ UNCHANGED <<tty, arduino, latest_line, published>>

\* bytes_read = 0: a port that has been hung up is at its end of file, and noise
\* that reads as ^D, the end-of-file character of canonical mode, looks the same.
read_eof ==
  /\ node = "draining"
  /\ node' = "parsing"
  /\ UNCHANGED <<tty, arduino, latest_line, published, found_empty>>

\* Any other errno: the function returns, with what it has read so far.
read_error ==
  /\ node = "draining"
  /\ node' = "idle"
  /\ UNCHANGED <<tty, arduino, latest_line, published, found_empty>>

\* "if (!got_line) return", then the newest line is parsed and published only if
\* it parses; depth starts as 0.0.
Published_DefaultDepth(line) ==
  Append(published, IF line # NoLine /\ line.parses THEN line.number ELSE 0)
Published(line) == IF line # NoLine /\ line.parses
                   THEN Append(published, line.number) ELSE published

parse_and_publish ==
  /\ node = "parsing"
  /\ node' = "idle"
  /\ published' = Published(latest_line)
  /\ found_empty' = 0
  /\ UNCHANGED <<tty, arduino, latest_line>>

Next ==
  \/ \E parses \in BOOLEAN : println(parses)
  \/ unplug \/ timer \/ read_line \/ read_again \/ read_eof \/ read_error
  \/ parse_and_publish

Spec == Init /\ [][Next]_vars

-----------------------------------------------------------------------------
(* Properties.                                                             *)

\* Depths reach the filter in the order they were measured, each at most once:
\* no drain publishes a line again that an earlier one has published, or one
\* that is older.
PublishedInOrder ==
  \A i, j \in DOMAIN published : i < j => published[i] < published[j]

\* pressure_sensor.cpp:115: "Drops stale lines so we never lag behind".  What a
\* drain publishes that has met the end of the buffer is the last line that had
\* come in by then, however many lines came in between its reads.  (Newer are only
\* lines that came in after its last read, or that found the buffer full.)
NeverLagsBehind ==
  [][published' # published /\ found_empty # 0 =>
       published' = Append(published, found_empty)]_vars
=============================================================================

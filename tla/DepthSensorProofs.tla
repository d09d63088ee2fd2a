-------------------------- MODULE DepthSensorProofs --------------------------
(***************************************************************************)
(* Proofs about DepthSensor, for every number of lines and every size of   *)
(* the kernel's buffer.  The lines in the tty are in the order they were   *)
(* printed and end with the last one that found room; everything the node  *)
(* has read or published is older than they are; the rest follows.         *)
(***************************************************************************)
EXTENDS DepthSensor, TLAPS

TtyInOrder ==
  /\ buffered <= printed
  /\ \A i \in 1 .. Len(tty) : tty[i].number <= buffered
  /\ \A i, j \in 1 .. Len(tty) : i < j => tty[i].number < tty[j].number
  /\ Len(tty) > 0 => tty[Len(tty)].number = buffered
  /\ ~plugged => Len(tty) = 0

LatestIsRead ==
  node # "idle" /\ latest_line # NoLine =>
    /\ latest_line.number <= buffered
    /\ \A i \in 1 .. Len(tty) : latest_line.number < tty[i].number
    /\ \A i \in 1 .. Len(published) : published[i] < latest_line.number
    /\ plugged /\ Len(tty) = 0 => latest_line.number = buffered

FoundEmpty ==
  /\ node # "parsing" => found_empty = 0
  /\ node = "parsing" /\ found_empty # 0 /\ latest_line # NoLine =>
       latest_line.number = found_empty

PublishedIsOlder ==
  \A i \in 1 .. Len(published) :
    /\ published[i] <= buffered
    /\ \A j \in 1 .. Len(tty) : published[i] < tty[j].number

DInv == /\ TypeOK /\ TtyInOrder /\ LatestIsRead /\ FoundEmpty
        /\ PublishedIsOlder /\ PublishedInOrder

\* Initially nothing has been printed, read or published.
LEMMA InitInv == Init => DInv
<1> SUFFICES ASSUME Init PROVE DInv
  OBVIOUS
<1>1. tty \in Seq(Line) /\ Len(tty) = 0
  BY DEF Init
<1>2. published \in Seq(1 .. MaxLines) /\ Len(published) = 0
  BY DEF Init
<1>3. /\ printed = 0 /\ buffered = 0 /\ found_empty = 0
      /\ plugged = TRUE /\ node = "idle" /\ latest_line = NoLine
  BY DEF Init
<1>4. TypeOK
  BY <1>1, <1>2, <1>3, DepthSensorAssumption DEF TypeOK
<1>5. TtyInOrder
  BY <1>1, <1>3 DEF TtyInOrder
<1>6. LatestIsRead /\ FoundEmpty
  BY <1>3 DEF LatestIsRead, FoundEmpty
<1>7. PublishedIsOlder /\ PublishedInOrder
  BY <1>2 DEF PublishedIsOlder, PublishedInOrder
<1> QED
  BY <1>4, <1>5, <1>6, <1>7 DEF DInv

\* A line is not NoLine.
LEMMA LineIsALine == \A line \in Line : line # NoLine /\ line.number \in 1 .. MaxLines
<1>1. Line \subseteq [number : Nat, parses : BOOLEAN]
  BY DepthSensorAssumption DEF Line
<1> QED
  BY <1>1, DepthSensorAssumption DEF Line

\* The types that the arithmetic of the steps below needs.
LEMMA Numbers ==
  ASSUME TypeOK
  PROVE  /\ Len(tty) \in Nat /\ Len(published) \in Nat
         /\ printed \in Nat /\ buffered \in Nat /\ MaxLines \in Nat
         /\ \A i \in 1 .. Len(tty) : tty[i] \in Line /\ tty[i].number \in Nat
         /\ \A i \in 1 .. Len(published) : published[i] \in Nat
         /\ latest_line # NoLine => latest_line \in Line /\ latest_line.number \in Nat
<1>1. tty \in Seq(Line) /\ published \in Seq(1 .. MaxLines)
  BY DEF TypeOK
<1>2. Len(tty) \in Nat /\ Len(published) \in Nat
  BY <1>1
<1>3. printed \in Nat /\ buffered \in Nat /\ MaxLines \in Nat
  BY DepthSensorAssumption DEF TypeOK
<1>4. \A i \in 1 .. Len(tty) : tty[i] \in Line
  BY <1>1
<1>5. \A i \in 1 .. Len(published) : published[i] \in Nat
  <2> DEFINE S == 1 .. MaxLines
  <2>1. published \in Seq(S) /\ \A n \in S : n \in Nat
    BY <1>1, <1>3
  <2> HIDE DEF S
  <2> QED
    BY <2>1
<1>6. \A line \in Line : line.number \in Nat
  BY <1>3, LineIsALine
<1> QED
  BY <1>2, <1>3, <1>4, <1>5, <1>6 DEF TypeOK

\* The Arduino prints a line, which is lost if the queue is full.
LEMMA PrintlnInv ==
  ASSUME DInv, NEW parses \in BOOLEAN, println(parses)
  PROVE  DInv'
<1> DEFINE line == [number |-> printed + 1, parses |-> parses]
<1>1. /\ printed' = printed + 1 /\ plugged /\ printed < MaxLines
      /\ UNCHANGED <<plugged, node, latest_line, published, found_empty>>
  BY DEF println
<1>2. TypeOK /\ buffered <= printed
  BY DEF DInv, TtyInOrder
<1>3. printed' \in 0 .. MaxLines /\ buffered <= printed'
  BY <1>1, <1>2, Numbers
<1>4. CASE ~(Len(tty) < TtySize)
  <2>1. UNCHANGED <<tty, buffered>>
    BY <1>4 DEF println
  <2>2. TypeOK'
    BY <1>1, <1>2, <1>3, <2>1 DEF TypeOK
  <2> QED
    BY <1>1, <1>3, <2>1, <2>2
       DEF DInv, TtyInOrder, LatestIsRead, FoundEmpty, PublishedIsOlder, PublishedInOrder
<1>5. CASE Len(tty) < TtySize
  <2>1. tty' = Append(tty, line) /\ buffered' = printed + 1
    BY <1>5 DEF println
  <2>2. line \in Line /\ line.number = printed + 1
    BY <1>1, <1>2, Numbers DEF Line
  <2> HIDE DEF line
  <2>3. /\ tty' \in Seq(Line) /\ Len(tty') = Len(tty) + 1
        /\ \A i \in 1 .. Len(tty) : tty'[i] = tty[i]
        /\ tty'[Len(tty) + 1] = line
    BY <1>2, <2>1, <2>2 DEF TypeOK
  <2>4. ASSUME NEW i \in 1 .. Len(tty')
        PROVE  i \in 1 .. Len(tty) \/ i = Len(tty) + 1
    BY <1>2, <2>3, Numbers
  <2>5. \A n \in Nat : n <= buffered => n < buffered' /\ n <= buffered'
    BY <1>2, <2>1, Numbers
  <2>6. line.number = buffered'
    BY <2>1, <2>2
  <2>7. TypeOK'
    <3>1. Len(tty') <= TtySize
      BY <1>2, <1>5, <2>3, Numbers, DepthSensorAssumption
    <3>2. buffered' \in 0 .. MaxLines
      BY <1>1, <1>3, <2>1
    <3> QED
      BY <1>1, <1>2, <1>3, <2>3, <3>1, <3>2 DEF TypeOK
  <2>8. TtyInOrder'
    <3>1. \A i \in 1 .. Len(tty') : tty'[i].number <= buffered'
      <4> SUFFICES ASSUME NEW i \in 1 .. Len(tty') PROVE tty'[i].number <= buffered'
        OBVIOUS
      <4>1. CASE i \in 1 .. Len(tty)
        BY <1>2, <2>3, <2>5, <4>1, Numbers DEF DInv, TtyInOrder
      <4>2. CASE i = Len(tty) + 1
        BY <1>2, <2>1, <2>3, <2>6, <4>2, Numbers
      <4> QED
        BY <2>4, <4>1, <4>2
    <3>2. ASSUME NEW i \in 1 .. Len(tty'), NEW j \in 1 .. Len(tty'), i < j
          PROVE  tty'[i].number < tty'[j].number
      <4>1. i \in 1 .. Len(tty)
        BY <1>2, <2>3, <3>2, Numbers
      <4>2. CASE j = Len(tty) + 1
        BY <1>2, <2>3, <2>5, <2>6, <4>1, <4>2, Numbers DEF DInv, TtyInOrder
      <4>3. CASE j \in 1 .. Len(tty)
        BY <2>3, <3>2, <4>1, <4>3 DEF DInv, TtyInOrder
      <4> QED
        BY <2>4, <4>2, <4>3
    <3>3. buffered' <= printed' /\ tty'[Len(tty')].number = buffered'
      BY <1>1, <1>2, <2>1, <2>3, <2>6, Numbers
    <3> QED
      BY <1>1, <3>1, <3>2, <3>3 DEF TtyInOrder
  <2>9. LatestIsRead'
    <3> SUFFICES ASSUME node # "idle", latest_line # NoLine
                 PROVE  /\ latest_line.number <= buffered'
                        /\ \A i \in 1 .. Len(tty') : latest_line.number < tty'[i].number
                        /\ \A i \in 1 .. Len(published) : published[i] < latest_line.number
                        /\ Len(tty') # 0
      BY <1>1 DEF LatestIsRead
    <3>1. latest_line.number <= buffered /\ latest_line.number \in Nat
      BY <1>2, Numbers DEF DInv, LatestIsRead
    <3>2. \A i \in 1 .. Len(tty') : latest_line.number < tty'[i].number
      BY <2>3, <2>4, <2>5, <2>6, <3>1 DEF DInv, LatestIsRead
    <3>3. Len(tty') # 0
      BY <1>2, <2>3, Numbers
    <3> QED
      BY <2>5, <3>1, <3>2, <3>3 DEF DInv, LatestIsRead
  <2>10. PublishedIsOlder'
    <3> SUFFICES ASSUME NEW i \in 1 .. Len(published)
                 PROVE  /\ published[i] <= buffered'
                        /\ \A j \in 1 .. Len(tty') : published[i] < tty'[j].number
      BY <1>1 DEF PublishedIsOlder
    <3>1. published[i] <= buffered /\ published[i] \in Nat
      BY <1>2, Numbers DEF DInv, PublishedIsOlder
    <3> QED
      BY <2>3, <2>4, <2>5, <2>6, <3>1 DEF DInv, PublishedIsOlder
  <2> QED
    BY <1>1, <2>7, <2>8, <2>9, <2>10 DEF DInv, FoundEmpty, PublishedInOrder
<1> QED
  BY <1>4, <1>5

\* The plug is pulled: the lines in the tty are lost.
LEMMA UnplugInv == ASSUME DInv, unplug PROVE DInv'
<1>1. /\ plugged' = FALSE /\ tty' = <<>>
      /\ UNCHANGED <<printed, buffered, node, latest_line, published, found_empty>>
  BY DEF unplug
<1>2. tty' \in Seq(Line) /\ Len(tty') = 0
  BY <1>1
<1>3. TypeOK'
  <2>1. plugged' \in BOOLEAN
    BY <1>1
  <2>2. Len(tty') <= TtySize
    BY <1>2, DepthSensorAssumption
  <2> QED
    BY <1>1, <1>2, <2>1, <2>2 DEF DInv, TypeOK
<1>4. TtyInOrder'
  <2>1. 1 .. Len(tty') = {}
    BY <1>2
  <2> QED
    BY <1>1, <1>2, <2>1 DEF DInv, TtyInOrder
<1>5. LatestIsRead' /\ PublishedIsOlder'
  BY <1>1, <1>2 DEF DInv, LatestIsRead, PublishedIsOlder
<1>6. FoundEmpty' /\ PublishedInOrder'
  BY <1>1 DEF DInv, FoundEmpty, PublishedInOrder
<1> QED
  BY <1>3, <1>4, <1>5, <1>6 DEF DInv

\* One read: the head of the tty becomes the newest line.
LEMMA ReadLineInv ==
  ASSUME DInv, read_line
  PROVE  DInv'
<1>1. /\ node = "draining" /\ tty # <<>> /\ latest_line' = Head(tty) /\ tty' = Tail(tty)
      /\ UNCHANGED <<plugged, printed, buffered, node, published, found_empty>>
  BY DEF read_line, Newer, arduino
<1>2. TypeOK
  BY DEF DInv
<1>3. Len(tty) \in Nat /\ Len(tty) > 0
  <2>1. tty \in Seq(Line)
    BY <1>2 DEF TypeOK
  <2> QED
    BY <1>1, <2>1
<1>4. /\ tty' \in Seq(Line) /\ Len(tty') = Len(tty) - 1
      /\ \A i \in 1 .. Len(tty') : tty'[i] = tty[i + 1]
      /\ latest_line' = tty[1] /\ latest_line' \in Line
  BY <1>1, <1>2, <1>3 DEF TypeOK
<1>5. 1 \in 1 .. Len(tty) /\ \A i \in 1 .. Len(tty') : i + 1 \in 1 .. Len(tty) /\ 1 < i + 1
  BY <1>3, <1>4
<1>6. TypeOK'
  <2>1. Len(tty') <= TtySize
    BY <1>2, <1>3, <1>4, DepthSensorAssumption DEF TypeOK
  <2> QED
    BY <1>1, <1>2, <1>4, <2>1 DEF TypeOK
<1>7. TtyInOrder'
  <2>1. \A i, j \in 1 .. Len(tty') : i < j => tty'[i].number < tty'[j].number
    BY <1>4, <1>5 DEF DInv, TtyInOrder
  <2>2. Len(tty') > 0 => tty'[Len(tty')].number = buffered
    BY <1>3, <1>4 DEF DInv, TtyInOrder
  <2> QED
    BY <1>1, <1>3, <1>4, <1>5, <2>1, <2>2 DEF DInv, TtyInOrder
<1>8. LatestIsRead'
  <2>1. latest_line'.number <= buffered
    BY <1>4, <1>5 DEF DInv, TtyInOrder
  <2>2. \A i \in 1 .. Len(tty') : latest_line'.number < tty'[i].number
    BY <1>4, <1>5 DEF DInv, TtyInOrder
  <2>3. \A i \in 1 .. Len(published) : published[i] < latest_line'.number
    BY <1>4, <1>5 DEF DInv, PublishedIsOlder
  <2>4. Len(tty') = 0 => latest_line'.number = buffered
    <3>1. tty[Len(tty)].number = buffered
      BY <1>3 DEF DInv, TtyInOrder
    <3>2. Len(tty') = 0 => Len(tty) = 1
      BY <1>3, <1>4
    <3> QED
      BY <1>4, <3>1, <3>2
  <2> QED
    BY <1>1, <2>1, <2>2, <2>3, <2>4 DEF LatestIsRead
<1>9. FoundEmpty'
  BY <1>1 DEF DInv, FoundEmpty
<1>10. PublishedIsOlder' /\ PublishedInOrder'
  BY <1>1, <1>4, <1>5 DEF DInv, PublishedIsOlder, PublishedInOrder
<1> QED
  BY <1>6, <1>7, <1>8, <1>9, <1>10 DEF DInv

\* EAGAIN: the line read last is the last one that had found room.
LEMMA ReadAgainInv == ASSUME DInv, read_again PROVE DInv'
<1>1. /\ node = "draining" /\ plugged /\ tty = <<>>
      /\ node' = "parsing" /\ found_empty' = buffered
      /\ UNCHANGED <<tty, plugged, printed, buffered, latest_line, published>>
  BY DEF read_again, arduino
<1>2. TypeOK'
  BY <1>1 DEF DInv, TypeOK
<1>3. FoundEmpty'
  BY <1>1 DEF DInv, FoundEmpty, LatestIsRead
<1> QED
  BY <1>1, <1>2, <1>3 DEF DInv, TtyInOrder, LatestIsRead, PublishedIsOlder, PublishedInOrder

\* The end of a drain: the newest line is published if it parses.
LEMMA PublishInv ==
  ASSUME DInv, parse_and_publish
  PROVE  DInv'
<1>1. /\ node = "parsing" /\ node' = "idle" /\ found_empty' = 0
      /\ UNCHANGED <<tty, plugged, printed, buffered, latest_line>>
      /\ published' = Published(latest_line)
  BY DEF parse_and_publish, arduino
<1>2. TypeOK
  BY DEF DInv
<1>3. TtyInOrder' /\ LatestIsRead' /\ FoundEmpty'
  BY <1>1 DEF DInv, TtyInOrder, LatestIsRead, FoundEmpty
<1>4. CASE ~(latest_line # NoLine /\ latest_line.parses)
  <2>1. published' = published
    BY <1>1, <1>4 DEF Published
  <2>2. TypeOK'
    BY <1>1, <1>2, <2>1, Numbers DEF TypeOK
  <2> QED
    BY <1>1, <1>3, <2>1, <2>2 DEF DInv, PublishedIsOlder, PublishedInOrder
<1>5. CASE latest_line # NoLine /\ latest_line.parses
  <2>1. published' = Append(published, latest_line.number)
    BY <1>1, <1>5 DEF Published
  <2>2. latest_line.number \in 1 .. MaxLines
    BY <1>2, <1>5, LineIsALine DEF TypeOK
  <2>3. /\ published' \in Seq(1 .. MaxLines) /\ Len(published') = Len(published) + 1
        /\ \A i \in 1 .. Len(published) : published'[i] = published[i]
        /\ published'[Len(published) + 1] = latest_line.number
    BY <1>2, <2>1, <2>2 DEF TypeOK
  <2>4. TypeOK'
    BY <1>1, <1>2, <2>3, Numbers DEF TypeOK
  <2>5. /\ latest_line.number <= buffered
        /\ \A i \in 1 .. Len(tty) : latest_line.number < tty[i].number
        /\ \A i \in 1 .. Len(published) : published[i] < latest_line.number
    BY <1>1, <1>5 DEF DInv, LatestIsRead
  <2>6. ASSUME NEW i \in 1 .. Len(published')
        PROVE  i \in 1 .. Len(published) \/ i = Len(published) + 1
    BY <1>2, <2>3, Numbers
  <2>7. PublishedIsOlder'
    BY <1>1, <2>3, <2>5, <2>6 DEF DInv, PublishedIsOlder
  <2>8. PublishedInOrder'
    <3>1. DOMAIN published' = 1 .. Len(published') /\ DOMAIN published = 1 .. Len(published)
      BY <1>2, <2>3 DEF TypeOK
    <3> SUFFICES ASSUME NEW i \in 1 .. Len(published'), NEW j \in 1 .. Len(published'), i < j
                 PROVE  published'[i] < published'[j]
      BY <3>1 DEF PublishedInOrder
    <3>2. i \in 1 .. Len(published)
      BY <1>2, <2>3, Numbers
    <3>3. CASE j = Len(published) + 1
      BY <2>3, <2>5, <3>2, <3>3
    <3>4. CASE j \in 1 .. Len(published)
      BY <2>3, <3>1, <3>2, <3>4 DEF DInv, PublishedInOrder
    <3> QED
      BY <2>6, <3>3, <3>4
  <2> QED
    BY <1>3, <2>4, <2>7, <2>8 DEF DInv
<1> QED
  BY <1>4, <1>5

\* Starting a drain, the end of the file and a read error touch only the local
\* variables.
LEMMA TimerInv == ASSUME DInv, timer PROVE DInv'
<1>1. /\ node = "idle" /\ node' = "draining" /\ latest_line' = NoLine
      /\ UNCHANGED <<tty, plugged, printed, buffered, published, found_empty>>
  BY DEF timer, Forgotten, arduino
<1>2. TypeOK'
  BY <1>1 DEF DInv, TypeOK
<1> QED
  BY <1>1, <1>2
  DEF DInv, TtyInOrder, LatestIsRead, FoundEmpty, PublishedIsOlder, PublishedInOrder

LEMMA ReadEndsInv == ASSUME DInv, read_eof \/ read_error PROVE DInv'
<1>1. /\ node = "draining" /\ node' \in {"parsing", "idle"}
      /\ UNCHANGED <<tty, plugged, printed, buffered, latest_line, published, found_empty>>
  BY DEF read_eof, read_error, arduino
<1>2. TypeOK'
  BY <1>1 DEF DInv, TypeOK
<1> QED
  BY <1>1, <1>2
  DEF DInv, TtyInOrder, LatestIsRead, FoundEmpty, PublishedIsOlder, PublishedInOrder

LEMMA StutterInv == ASSUME DInv, UNCHANGED vars PROVE DInv'
BY DEF DInv, TypeOK, TtyInOrder, LatestIsRead, FoundEmpty, PublishedIsOlder,
       PublishedInOrder, vars, arduino

LEMMA NextInv == ASSUME DInv, [Next]_vars PROVE DInv'
<1>1. ASSUME NEW parses \in BOOLEAN, println(parses) PROVE DInv'
  BY <1>1, PrintlnInv
<1>2. CASE unplug
  BY <1>2, UnplugInv
<1>3. CASE timer
  BY <1>3, TimerInv
<1>4. CASE read_line
  BY <1>4, ReadLineInv
<1>5. CASE read_again
  BY <1>5, ReadAgainInv
<1>6. CASE read_eof \/ read_error
  BY <1>6, ReadEndsInv
<1>7. CASE parse_and_publish
  BY <1>7, PublishInv
<1>8. CASE UNCHANGED vars
  BY <1>8, StutterInv
<1> QED
  BY <1>1, <1>2, <1>3, <1>4, <1>5, <1>6, <1>7, <1>8 DEF Next

\* The tty is in order, and what the node has is older.
THEOREM Inductive == Spec => []DInv
BY InitInv, NextInv, PTL DEF Spec

\* Type correctness of the pressure sensor node.
THEOREM TypeCorrect == Spec => []TypeOK
<1>1. DInv => TypeOK
  BY DEF DInv
<1> QED
  BY <1>1, Inductive, PTL

\* Depths are published in the order they were printed, each at most once:
\* got_line and latest_line are local to a drain.
THEOREM InOrder == Spec => []PublishedInOrder
<1>1. DInv => PublishedInOrder
  BY DEF DInv
<1> QED
  BY <1>1, Inductive, PTL

\* What a drain publishes that found the tty empty is the last line that had gone
\* into it by then: the loop keeps the last line it reads, in the tty's order, and
\* on EAGAIN leaves only when there is no later one.
THEOREM NoLag == Spec => NeverLagsBehind
<1> DEFINE Step == published' # published /\ found_empty # 0 =>
                     published' = Append(published, found_empty)
<1>1. ASSUME DInv, [Next]_vars PROVE [Step]_vars
  <2> SUFFICES ASSUME published' # published, found_empty # 0
               PROVE  published' = Append(published, found_empty)
    OBVIOUS
  <2>1. parse_and_publish
    BY <1>1 DEF Next, println, unplug, timer, read_line, read_again, read_eof, read_error, vars
  <2>2. latest_line # NoLine /\ published' = Append(published, latest_line.number)
    BY <2>1 DEF parse_and_publish, Published
  <2>3. latest_line.number = found_empty
    BY <1>1, <2>1, <2>2 DEF DInv, FoundEmpty, parse_and_publish
  <2> QED
    BY <2>2, <2>3
<1> QED
  BY <1>1, Inductive, PTL DEF Spec, NeverLagsBehind
=============================================================================

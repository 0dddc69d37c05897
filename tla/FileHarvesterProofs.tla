-------------------------- MODULE FileHarvesterProofs --------------------------
(***************************************************************************)
(* The stream is the file whose identity was recorded, unless the path     *)
(* comes back in time; lines are ingested once and in order unless the     *)
(* race happens or a file is revisited; and every whole line of acceptable *)
(* length that has been consumed is ingested: for every number and length  *)
(* of lines, buffer size and number of files.                              *)
(***************************************************************************)
EXTENDS FileHarvester, SequenceTheorems, TLAPS

-----------------------------------------------------------------------------
(* The inductive invariant *)

Bytes == Lines \X Nat

\* The types of the variables.
TypeInv ==
    /\ content \in [1..MaxFiles -> Seq(Bytes)]
    /\ files \in 1..MaxFiles /\ path \in 0..files /\ truncations \in Nat
    /\ wfile \in 1..files /\ wline \in Lines /\ wpart \in 0..Written(wline)
    /\ pc \in {"open", "opening", "opened", "sizing", "read", "identity", "size",
               "drain", "close", "done"}
    /\ stop \in BOOLEAN /\ first_open \in BOOLEAN
    /\ raced \in BOOLEAN /\ revisited \in BOOLEAN
    /\ before \in 0..files /\ stream \in 0..files /\ identity \in 0..files
    /\ offset \in Nat /\ start \in Nat
    /\ buffer \in Seq(Bytes) /\ Len(buffer) <= offset
    /\ pending_line \in Seq(Bytes) /\ Len(pending_line) <= MaxLineBytes
    /\ dropping \in BOOLEAN
    /\ ingested \in Seq(Lines)

\* What the thread's place says of the file it opens and of the open file; no byte
\* is buffered unless a file is open.
OpenInv ==
    /\ pc \in {"opening", "opened", "sizing"} => before \in 1..files
    /\ pc \in {"opened", "sizing"} => stream \in 1..files
    /\ pc = "sizing" => stream = before \/ revisited
    /\ FileOpen => stream \in 1..files /\ (stream = identity \/ revisited)
    /\ ~FileOpen => buffer = <<>> /\ pending_line = <<>> /\ ~dropping

-----------------------------------------------------------------------------
(* Order *)

\* The last line the writer has begun.
Begun == IF wpart = 0 THEN 0 ELSE wline

\* The first bytes of the lines follow each other in the files, and nothing is
\* written yet to the files after the writer's.
WrittenInOrder ==
    /\ \A f \in 1..MaxFiles : f > wfile => content[f] = <<>>
    /\ \A f, g \in 1..MaxFiles, m, n \in Lines :
          \A i \in 1..Len(content[f]), j \in 1..Len(content[g]) :
             /\ content[f][i] = <<m, 1>> /\ content[g][j] = <<n, 1>>
             /\ f < g \/ (f = g /\ i < j)
             => m < n

\* No line is in a file before it is begun, and the writer keeps the order as long
\* as it does not go back to a file.
WriterInv ==
    /\ wpart = 0 => wline = 1
    /\ \A f \in 1..MaxFiles, n \in Lines :
          \A i \in 1..Len(content[f]) : content[f][i] = <<n, 1>> => n <= Begun
    /\ revisited \/ WrittenInOrder

\* Line n has been ingested, or the line being assembled begins with its first
\* byte.
Taken(n) ==
    \/ \E i \in 1..Len(ingested) : ingested[i] = n
    \/ pending_line # <<>> /\ pending_line[1] = <<n, 1>>

\* The same, or its first byte is in the buffer.
Fetched(n) == Taken(n) \/ \E j \in 1..Len(buffer) : buffer[j] = <<n, 1>>

\* No line is fetched before it is begun.
BegunInv == \A n \in Lines : Fetched(n) => n <= Begun

\* The harvester may still read byte i of file f: the byte lies behind what was
\* read, the file was truncated, or the file has not been opened yet.
Unread(f, i) ==
    CASE FileOpen -> \/ f > stream
                     \/ f = stream /\ (i > offset \/ Len(content[f]) < offset)
      [] pc = "done" -> FALSE
      [] OTHER -> f > identity

\* The path still names the open file at the size check.
PathInv == pc = "size" => path = stream

\* What is ingested, assembled, buffered and unread is in the order written.
OrderInv ==
    /\ IngestedOnce
    /\ \A n \in Lines :
          pending_line # <<>> /\ pending_line[1] = <<n, 1>>
             => \A i \in 1..Len(ingested) : ingested[i] < n
    /\ \A m, n \in Lines : \A j \in 1..Len(buffer) :
          Taken(m) /\ buffer[j] = <<n, 1>> => m < n
    /\ \A m, n \in Lines : \A j, k \in 1..Len(buffer) :
          j < k /\ buffer[j] = <<m, 1>> /\ buffer[k] = <<n, 1>> => m < n
    /\ \A f \in 1..MaxFiles, m, n \in Lines : \A i \in 1..Len(content[f]) :
          Unread(f, i) /\ Fetched(m) /\ content[f][i] = <<n, 1>> => m < n

OnceInv ==
    /\ TypeInv /\ OpenInv /\ WriterInv /\ BegunInv
    /\ raced \/ revisited \/ (PathInv /\ OrderInv)

-----------------------------------------------------------------------------
(* Whole lines *)

\* A line's bytes follow each other, its first one at the beginning of the file or
\* after a newline.
LayoutInv ==
    \A f \in 1..MaxFiles, n \in Lines : \A i \in 1..Len(content[f]) :
       content[f][i] = <<n, 1>> =>
          /\ i > 1 => content[f][i - 1][2] = 0
          /\ \A k \in 1..Length[n] :
                i + k <= Len(content[f]) => content[f][i + k] = Byte(n, k + 1)

\* What the writer's file ends with, the part of the line written so far or a
\* newline, and what every other file ends with.
EndInv ==
    /\ wpart \in 1..Length[wline] =>
          /\ wpart <= Len(content[wfile])
          /\ \A k \in 1..wpart :
                content[wfile][Len(content[wfile]) - wpart + k] = Byte(wline, k)
    /\ wpart \in {0, Written(wline)} /\ content[wfile] # <<>> =>
          content[wfile][Len(content[wfile])][2] = 0
    /\ \A f \in 1..MaxFiles :
          f # wfile /\ content[f] # <<>> => content[f][Len(content[f])][2] = 0

\* The buffer is the part of the file between what is consumed and the offset.
BufferInv ==
    \A j \in 1..Len(buffer) :
       /\ Consumed + j <= Len(content[stream])
       /\ buffer[j] = content[stream][Consumed + j]

\* The line being assembled begins after byte b, where reading began or after a
\* newline, and is what follows, unless that is too long.
Assembled(b) ==
    /\ b <= start \/ (b <= Len(content[stream]) /\ content[stream][b][2] = 0)
    /\ \A i \in (b + 1)..Consumed :
          i <= Len(content[stream]) /\ content[stream][i][2] # 0
    /\ \/ /\ ~dropping /\ Len(pending_line) = Consumed - b
          /\ \A k \in 1..Len(pending_line) : pending_line[k] = content[stream][b + k]
       \/ dropping /\ Consumed - b > MaxLineBytes

AssemblyInv == \E b \in 0..Consumed : Assembled(b)

\* Until the first truncation, what is consumed becomes lines.
LinesInv == FileOpen => BufferInv /\ AssemblyInv /\ ReadLinesIngested

ReadInv ==
    /\ TypeInv /\ OpenInv /\ WriterInv
    /\ truncations = 0 => LayoutInv /\ EndInv /\ LinesInv

-----------------------------------------------------------------------------
(* Types *)

\* Every line has at least one byte of text.
LEMMA LineLength ==
    ASSUME NEW n \in Lines
    PROVE  Length[n] \in Nat /\ Length[n] >= 1 /\ Written(n) \in Nat
  BY FileHarvesterAssumption DEF Lines, Written

\* A byte of a line is a byte.
LEMMA ByteType ==
    ASSUME NEW n \in Lines, NEW k \in Nat
    PROVE  Byte(n, k) \in Bytes
  BY LineLength DEF Byte, Bytes

\* The first byte of a line is the only one with part 1, and only the newline has
\* part 0.
LEMMA ByteParts ==
    ASSUME NEW n \in Lines, NEW k \in Nat, k >= 1
    PROVE  /\ Byte(n, k)[1] = n
           /\ k <= Length[n] => Byte(n, k)[2] = k
           /\ k > Length[n] => Byte(n, k)[2] = 0
           /\ Byte(n, 1) = <<n, 1>>
  BY LineLength DEF Byte

\* Text that parses begins with the first byte of the line it is.
LEMMA ParsesFirst ==
    ASSUME NEW text, NEW n \in Lines, text = [k \in 1..Length[n] |-> <<n, k>>]
    PROVE  text # <<>> /\ text[1] = <<n, 1>> /\ text[1][1] = n
  <1>1. 1 \in 1..Length[n]
    BY LineLength
  <1>2. text[1] = <<n, 1>>
    BY <1>1
  <1>3. text # <<>>
    <2>1. DOMAIN text = 1..Length[n]
      OBVIOUS
    <2>2. DOMAIN <<>> = {}
      OBVIOUS
    <2>3. QED
      BY <1>1, <2>1, <2>2
  <1>4. QED
    BY <1>2, <1>3

\* process_line_safely adds the line that the text is, or nothing.
LEMMA ProcessResult ==
    ASSUME NEW text, NEW out
    PROVE  \/ Process(text, out) = out
           \/ \E n \in Lines : /\ text # <<>> /\ text[1] = <<n, 1>>
                               /\ Process(text, out) = Append(out, n)
  <1>1. CASE ~Parses(text)
    BY <1>1 DEF Process
  <1>2. CASE Parses(text)
    <2>1. PICK n \in Lines : text = [k \in 1..Length[n] |-> <<n, k>>]
      BY <1>2 DEF Parses
    <2>2. text # <<>> /\ text[1] = <<n, 1>> /\ text[1][1] = n
      BY <2>1, ParsesFirst
    <2>3. Process(text, out) = Append(out, n)
      BY <1>2, <2>2 DEF Process
    <2>4. QED
      BY <2>2, <2>3
  <1>3. QED
    BY <1>1, <1>2

\* The line is over: the buffered text is ingested, if it is a line, or dropped.
LineDone ==
    /\ pending_line' = <<>> /\ dropping' = FALSE
    /\ \/ ingested' = ingested
       \/ \E n \in Lines : /\ pending_line # <<>> /\ pending_line[1] = <<n, 1>>
                           /\ ingested' = Append(ingested, n)

\* flush_or_drop_pending_line ends the line.
LEMMA FlushDone ==
    ASSUME FlushOrDropPendingLine
    PROVE  LineDone
  <1>1. pending_line' = <<>> /\ dropping' = FALSE
    BY DEF FlushOrDropPendingLine
  <1>2. ingested' = ingested \/ ingested' = Process(pending_line, ingested)
    BY DEF FlushOrDropPendingLine
  <1>3. QED
    BY <1>1, <1>2, ProcessResult DEF LineDone

\* The ways a byte is consumed: the newline after an overlong line or after any
\* other, a byte of an overlong line, the byte that makes it one, and a byte that
\* is kept.
ConsumeSkipped == dropping /\ dropping' = FALSE /\ pending_line' = <<>> /\ ingested' = ingested

ConsumeFinished ==
    /\ ~dropping /\ dropping' = FALSE /\ pending_line' = <<>>
    /\ ingested' = IF pending_line = <<>> THEN ingested
                   ELSE Process(pending_line, ingested)

ConsumeOverlong ==
    /\ ~dropping /\ dropping' = TRUE /\ pending_line' = <<>> /\ ingested' = ingested
    /\ Len(pending_line) >= MaxLineBytes

ConsumeKept ==
    /\ ~dropping /\ dropping' = FALSE
    /\ Len(pending_line) < MaxLineBytes
    /\ pending_line' = Append(pending_line, Head(buffer))
    /\ ingested' = ingested

\* consume_bytes takes one of these ways.
LEMMA ConsumeCases ==
    ASSUME TypeInv, Consume
    PROVE  \/ Head(buffer)[2] = 0 /\ (ConsumeSkipped \/ ConsumeFinished)
           \/ Head(buffer)[2] # 0 /\ dropping /\ UNCHANGED lineVars
           \/ Head(buffer)[2] # 0 /\ (ConsumeOverlong \/ ConsumeKept)
  <1> DEFINE s == [pending |-> pending_line, dropping |-> dropping, out |-> ingested]
  <1>0. dropping \in BOOLEAN /\ Len(pending_line) \in Nat /\ MaxLineBytes \in Nat
    BY FileHarvesterAssumption DEF TypeInv
  <1>1. /\ pending_line' = ConsumeByte(s, Head(buffer)).pending
        /\ dropping' = ConsumeByte(s, Head(buffer)).dropping
        /\ ingested' = ConsumeByte(s, Head(buffer)).out
    BY DEF Consume
  <1>2. CASE Head(buffer)[2] = 0
    <2>1. ConsumeByte(s, Head(buffer)) = FinishLine(s)
      BY <1>2 DEF ConsumeByte
    <2>2. CASE dropping
      <3>0. s.dropping /\ s.pending = pending_line /\ s.out = ingested
        BY <2>2
      <3>1. FinishLine(s) = [pending |-> <<>>, dropping |-> FALSE, out |-> ingested]
        BY <2>2, <3>0 DEF FinishLine
      <3>2. QED
        BY <1>1, <1>2, <2>1, <2>2, <3>1 DEF ConsumeSkipped
    <2>3. CASE ~dropping
      <3>0. ~s.dropping /\ s.pending = pending_line /\ s.out = ingested
        BY <2>3
      <3>1. FinishLine(s) = [pending |-> <<>>, dropping |-> dropping,
                             out |-> IF pending_line = <<>> THEN ingested
                                     ELSE Process(pending_line, ingested)]
        BY <2>3, <3>0 DEF FinishLine
      <3>2. dropping = FALSE
        BY <1>0, <2>3
      <3>3. QED
        BY <1>1, <1>2, <2>1, <2>3, <3>1, <3>2 DEF ConsumeFinished
    <2>4. QED
      BY <2>2, <2>3
  <1>3. CASE Head(buffer)[2] # 0 /\ dropping
    <2>1. ConsumeByte(s, Head(buffer)) = s
      BY <1>3 DEF ConsumeByte
    <2>2. pending_line' = pending_line /\ ingested' = ingested
      BY <1>1, <2>1
    <2>3. dropping' = s.dropping /\ s.dropping = dropping
      BY <1>1, <2>1
    <2>4. QED
      BY <1>3, <2>2, <2>3 DEF lineVars
  <1>4. CASE Head(buffer)[2] # 0 /\ ~dropping /\ Len(pending_line) >= MaxLineBytes
    <2>1. ConsumeByte(s, Head(buffer)) =
            [pending |-> <<>>, dropping |-> TRUE, out |-> ingested]
      BY <1>4 DEF ConsumeByte
    <2>2. QED
      BY <1>1, <1>4, <2>1 DEF ConsumeOverlong
  <1>5. CASE Head(buffer)[2] # 0 /\ ~dropping /\ ~(Len(pending_line) >= MaxLineBytes)
    <2>1. ConsumeByte(s, Head(buffer)) =
            [pending |-> Append(pending_line, Head(buffer)),
             dropping |-> dropping, out |-> ingested]
      BY <1>5 DEF ConsumeByte
    <2>2. dropping = FALSE
      BY <1>0, <1>5
    <2>3. Len(pending_line) < MaxLineBytes
      BY <1>0, <1>5
    <2>4. QED
      BY <1>1, <1>5, <2>1, <2>2, <2>3 DEF ConsumeKept
  <1>6. QED
    BY <1>2, <1>3, <1>4, <1>5

\* What is read: at most a buffer of the bytes behind the offset.
LEMMA ChunkProperties ==
    ASSUME TypeInv, OpenInv, FileOpen
    PROVE  /\ content[stream] \in Seq(Bytes) /\ Len(content[stream]) \in Nat
           /\ Chunk \in Seq(Bytes) /\ Len(Chunk) \in Nat
           /\ \A j \in 1..Len(Chunk) : /\ offset + j <= Len(content[stream])
                                       /\ Chunk[j] = content[stream][offset + j]
  <1>1. stream \in 1..MaxFiles /\ offset \in Nat /\ ReadBufferSize \in Nat
    BY FileHarvesterAssumption DEF TypeInv, OpenInv
  <1>2. PICK s : s = content[stream]
    OBVIOUS
  <1>3. s \in Seq(Bytes) /\ Len(s) \in Nat
    BY <1>1, <1>2 DEF TypeInv
  <1>4. PICK z \in Nat : /\ z = IF Len(s) < offset + ReadBufferSize THEN Len(s)
                                ELSE offset + ReadBufferSize
                         /\ z <= Len(s)
    BY <1>1, <1>3
  <1>5. Chunk = SubSeq(s, offset + 1, z)
    BY <1>2, <1>4 DEF Chunk
  <1>6. \A i \in (offset + 1)..z : s[i] \in Bytes
    <2>1. \A i \in 1..Len(s) : s[i] \in Bytes
      BY <1>3, ElementOfSeq
    <2>2. QED
      BY <1>1, <1>3, <1>4, <2>1
  <1>7. offset + 1 \in Int /\ z \in Int
    BY <1>1
  <1>8. /\ Chunk \in Seq(Bytes)
        /\ Len(Chunk) = IF offset + 1 <= z THEN z - (offset + 1) + 1 ELSE 0
        /\ \A i \in 1..(z - (offset + 1) + 1) : Chunk[i] = s[offset + 1 + i - 1]
    <2> HIDE DEF Chunk
    <2>1. QED
      BY <1>5, <1>6, <1>7, SubSeqProperties
  <1>9. Len(Chunk) \in Nat
    BY <1>1, <1>4, <1>8
  <1>10. ASSUME NEW j \in 1..Len(Chunk)
         PROVE  offset + j <= Len(s) /\ Chunk[j] = s[offset + j]
    <2>1. offset + 1 <= z /\ j \in Nat /\ j >= 1 /\ j <= z - offset
      BY <1>1, <1>4, <1>8
    <2>2. offset + j <= Len(s)
      BY <1>1, <1>3, <1>4, <2>1
    <2>3. j \in 1..(z - (offset + 1) + 1) /\ offset + 1 + j - 1 = offset + j
      BY <1>1, <1>4, <2>1
    <2>4. QED
      BY <1>8, <2>2, <2>3
  <1>11. QED
    BY <1>2, <1>3, <1>8, <1>9, <1>10

\* The writer adds one byte of a line to its file and leaves the others alone.
LEMMA AppendProperty ==
    ASSUME TypeInv, WriterAppend
    PROVE  /\ wline' \in Lines /\ wpart' \in 1..Written(wline')
           /\ Byte(wline', wpart') \in Bytes
           /\ wfile \in 1..MaxFiles /\ wfile' = wfile
           /\ content' \in [1..MaxFiles -> Seq(Bytes)]
           /\ Len(content[wfile]) \in Nat /\ Len(content'[wfile]) = Len(content[wfile]) + 1
           /\ content'[wfile][Len(content[wfile]) + 1] = Byte(wline', wpart')
           /\ \A f \in 1..MaxFiles :
                /\ f # wfile => content'[f] = content[f]
                /\ Len(content[f]) \in Nat /\ Len(content'[f]) \in Nat
                /\ Len(content[f]) <= Len(content'[f])
                /\ \A i \in 1..Len(content[f]) : content'[f][i] = content[f][i]
  <1>1. wline' \in Lines /\ wpart' \in 1..Written(wline') /\ wpart' \in Nat
    <2>1. wline \in Lines /\ wpart \in Nat
      BY LineLength DEF TypeInv
    <2>2. CASE wpart < Written(wline) /\ wpart' = wpart + 1 /\ wline' = wline
      BY <2>1, <2>2, LineLength
    <2>3. CASE wline + 1 \in Lines /\ wline' = wline + 1 /\ wpart' = 1
      <3>1. wline' \in Lines
        BY <2>3
      <3>2. Written(wline') \in Nat /\ Written(wline') >= 1
        BY <3>1, LineLength DEF Written
      <3>3. QED
        BY <2>3, <3>1, <3>2
    <2>4. QED
      BY <2>2, <2>3 DEF WriterAppend
  <1>2. PICK e : e = Byte(wline', wpart')
    OBVIOUS
  <1>3. e \in Bytes
    BY <1>1, <1>2, ByteType
  <1>4. wfile \in 1..MaxFiles /\ wfile' = wfile
    BY FileHarvesterAssumption DEF TypeInv, WriterAppend
  <1>5. content \in [1..MaxFiles -> Seq(Bytes)]
    BY DEF TypeInv
  <1>6. PICK s : s = content[wfile]
    OBVIOUS
  <1>7. s \in Seq(Bytes) /\ Len(s) \in Nat
    BY <1>4, <1>5, <1>6
  <1>8. PICK t : t = Append(s, e)
    OBVIOUS
  <1>9. /\ t \in Seq(Bytes) /\ Len(t) = Len(s) + 1 /\ t[Len(s) + 1] = e
        /\ \A i \in 1..Len(s) : t[i] = s[i]
    BY <1>3, <1>7, <1>8, AppendProperties
  <1>10. content' = [content EXCEPT ![wfile] = t]
    BY <1>2, <1>6, <1>8 DEF WriterAppend
  <1>11. content' \in [1..MaxFiles -> Seq(Bytes)]
    BY <1>4, <1>5, <1>9, <1>10
  <1>12. content'[wfile] = t
    BY <1>4, <1>5, <1>10
  <1>13. ASSUME NEW f \in 1..MaxFiles
         PROVE  /\ f # wfile => content'[f] = content[f]
                /\ Len(content[f]) \in Nat /\ Len(content'[f]) \in Nat
                /\ Len(content[f]) <= Len(content'[f])
                /\ \A i \in 1..Len(content[f]) : content'[f][i] = content[f][i]
    <2>1. CASE f = wfile
      BY <1>6, <1>7, <1>9, <1>12, <2>1
    <2>2. CASE f # wfile
      <3>1. content'[f] = content[f]
        BY <1>5, <1>10, <2>2
      <3>2. content[f] \in Seq(Bytes)
        BY <1>5
      <3>3. Len(content[f]) \in Nat
        BY <3>2
      <3>4. QED
        BY <2>2, <3>1, <3>3
    <2>3. QED
      BY <2>1, <2>2
  <1>14. QED
    BY <1>1, <1>2, <1>3, <1>4, <1>6, <1>7, <1>9, <1>11, <1>12, <1>13

\* A truncation empties the file at the path and leaves the others alone.
LEMMA TruncateProperty ==
    ASSUME TypeInv, Truncate
    PROVE  /\ path \in 1..MaxFiles
           /\ content' \in [1..MaxFiles -> Seq(Bytes)]
           /\ content'[path] = <<>>
           /\ \A f \in 1..MaxFiles : f # path => content'[f] = content[f]
  <1>1. path \in 1..MaxFiles
    BY FileHarvesterAssumption DEF TypeInv, Truncate
  <1>2. content \in [1..MaxFiles -> Seq(Bytes)] /\ <<>> \in Seq(Bytes)
    BY DEF TypeInv
  <1>3. content' = [content EXCEPT ![path] = <<>>]
    BY DEF Truncate
  <1>4. QED
    BY <1>1, <1>2, <1>3

\* Ending a line keeps the types of the line's state.
LEMMA LineDoneTypes ==
    ASSUME TypeInv, LineDone
    PROVE  /\ pending_line' \in Seq(Bytes) /\ Len(pending_line') <= MaxLineBytes
           /\ dropping' \in BOOLEAN /\ ingested' \in Seq(Lines)
  <1>1. pending_line' = <<>> /\ dropping' = FALSE
    BY DEF LineDone
  <1>2. ingested \in Seq(Lines)
    BY DEF TypeInv
  <1>3. ingested' \in Seq(Lines)
    <2>1. CASE ingested' = ingested
      BY <1>2, <2>1
    <2>2. ASSUME NEW n \in Lines, ingested' = Append(ingested, n)
          PROVE  ingested' \in Seq(Lines)
      BY <1>2, <2>2, AppendProperties
    <2>3. QED
      BY <2>1, <2>2 DEF LineDone
  <1>4. <<>> \in Seq(Bytes) /\ Len(<<>>) <= MaxLineBytes
    BY FileHarvesterAssumption
  <1>5. QED
    BY <1>1, <1>3, <1>4

\* Consuming a byte keeps the types of the line's state and of the buffer.
LEMMA ConsumeTypes ==
    ASSUME TypeInv, Consume
    PROVE  /\ pending_line' \in Seq(Bytes) /\ Len(pending_line') <= MaxLineBytes
           /\ dropping' \in BOOLEAN /\ ingested' \in Seq(Lines)
           /\ Head(buffer) \in Bytes /\ buffer' \in Seq(Bytes)
           /\ Len(buffer') \in Nat /\ Len(buffer') = Len(buffer) - 1
           /\ \A j \in 1..Len(buffer') : buffer'[j] = buffer[j + 1]
           /\ Head(buffer) = buffer[1] /\ 1 \in 1..Len(buffer)
  <1>1. buffer \in Seq(Bytes) /\ buffer # <<>> /\ buffer' = Tail(buffer)
    BY DEF TypeInv, Consume
  <1>2. /\ Head(buffer) \in Bytes /\ buffer' \in Seq(Bytes)
        /\ Len(buffer') = Len(buffer) - 1
        /\ \A j \in 1..Len(buffer') : buffer'[j] = buffer[j + 1]
    BY <1>1, HeadTailProperties
  <1>3. Head(buffer) = buffer[1] /\ Len(buffer) \in Nat /\ Len(buffer') \in Nat
    BY <1>1, <1>2
  <1>4. 1 \in 1..Len(buffer)
    BY <1>2, <1>3
  <1>5. pending_line \in Seq(Bytes) /\ ingested \in Seq(Lines) /\ MaxLineBytes \in Nat
    BY FileHarvesterAssumption DEF TypeInv
  <1>6. Len(pending_line) <= MaxLineBytes /\ dropping \in BOOLEAN
    BY DEF TypeInv
  <1>7. <<>> \in Seq(Bytes) /\ Len(<<>>) <= MaxLineBytes
    BY <1>5
  <1>8. /\ pending_line' \in Seq(Bytes) /\ Len(pending_line') <= MaxLineBytes
        /\ dropping' \in BOOLEAN /\ ingested' \in Seq(Lines)
    <2>1. CASE ConsumeSkipped
      BY <1>5, <1>7, <2>1 DEF ConsumeSkipped
    <2>2. CASE ConsumeFinished
      <3>1. LineDone
        BY <2>2, ProcessResult DEF ConsumeFinished, LineDone
      <3>2. QED
        BY <3>1, LineDoneTypes
    <2>3. CASE UNCHANGED lineVars
      BY <1>5, <1>6, <2>3 DEF lineVars
    <2>4. CASE ConsumeOverlong
      BY <1>5, <1>7, <2>4 DEF ConsumeOverlong
    <2>5. CASE ConsumeKept
      <3>1. pending_line' = Append(pending_line, Head(buffer))
        BY <2>5 DEF ConsumeKept
      <3>2. pending_line' \in Seq(Bytes) /\ Len(pending_line') = Len(pending_line) + 1
        BY <1>2, <1>5, <3>1, AppendProperties
      <3>3. Len(pending_line) < MaxLineBytes
        BY <2>5 DEF ConsumeKept
      <3>4. Len(pending_line') <= MaxLineBytes
        BY <1>5, <3>2, <3>3
      <3>5. QED
        BY <1>5, <2>5, <3>2, <3>4 DEF ConsumeKept
    <2>6. QED
      BY <2>1, <2>2, <2>3, <2>4, <2>5, ConsumeCases
  <1>9. QED
    BY <1>2, <1>3, <1>4, <1>8

\* The types hold at the start.
LEMMA InitType == Init => TypeInv /\ OpenInv
  <1>1. SUFFICES ASSUME Init PROVE TypeInv /\ OpenInv
    OBVIOUS
  <1>2. 1 \in Lines /\ Written(1) \in Nat
    <2>1. 1 \in Lines
      BY FileHarvesterAssumption DEF Lines
    <2>2. QED
      BY <2>1, LineLength
  <1>3. content \in [1..MaxFiles -> Seq(Bytes)]
    BY <1>1 DEF Init
  <1>4. /\ stop = FALSE /\ first_open = TRUE /\ dropping = FALSE
        /\ raced = FALSE /\ revisited = FALSE
    BY <1>1 DEF Init
  <1>5. /\ pending_line = <<>> /\ buffer = <<>> /\ ingested = <<>>
        /\ offset = 0 /\ start = 0 /\ pc = "open"
    BY <1>1 DEF Init
  <1>6. /\ pending_line \in Seq(Bytes) /\ Len(pending_line) <= MaxLineBytes
        /\ buffer \in Seq(Bytes) /\ Len(buffer) <= offset /\ ingested \in Seq(Lines)
    BY <1>5, FileHarvesterAssumption
  <1>7. /\ files \in 1..MaxFiles /\ path \in 0..files /\ truncations \in Nat
        /\ wfile \in 1..files /\ wline \in Lines /\ wpart \in 0..Written(wline)
        /\ before \in 0..files /\ stream \in 0..files /\ identity \in 0..files
    BY <1>1, <1>2, FileHarvesterAssumption DEF Init
  <1>8. TypeInv
    BY <1>3, <1>4, <1>5, <1>6, <1>7 DEF TypeInv
  <1>9. OpenInv
    BY <1>4, <1>5 DEF OpenInv, FileOpen
  <1>10. QED
    BY <1>8, <1>9

\* The writer and log rotation keep the types.
LEMMA EnvironmentType ==
    ASSUME TypeInv, OpenInv,
           WriterAppend \/ WriterReopen \/ Unlink \/ Create \/ Restore \/ Truncate \/ RequestStop
    PROVE  TypeInv' /\ OpenInv'
  <1>0. MaxFiles \in Nat
    BY FileHarvesterAssumption
  <1>1. CASE WriterAppend
    <2>1. /\ wline' \in Lines /\ wpart' \in 0..Written(wline')
          /\ content' \in [1..MaxFiles -> Seq(Bytes)]
      <3>1. wline' \in Lines /\ wpart' \in 1..Written(wline')
        BY <1>1, AppendProperty
      <3>2. QED
        BY <1>1, <3>1, AppendProperty
    <2>2. UNCHANGED <<path, files, truncations, wfile, pc, stop, openVars, readVars,
                      lineVars, historyVars>>
      BY <1>1 DEF WriterAppend
    <2>3. TypeInv'
      BY <2>1, <2>2 DEF TypeInv, openVars, readVars, lineVars, historyVars
    <2>4. OpenInv'
      BY <2>2 DEF OpenInv, FileOpen, openVars, readVars, lineVars, historyVars
    <2>5. QED
      BY <2>3, <2>4
  <1>2. CASE WriterReopen
    <2>1. /\ wfile' \in 1..files /\ revisited' \in BOOLEAN
          /\ revisited => revisited'
      BY <1>0, <1>2 DEF TypeInv, WriterReopen
    <2>2. UNCHANGED <<fileVars, wline, wpart, pc, stop, openVars, readVars,
                      lineVars, raced>>
      BY <1>2 DEF WriterReopen
    <2>3. TypeInv'
      BY <2>1, <2>2 DEF TypeInv, fileVars, openVars, readVars, lineVars
    <2>4. OpenInv'
      BY <2>1, <2>2 DEF OpenInv, FileOpen, fileVars, openVars, readVars, lineVars
    <2>5. QED
      BY <2>3, <2>4
  <1>3. CASE Unlink
    <2>1. path' = 0 /\ raced' \in BOOLEAN
      BY <1>3 DEF Unlink
    <2>2. UNCHANGED <<content, files, truncations, writerVars, pc, stop, openVars,
                      readVars, lineVars, revisited>>
      BY <1>3 DEF Unlink
    <2>3. files \in Nat
      BY <1>0 DEF TypeInv
    <2>4. TypeInv'
      BY <2>1, <2>2, <2>3 DEF TypeInv, writerVars, openVars, readVars, lineVars
    <2>5. OpenInv'
      BY <2>2 DEF OpenInv, FileOpen, openVars, readVars, lineVars
    <2>6. QED
      BY <2>4, <2>5
  <1>4. CASE Create
    <2>1. files' = files + 1 /\ path' = files' /\ files' \in 1..MaxFiles
      BY <1>0, <1>4 DEF TypeInv, Create
    <2>2. UNCHANGED <<content, truncations, writerVars, pc, stop, openVars,
                      readVars, lineVars, historyVars>>
      BY <1>4 DEF Create
    <2>3. files \in Nat
      BY <1>0 DEF TypeInv
    <2>4. TypeInv'
      BY <2>1, <2>2, <2>3 DEF TypeInv, writerVars, openVars, readVars, lineVars,
         historyVars
    <2>5. OpenInv'
      BY <2>1, <2>2, <2>3 DEF OpenInv, FileOpen, openVars, readVars, lineVars,
         historyVars
    <2>6. QED
      BY <2>4, <2>5
  <1>5. CASE Truncate
    <2>1. content' \in [1..MaxFiles -> Seq(Bytes)]
      BY <1>5, TruncateProperty
    <2>2. truncations' \in Nat
      BY <1>5 DEF TypeInv, Truncate
    <2>3. UNCHANGED <<path, files, writerVars, pc, stop, openVars, readVars,
                      lineVars, historyVars>>
      BY <1>5 DEF Truncate
    <2>4. TypeInv'
      BY <2>1, <2>2, <2>3 DEF TypeInv, writerVars, openVars, readVars, lineVars,
         historyVars
    <2>5. OpenInv'
      BY <2>3 DEF OpenInv, FileOpen, openVars, readVars, lineVars,
         historyVars
    <2>6. QED
      BY <2>4, <2>5
  <1>6. CASE RequestStop
    <2>1. TypeInv'
      BY <1>6 DEF TypeInv, RequestStop, fileVars, writerVars, openVars, readVars, lineVars,
         historyVars
    <2>2. OpenInv'
      BY <1>6 DEF OpenInv, FileOpen, RequestStop, fileVars, openVars, readVars, lineVars,
         historyVars
    <2>3. QED
      BY <2>1, <2>2
  <1>7. CASE Restore
    <2>1. path' \in 1..files /\ files \in Nat
      BY <1>0, <1>7 DEF TypeInv, Restore
    <2>2. UNCHANGED <<content, files, truncations, writerVars, pc, stop, openVars,
                      readVars, lineVars, historyVars>>
      BY <1>7 DEF Restore
    <2>3. TypeInv'
      BY <2>1, <2>2 DEF TypeInv, writerVars, openVars, readVars, lineVars, historyVars
    <2>4. OpenInv'
      BY <2>2 DEF OpenInv, FileOpen, openVars, readVars, lineVars, historyVars
    <2>5. QED
      BY <2>3, <2>4
  <1>8. QED
    BY <1>1, <1>2, <1>3, <1>4, <1>5, <1>6, <1>7

\* Consuming keeps the types.
LEMMA ConsumeType ==
    ASSUME TypeInv, OpenInv, Consume
    PROVE  TypeInv' /\ OpenInv'
  <1>1. UNCHANGED <<fileVars, writerVars, pc, stop, openVars, offset, historyVars>>
    BY DEF Consume
  <1>2. Len(buffer) \in Nat /\ Len(buffer) <= offset /\ offset \in Nat
    BY DEF TypeInv
  <1>3. Len(buffer') <= offset'
    BY <1>1, <1>2, ConsumeTypes
  <1>4. TypeInv'
    BY <1>1, <1>3, ConsumeTypes DEF TypeInv, fileVars, writerVars, openVars, historyVars
  <1>5. FileOpen
    BY DEF OpenInv, Consume
  <1>6. OpenInv'
    BY <1>1, <1>5 DEF OpenInv, FileOpen, fileVars, openVars, historyVars
  <1>7. QED
    BY <1>4, <1>6

\* A file is opened at the offset: what was revisited stays so.
LEMMA OpenedTypes ==
    ASSUME TypeInv, before \in 1..files, NEW at \in Nat, NEW back \in BOOLEAN,
           Opened(at, back)
    PROVE  /\ identity' = before /\ offset' = at /\ start' = at /\ first_open' = FALSE
           /\ pc' = "read" /\ revisited' \in BOOLEAN
           /\ (revisited => revisited') /\ (back => revisited')
           /\ ~revisited' => before > identity
  <1>1. before \in Nat /\ identity \in Nat /\ revisited \in BOOLEAN
    BY FileHarvesterAssumption DEF TypeInv
  <1>2. /\ identity' = before /\ offset' = at /\ start' = at /\ first_open' = FALSE
        /\ pc' = "read" /\ revisited' = (revisited \/ back \/ before <= identity)
    BY DEF Opened
  <1>3. revisited' \in BOOLEAN /\ (revisited => revisited') /\ (back => revisited')
    BY <1>2
  <1>4. ~revisited' => ~(before <= identity)
    BY <1>2
  <1>5. ~revisited' => before > identity
    BY <1>1, <1>4
  <1>6. QED
    BY <1>2, <1>3, <1>5

\* Opening a file keeps the types, and the stream is the file at the path only if
\* the path has not changed.
LEMMA OpeningType ==
    ASSUME TypeInv, OpenInv, OpenIdentity \/ OpenStream \/ OpenRecheck \/ OpenSize
    PROVE  TypeInv' /\ OpenInv'
  <1>0. /\ MaxFiles \in Nat /\ files \in 1..MaxFiles /\ path \in 0..files
        /\ revisited \in BOOLEAN
    BY FileHarvesterAssumption DEF TypeInv
  <1>1. CASE OpenIdentity
    <2>1. pc = "open" /\ before' = path /\ path # 0 /\ pc' = "opening"
      BY <1>1 DEF OpenIdentity, current_path_identity
    <2>2. UNCHANGED <<fileVars, writerVars, stop, first_open, stream, identity,
                      start, readVars, lineVars, historyVars>>
      BY <1>1 DEF OpenIdentity
    <2>3. before' \in 1..files
      BY <1>0, <2>1
    <2>4. TypeInv'
      BY <1>0, <2>1, <2>2, <2>3 DEF TypeInv, fileVars, writerVars, readVars, lineVars,
         historyVars
    <2>5. OpenInv'
      BY <2>1, <2>2, <2>3 DEF OpenInv, FileOpen, fileVars, readVars, lineVars
    <2>6. QED
      BY <2>4, <2>5
  <1>2. CASE OpenStream
    <2>1. /\ pc = "opening" /\ stream' \in 0..files
          /\ pc' \in {"open", "opened"} /\ (pc' = "opened" => stream' \in 1..files)
      BY <1>0, <1>2 DEF OpenStream
    <2>2. UNCHANGED <<fileVars, writerVars, stop, first_open, before, identity,
                      start, readVars, lineVars, historyVars>>
      BY <1>2 DEF OpenStream
    <2>3. before \in 1..files
      BY <2>1 DEF OpenInv
    <2>4. TypeInv'
      BY <1>0, <2>1, <2>2 DEF TypeInv, fileVars, writerVars, readVars, lineVars,
         historyVars
    <2>5. OpenInv'
      BY <2>1, <2>2, <2>3 DEF OpenInv, FileOpen, fileVars, readVars, lineVars
    <2>6. QED
      BY <2>4, <2>5
  <1>3. CASE OpenRecheck
    <2>1. pc = "opened" /\ before \in 1..files /\ stream \in 1..files /\ ~FileOpen
      BY <1>3 DEF OpenRecheck, OpenInv, FileOpen
    <2>2. UNCHANGED <<fileVars, writerVars, stop, before, buffer, lineVars, raced>>
      BY <1>3 DEF OpenRecheck
    <2>3. buffer = <<>> /\ pending_line = <<>> /\ ~dropping
      BY <2>1 DEF OpenInv
    <2>4. CASE /\ stream' = 0 /\ pc' = "open"
               /\ UNCHANGED <<identity, first_open, start, offset, revisited>>
      <3>1. TypeInv'
        BY <1>0, <2>2, <2>4 DEF TypeInv, fileVars, writerVars, lineVars
      <3>2. OpenInv'
        BY <2>2, <2>3, <2>4 DEF OpenInv, FileOpen, fileVars, lineVars
      <3>3. QED
        BY <3>1, <3>2
    <2>5. CASE Settled /\ stream' = stream /\ path = before
      <3>1. stream # before => CameBack
        BY <2>5 DEF CameBack
      <3>2. CASE /\ pc' = "sizing" /\ revisited' = (revisited \/ CameBack)
                 /\ UNCHANGED <<identity, first_open, start, offset>>
        <4>1. revisited' \in BOOLEAN /\ (stream = before \/ revisited')
          BY <1>0, <3>1, <3>2
        <4>2. TypeInv'
          BY <1>0, <2>2, <2>5, <3>2, <4>1 DEF TypeInv, fileVars, writerVars, lineVars
        <4>3. OpenInv'
          BY <2>1, <2>2, <2>3, <2>5, <3>2, <4>1 DEF OpenInv, FileOpen, fileVars, lineVars
        <4>4. QED
          BY <4>2, <4>3
      <3>3. CASE Opened(0, CameBack)
        <4>1. /\ identity' = before /\ offset' = 0 /\ start' = 0 /\ first_open' = FALSE
              /\ pc' = "read" /\ revisited' \in BOOLEAN /\ (CameBack => revisited')
          BY <2>1, <3>3, OpenedTypes DEF CameBack
        <4>2. Len(buffer') <= offset' /\ offset' \in Nat /\ start' \in Nat
          BY <2>2, <2>3, <4>1
        <4>3. before \in 0..files /\ first_open' \in BOOLEAN
          BY <4>1 DEF TypeInv
        <4>4. TypeInv'
          BY <1>0, <2>2, <2>5, <4>1, <4>2, <4>3 DEF TypeInv, fileVars, writerVars, lineVars
        <4>5. OpenInv'
          BY <2>1, <2>2, <2>5, <3>1, <4>1 DEF OpenInv, FileOpen, fileVars, lineVars
        <4>6. QED
          BY <4>4, <4>5
      <3>4. QED
        BY <2>5, <3>2, <3>3 DEF Settled
    <2>6. QED
      <3>1. PICK after \in {path, 0} :
              \/ /\ stream' = 0 /\ pc' = "open"
                 /\ UNCHANGED <<identity, first_open, start, offset, revisited>>
              \/ after = before /\ Settled /\ stream' = stream
        BY <1>3 DEF OpenRecheck, current_path_identity
      <3>2. after = before => path = before
        BY <2>1, <3>1
      <3>3. QED
        BY <2>4, <2>5, <3>1, <3>2
  <1>4. CASE OpenSize
    <2>1. /\ pc = "sizing" /\ before \in 1..files /\ stream \in 1..files /\ ~FileOpen
          /\ stream = before \/ revisited
      BY <1>4 DEF OpenSize, OpenInv, FileOpen
    <2>2. UNCHANGED <<fileVars, writerVars, stop, before, buffer, lineVars, raced>>
      BY <1>4 DEF OpenSize
    <2>3. buffer = <<>> /\ pending_line = <<>> /\ ~dropping
      BY <2>1 DEF OpenInv
    <2>4. CASE /\ stream' = 0 /\ pc' = "open"
               /\ UNCHANGED <<identity, first_open, start, offset, revisited>>
      <3>1. TypeInv'
        BY <1>0, <2>2, <2>4 DEF TypeInv, fileVars, writerVars, lineVars
      <3>2. OpenInv'
        BY <2>2, <2>3, <2>4 DEF OpenInv, FileOpen, fileVars, lineVars
      <3>3. QED
        BY <3>1, <3>2
    <2>5. CASE path # 0 /\ Opened(safe_file_size, FALSE) /\ stream' = stream
      <3>1. path \in 1..MaxFiles
        BY <1>0, <2>5
      <3>2. content[path] \in Seq(Bytes)
        BY <3>1 DEF TypeInv
      <3>3. safe_file_size \in Nat
        BY <3>2 DEF safe_file_size
      <3>4. /\ identity' = before /\ offset' \in Nat /\ start' \in Nat
            /\ first_open' = FALSE /\ pc' = "read" /\ revisited' \in BOOLEAN
            /\ revisited => revisited'
        <4>1. FALSE \in BOOLEAN
          OBVIOUS
        <4>2. QED
          BY <2>1, <2>5, <3>3, <4>1, OpenedTypes
      <3>5. Len(buffer') <= offset' /\ first_open' \in BOOLEAN
        <4>1. buffer' = <<>> /\ offset' \in Nat
          BY <2>2, <2>3, <3>4
        <4>2. first_open' \in BOOLEAN
          BY <3>4
        <4>3. QED
          BY <4>1, <4>2
      <3>6. TypeInv'
        BY <1>0, <2>1, <2>2, <2>5, <3>4, <3>5 DEF TypeInv, fileVars, writerVars, lineVars
      <3>7. OpenInv'
        BY <2>1, <2>2, <2>5, <3>4 DEF OpenInv, FileOpen, fileVars, lineVars
      <3>8. QED
        BY <3>6, <3>7
    <2>6. QED
      BY <1>4, <2>4, <2>5 DEF OpenSize
  <1>5. QED
    BY <1>1, <1>2, <1>3, <1>4

\* A read leaves all but the buffer, the offset and the thread's place alone.
ReadStep ==
    /\ FileOpen /\ FileOpen'
    /\ pc \in {"read", "drain"}
    /\ pc' = "identity" => pc = "read"
    /\ pc' \in {"read", "drain", "close", "identity"}
    /\ pc' \in {"drain", "close"} => pc = "drain"
    /\ buffer = <<>> /\ buffer' = Chunk /\ offset' = offset + Len(Chunk)
    /\ UNCHANGED <<fileVars, writerVars, stop, openVars, lineVars, historyVars>>

\* Both reads do that.
LEMMA ReadSteps ==
    ASSUME buffer = <<>>, Read \/ DrainRead
    PROVE  ReadStep
  <1>1. CASE Read
    BY <1>1 DEF Read, ReadAvailable, ReadStep, FileOpen
  <1>2. CASE DrainRead
    BY <1>2 DEF DrainRead, ReadAvailable, ReadStep, FileOpen
  <1>3. QED
    BY <1>1, <1>2

\* Reading keeps the types.
LEMMA ReadType ==
    ASSUME TypeInv, OpenInv, ReadStep
    PROVE  TypeInv' /\ OpenInv'
  <1>1. FileOpen /\ FileOpen' /\ buffer' = Chunk /\ offset' = offset + Len(Chunk)
    BY DEF ReadStep
  <1>2. UNCHANGED <<fileVars, writerVars, stop, openVars, lineVars, historyVars>>
    BY DEF ReadStep
  <1>3. Chunk \in Seq(Bytes) /\ Len(Chunk) \in Nat
    BY <1>1, ChunkProperties
  <1>4. offset \in Nat
    BY DEF TypeInv
  <1>5. offset' \in Nat /\ buffer' \in Seq(Bytes) /\ Len(buffer') <= offset'
    BY <1>1, <1>3, <1>4
  <1>6. pc' \in {"read", "drain", "close", "identity"}
    BY DEF ReadStep
  <1>7. TypeInv'
    BY <1>2, <1>5, <1>6 DEF TypeInv, fileVars, writerVars, openVars, lineVars, historyVars
  <1>8. OpenInv'
    BY <1>1, <1>2, <1>6 DEF OpenInv, FileOpen, fileVars, openVars, lineVars, historyVars
  <1>9. QED
    BY <1>7, <1>8

\* The checks, draining, closing and shutting down keep the types.
LEMMA CheckType ==
    ASSUME TypeInv, OpenInv, buffer = <<>>,
           CheckIdentity \/ CheckSize \/ DrainStopped \/ Close \/ Shutdown
    PROVE  TypeInv' /\ OpenInv'
  <1>1. CASE CheckIdentity \/ DrainStopped
    <2>1. /\ FileOpen /\ pc' \in {"drain", "size", "close"}
          /\ UNCHANGED <<content, path, files, truncations, writerVars, stop, openVars,
                         readVars, lineVars, historyVars>>
      BY <1>1 DEF CheckIdentity, DrainStopped, FileOpen, fileVars
    <2>2. TypeInv'
      BY <2>1 DEF TypeInv, writerVars, openVars, readVars, lineVars, historyVars
    <2>3. OpenInv'
      BY <2>1 DEF OpenInv, FileOpen, openVars, readVars, lineVars, historyVars
    <2>4. QED
      BY <2>2, <2>3
  <1>2. CASE CheckSize
    <2>1. /\ FileOpen /\ pc' = "read"
          /\ UNCHANGED <<content, path, files, truncations, writerVars, stop, openVars,
                         buffer, historyVars>>
      BY <1>2 DEF CheckSize, FileOpen
    <2>2. \/ offset' = 0 /\ LineDone
          \/ offset' = offset /\ UNCHANGED lineVars
      BY <1>2, FlushDone DEF CheckSize
    <2>3. offset' \in Nat /\ Len(buffer') <= offset'
      BY <2>1, <2>2 DEF TypeInv
    <2>4. /\ pending_line' \in Seq(Bytes) /\ Len(pending_line') <= MaxLineBytes
          /\ dropping' \in BOOLEAN /\ ingested' \in Seq(Lines)
      <3>1. CASE LineDone
        BY <3>1, LineDoneTypes
      <3>2. CASE UNCHANGED lineVars
        BY <3>2 DEF TypeInv, lineVars
      <3>3. QED
        BY <2>2, <3>1, <3>2
    <2>5. TypeInv'
      BY <2>1, <2>3, <2>4 DEF TypeInv, writerVars, openVars, historyVars
    <2>6. OpenInv'
      BY <2>1 DEF OpenInv, FileOpen, openVars, historyVars
    <2>7. QED
      BY <2>5, <2>6
  <1>3. CASE Close \/ Shutdown
    <2>1. /\ pc' \in {"open", "done"} /\ stream' = 0 /\ offset' = 0 /\ start' = 0
          /\ UNCHANGED <<fileVars, writerVars, stop, first_open, before, identity,
                         buffer, historyVars>>
      BY <1>3 DEF Close, Shutdown
    <2>2. LineDone \/ (pc = "open" /\ UNCHANGED lineVars)
      BY <1>3, FlushDone DEF Close, Shutdown
    <2>3. /\ pending_line' \in Seq(Bytes) /\ Len(pending_line') <= MaxLineBytes
          /\ dropping' \in BOOLEAN /\ ingested' \in Seq(Lines)
      <3>1. CASE LineDone
        BY <3>1, LineDoneTypes
      <3>2. CASE UNCHANGED lineVars
        BY <3>2 DEF TypeInv, lineVars
      <3>3. QED
        BY <2>2, <3>1, <3>2
    <2>4. pending_line' = <<>> /\ ~dropping'
      <3>1. CASE LineDone
        BY <3>1 DEF LineDone
      <3>2. CASE pc = "open" /\ UNCHANGED lineVars
        BY <3>2 DEF OpenInv, FileOpen, lineVars
      <3>3. QED
        BY <2>2, <3>1, <3>2
    <2>5. files \in Nat
      BY FileHarvesterAssumption DEF TypeInv
    <2>6. TypeInv'
      <3>1. Len(buffer') <= offset'
        BY <2>1
      <3>2. QED
        BY <2>1, <2>3, <2>5, <3>1 DEF TypeInv, fileVars, writerVars, historyVars
    <2>7. buffer' = <<>>
      BY <2>1
    <2>8. OpenInv'
      BY <2>1, <2>4, <2>7 DEF OpenInv, FileOpen
    <2>9. QED
      BY <2>6, <2>8
  <1>4. QED
    BY <1>1, <1>2, <1>3

\* Every step keeps the types.
LEMMA NextType ==
    ASSUME TypeInv, OpenInv, [Next]_vars
    PROVE  TypeInv' /\ OpenInv'
  <1>1. CASE WriterAppend \/ WriterReopen \/ Unlink \/ Create \/ Restore \/ Truncate \/ RequestStop
    BY <1>1, EnvironmentType
  <1>2. CASE Consume
    BY <1>2, ConsumeType
  <1>3. CASE Proceed
    <2>1. buffer = <<>>
      BY <1>3 DEF Proceed
    <2>2. CASE OpenIdentity \/ OpenStream \/ OpenRecheck \/ OpenSize
      BY <2>2, OpeningType
    <2>3. CASE Read \/ DrainRead
      BY <2>1, <2>3, ReadSteps, ReadType
    <2>4. CASE CheckIdentity \/ CheckSize \/ DrainStopped \/ Close \/ Shutdown
      BY <2>1, <2>4, CheckType
    <2>5. QED
      BY <1>3, <2>2, <2>3, <2>4 DEF Proceed
  <1>4. CASE UNCHANGED vars
    <2>1. TypeInv'
      BY <1>4 DEF TypeInv, vars, fileVars, writerVars, openVars, readVars, lineVars,
         historyVars
    <2>2. OpenInv'
      BY <1>4 DEF OpenInv, FileOpen, vars, fileVars, openVars, readVars, lineVars,
         historyVars
    <2>3. QED
      BY <2>1, <2>2
  <1>5. QED
    BY <1>1, <1>2, <1>3, <1>4 DEF Next, Harvest

\* The types of the harvester's state hold in every state, the line buffer never
\* exceeds max_line_bytes, and the file that is read is the one whose identity was
\* recorded (open_file, file.hpp:242), unless the path came back in time to the file
\* it named first.
THEOREM TypeCorrect == Spec => []TypeOK
  <1>1. TypeInv /\ OpenInv => TypeOK
    <2>1. SUFFICES ASSUME TypeInv, OpenInv PROVE TypeOK
      OBVIOUS
    <2>2. MaxFiles \in Nat
      BY FileHarvesterAssumption
    <2>3. path \in 0..files
      BY <2>1, <2>2 DEF TypeInv
    <2>4. \A i \in 1..Len(ingested) : ingested[i] \in Lines
      BY <2>1, ElementOfSeq DEF TypeInv
    <2>5. FileOpen => stream = identity \/ revisited
      BY <2>1 DEF OpenInv
    <2>6. {stop, first_open, dropping, raced, revisited} \subseteq BOOLEAN
      BY <2>1 DEF TypeInv
    <2>7. QED
      BY <2>1, <2>3, <2>4, <2>5, <2>6 DEF TypeInv, TypeOK
  <1>2. QED
    BY <1>1, InitType, NextType, PTL DEF Spec

-----------------------------------------------------------------------------
(* The order of the lines *)

\* Lines are numbered from 1.
LEMMA LinesNat == /\ Lines \subseteq Nat /\ \A n \in Lines : n >= 1
  BY FileHarvesterAssumption DEF Lines

\* Begun is a number, the line of the writer once it has written.
LEMMA BegunNat ==
    ASSUME TypeInv
    PROVE  /\ Begun \in Nat /\ wline \in Nat /\ wpart \in Nat
           /\ wpart # 0 => Begun = wline
  <1>1. wline \in Lines /\ wpart \in 0..Written(wline)
    BY DEF TypeInv
  <1>2. wline \in Nat /\ Written(wline) \in Nat
    BY <1>1, LinesNat, LineLength
  <1>3. wpart \in Nat
    BY <1>1, <1>2
  <1>4. QED
    BY <1>2, <1>3 DEF Begun

\* The writer's step, byte by byte: an old one is as before; a new first byte is
\* that of the next line.
LEMMA AppendOrder ==
    ASSUME TypeInv, WriterInv, WriterAppend
    PROVE  /\ Begun \in Nat /\ Begun' \in Nat /\ Begun <= Begun'
           /\ \A f \in 1..MaxFiles : \A i \in 1..Len(content'[f]) :
                \/ i \in 1..Len(content[f]) /\ content'[f][i] = content[f][i]
                \/ /\ f = wfile /\ i = Len(content[f]) + 1
                   /\ \A n \in Lines : content'[f][i] = <<n, 1>> => n = Begun + 1 /\ n = Begun'
  <1>1. /\ wline \in Nat /\ wpart \in Nat /\ Begun \in Nat
        /\ wpart # 0 => Begun = wline
    BY BegunNat
  <1>2. wline' \in Lines /\ wpart' \in 1..Written(wline')
    BY AppendProperty
  <1>3. wline' \in Nat /\ wpart' \in Nat /\ wpart' >= 1
    BY <1>2, LinesNat, LineLength
  <1>4. Begun' = wline'
    BY <1>3 DEF Begun
  <1>5. wline <= wline'
    BY <1>1, <1>3 DEF WriterAppend
  <1>6. wpart = 0 => Begun = 0
    BY DEF Begun
  <1>7. Begun' \in Nat /\ Begun <= Begun'
    BY <1>1, <1>3, <1>4, <1>5, <1>6
  <1>8. ASSUME NEW n \in Lines, Byte(wline', wpart') = <<n, 1>>
        PROVE  n = Begun + 1 /\ n = Begun'
    <2>1. n = wline' /\ wpart' = 1
      <3>1. n = Byte(wline', wpart')[1] /\ Byte(wline', wpart')[2] = 1
        BY <1>8
      <3>2. Length[wline'] \in Nat
        BY <1>2, LineLength
      <3>3. /\ Byte(wline', wpart')[1] = wline'
            /\ wpart' <= Length[wline'] => Byte(wline', wpart')[2] = wpart'
            /\ wpart' > Length[wline'] => Byte(wline', wpart')[2] = 0
        BY <1>2, <1>3, ByteParts
      <3>4. QED
        BY <1>3, <3>1, <3>2, <3>3
    <2>2. CASE wpart = 0
      <3>1. wline = 1
        BY <2>2 DEF WriterInv
      <3>2. wline \in Lines
        BY DEF TypeInv
      <3>3. Written(wline) \in Nat /\ Written(wline) >= 1
        BY <3>2, LineLength DEF Written
      <3>4. wline' = wline
        BY <2>2, <3>3 DEF WriterAppend
      <3>5. QED
        BY <1>4, <1>6, <2>1, <2>2, <3>1, <3>4
    <2>3. CASE wpart # 0
      <3>1. wline' = wline + 1
        BY <1>1, <2>1, <2>3 DEF WriterAppend
      <3>2. QED
        BY <1>1, <1>4, <2>1, <2>3, <3>1
    <2>4. QED
      BY <2>2, <2>3
  <1>9. ASSUME NEW f \in 1..MaxFiles, NEW i \in 1..Len(content'[f])
        PROVE  \/ i \in 1..Len(content[f]) /\ content'[f][i] = content[f][i]
               \/ /\ f = wfile /\ i = Len(content[f]) + 1
                  /\ content'[f][i] = Byte(wline', wpart')
    <2>1. Len(content[f]) \in Nat /\ \A k \in 1..Len(content[f]) : content'[f][k] = content[f][k]
      BY AppendProperty
    <2>2. CASE f # wfile
      <3>1. content'[f] = content[f]
        BY <2>2, AppendProperty
      <3>2. QED
        BY <3>1
    <2>3. CASE f = wfile
      <3>1. /\ Len(content'[f]) = Len(content[f]) + 1
            /\ content'[f][Len(content[f]) + 1] = Byte(wline', wpart')
        BY <2>3, AppendProperty
      <3>2. i \in 1..Len(content[f]) \/ i = Len(content[f]) + 1
        BY <2>1, <3>1
      <3>3. QED
        BY <2>1, <2>3, <3>1, <3>2
    <2>4. QED
      BY <2>2, <2>3
  <1>10. QED
    BY <1>1, <1>7, <1>8, <1>9

\* What was revisited stays so.
LEMMA HistoryKept ==
    ASSUME TypeInv, [Next]_vars
    PROVE  (raced => raced') /\ (revisited => revisited')
  <1>0. raced \in BOOLEAN /\ revisited \in BOOLEAN
    BY DEF TypeInv
  <1>1. CASE WriterReopen \/ Unlink
    <2>1. \/ raced' = raced /\ revisited' = (revisited \/ path < wfile)
          \/ revisited' = revisited /\ raced' = (raced \/ pc = "size")
      BY <1>1 DEF WriterReopen, Unlink
    <2>2. QED
      BY <1>0, <2>1
  <1>2. CASE OpenRecheck
    <2>1. UNCHANGED raced
      BY <1>2 DEF OpenRecheck
    <2>2. UNCHANGED revisited \/ Settled
      BY <1>2 DEF OpenRecheck
    <2>3. ASSUME Settled PROVE revisited => revisited'
      BY <1>0, <2>3 DEF Settled, Opened
    <2>4. QED
      BY <1>0, <2>1, <2>2, <2>3
  <1>3. CASE OpenSize
    <2>1. UNCHANGED raced
      BY <1>3 DEF OpenSize
    <2>2. UNCHANGED revisited \/ Opened(safe_file_size, FALSE)
      BY <1>3 DEF OpenSize
    <2>3. ASSUME Opened(safe_file_size, FALSE) PROVE revisited => revisited'
      BY <1>0, <2>3 DEF Opened
    <2>4. QED
      BY <1>0, <2>1, <2>2, <2>3
  <1>4. ASSUME \/ WriterAppend \/ Truncate \/ Create \/ Restore \/ RequestStop \/ Consume
               \/ OpenIdentity \/ OpenStream \/ Read \/ DrainRead \/ CheckIdentity
               \/ CheckSize \/ DrainStopped \/ Close \/ Shutdown \/ UNCHANGED vars
        PROVE  UNCHANGED historyVars
    BY <1>4 DEF WriterAppend, Truncate, Create, Restore, RequestStop, Consume,
       OpenIdentity, OpenStream, Read, DrainRead, CheckIdentity, CheckSize,
       DrainStopped, Close, Shutdown, vars
  <1>5. QED
    BY <1>1, <1>2, <1>3, <1>4 DEF Next, Harvest, Proceed, historyVars

\* The writer's order is kept by every step.
LEMMA WriterOrder ==
    ASSUME TypeInv, WriterInv, [Next]_vars
    PROVE  WriterInv'
  <1>0. MaxFiles \in Nat /\ files \in 1..MaxFiles /\ path \in 0..files /\ wfile \in 1..files
    BY FileHarvesterAssumption DEF TypeInv
  <1>1. CASE WriterAppend
    <2>1. wpart' # 0
      <3>1. wpart' \in 1..Written(wline') /\ wline' \in Lines
        BY <1>1, AppendProperty
      <3>2. QED
        BY <3>1, LineLength
    <2>0. ASSUME ~revisited' PROVE WrittenInOrder
      BY <2>0, HistoryKept DEF WriterInv
    <2>2. ASSUME ~revisited', NEW f \in 1..MaxFiles, f > wfile'
          PROVE  content'[f] = <<>>
      <3>1. wfile' = wfile /\ wfile \in Nat /\ f \in Nat
        BY <1>0, <1>1, AppendProperty
      <3>2. f > wfile /\ f # wfile
        BY <2>2, <3>1
      <3>3. content'[f] = content[f]
        BY <1>1, <3>2, AppendProperty
      <3>4. QED
        BY <2>0, <2>2, <3>2, <3>3 DEF WrittenInOrder
    <2>3. ASSUME NEW f \in 1..MaxFiles, NEW n \in Lines,
                 NEW i \in 1..Len(content'[f]), content'[f][i] = <<n, 1>>
          PROVE  n <= Begun'
      <3>1. Begun \in Nat /\ Begun' \in Nat /\ Begun <= Begun' /\ n \in Nat
        BY <1>1, AppendOrder, LinesNat
      <3>2. CASE i \in 1..Len(content[f]) /\ content'[f][i] = content[f][i]
        <4>1. n <= Begun
          BY <2>3, <3>2 DEF WriterInv
        <4>2. QED
          BY <3>1, <4>1
      <3>3. CASE n = Begun'
        BY <3>1, <3>3
      <3>4. QED
        BY <1>1, <2>3, <3>2, <3>3, AppendOrder
    <2>4. ASSUME ~revisited',
                 NEW f \in 1..MaxFiles, NEW g \in 1..MaxFiles, NEW m \in Lines, NEW n \in Lines,
                 NEW i \in 1..Len(content'[f]), NEW j \in 1..Len(content'[g]),
                 content'[f][i] = <<m, 1>>, content'[g][j] = <<n, 1>>,
                 f < g \/ (f = g /\ i < j)
          PROVE  m < n
      <3>1. Begun \in Nat /\ m \in Nat /\ n \in Nat
        BY <1>1, AppendOrder, LinesNat
      <3>2. CASE i \in 1..Len(content[f]) /\ content'[f][i] = content[f][i]
        <4>1. CASE j \in 1..Len(content[g]) /\ content'[g][j] = content[g][j]
          <5>1. /\ i \in 1..Len(content[f]) /\ j \in 1..Len(content[g])
                /\ content[f][i] = <<m, 1>> /\ content[g][j] = <<n, 1>>
            BY <2>4, <3>2, <4>1
          <5>2. WrittenInOrder
            BY <2>0, <2>4
          <5>3. QED
            BY <2>4, <5>1, <5>2 DEF WrittenInOrder
        <4>2. CASE n = Begun + 1
          <5>1. m <= Begun
            BY <2>4, <3>2 DEF WriterInv
          <5>2. QED
            BY <3>1, <4>2, <5>1
        <4>3. QED
          BY <1>1, <2>4, <4>1, <4>2, AppendOrder
      <3>3. CASE f = wfile /\ i = Len(content[f]) + 1
        <4>1. Len(content[f]) \in Nat /\ Len(content'[f]) = Len(content[f]) + 1
          BY <1>1, <3>3, AppendProperty
        <4>2. ~(f = g /\ i < j)
          BY <3>3, <4>1
        <4>3. g > wfile /\ g # wfile
          BY <1>0, <2>4, <3>3, <4>2
        <4>4. content[g] = <<>> /\ content'[g] = content[g]
          BY <1>1, <2>0, <2>4, <4>3, AppendProperty DEF WrittenInOrder
        <4>5. QED
          BY <4>4
      <3>4. QED
        BY <1>1, <2>4, <3>2, <3>3, AppendOrder
    <2>5. QED
      <3>1. ASSUME ~revisited' PROVE WrittenInOrder'
        BY <2>2, <2>4, <3>1 DEF WrittenInOrder
      <3>2. QED
        BY <2>1, <2>3, <3>1 DEF WriterInv
  <1>2. CASE WriterReopen
    <2>1. wfile' = path /\ path # 0 /\ UNCHANGED <<content, wline, wpart>>
      BY <1>2 DEF WriterReopen, fileVars
    <2>2. ASSUME ~revisited' PROVE WrittenInOrder'
      <3>1. ~revisited /\ ~(path < wfile)
        BY <1>2, <2>2 DEF WriterReopen
      <3>2. wfile <= wfile' /\ wfile \in Nat /\ wfile' \in Nat
        BY <1>0, <2>1, <3>1
      <3>3. WrittenInOrder
        BY <3>1 DEF WriterInv
      <3>4. ASSUME NEW f \in 1..MaxFiles, f > wfile' PROVE content'[f] = <<>>
        <4>1. f > wfile
          BY <3>2, <3>4
        <4>2. content[f] = <<>>
          BY <3>3, <4>1 DEF WrittenInOrder
        <4>3. QED
          BY <2>1, <4>2
      <3>5. \A f \in 1..MaxFiles : f > wfile' => content'[f] = <<>>
        BY <3>4
      <3>6. ASSUME NEW f \in 1..MaxFiles, NEW g \in 1..MaxFiles,
                   NEW m \in Lines, NEW n \in Lines,
                   NEW i \in 1..Len(content[f]), NEW j \in 1..Len(content[g]),
                   content[f][i] = <<m, 1>>, content[g][j] = <<n, 1>>,
                   f < g \/ (f = g /\ i < j)
            PROVE  m < n
        BY <3>3, <3>6 DEF WrittenInOrder
      <3>7. content' = content
        BY <2>1
      <3>8. QED
        BY <3>5, <3>6, <3>7 DEF WrittenInOrder
    <2>3. Begun' = Begun
      BY <2>1 DEF Begun
    <2>4. QED
      BY <2>1, <2>2, <2>3 DEF WriterInv
  <1>3. CASE Truncate
    <2>1. UNCHANGED <<wfile, wline, wpart>> /\ Begun' = Begun
      BY <1>3 DEF Truncate, writerVars, Begun
    <2>2. ASSUME NEW f \in 1..MaxFiles
          PROVE  content'[f] = <<>> \/ content'[f] = content[f]
      BY <1>3, TruncateProperty
    <2>3. \A i : i \notin 1..Len(<<>>)
      OBVIOUS
    <2>0. ASSUME ~revisited' PROVE WrittenInOrder
      BY <2>0, HistoryKept DEF WriterInv
    <2>4. ASSUME ~revisited', NEW f \in 1..MaxFiles, f > wfile'
          PROVE  content'[f] = <<>>
      BY <2>0, <2>1, <2>2, <2>4 DEF WrittenInOrder
    <2>5. \A f \in 1..MaxFiles : \A i \in 1..Len(content'[f]) : content'[f] = content[f]
      BY <2>2, <2>3
    <2>6. ASSUME NEW f \in 1..MaxFiles, NEW n \in Lines,
                 NEW i \in 1..Len(content'[f]), content'[f][i] = <<n, 1>>
          PROVE  n <= Begun'
      <3>1. content'[f] = content[f]
        BY <2>5
      <3>2. QED
        BY <2>1, <2>6, <3>1 DEF WriterInv
    <2>7. ASSUME ~revisited',
                 NEW f \in 1..MaxFiles, NEW g \in 1..MaxFiles, NEW m \in Lines, NEW n \in Lines,
                 NEW i \in 1..Len(content'[f]), NEW j \in 1..Len(content'[g]),
                 content'[f][i] = <<m, 1>>, content'[g][j] = <<n, 1>>,
                 f < g \/ (f = g /\ i < j)
          PROVE  m < n
      <3>1. content'[f] = content[f] /\ content'[g] = content[g]
        BY <2>5
      <3>2. /\ i \in 1..Len(content[f]) /\ j \in 1..Len(content[g])
            /\ content[f][i] = <<m, 1>> /\ content[g][j] = <<n, 1>>
        BY <2>7, <3>1
      <3>3. WrittenInOrder
        BY <2>0, <2>7
      <3>4. QED
        BY <2>7, <3>2, <3>3 DEF WrittenInOrder
    <2>8. QED
      <3>1. ASSUME ~revisited' PROVE WrittenInOrder'
        BY <2>4, <2>7, <3>1 DEF WrittenInOrder
      <3>2. wpart' = 0 => wline' = 1
        BY <2>1 DEF WriterInv
      <3>3. QED
        BY <2>6, <3>1, <3>2 DEF WriterInv
  <1>4. CASE UNCHANGED <<content, wfile, wline, wpart>>
    <2>1. Begun' = Begun
      BY <1>4 DEF Begun
    <2>2. \A f \in 1..MaxFiles : content'[f] = content[f]
      BY <1>4
    <2>3. \A f \in 1..MaxFiles, n \in Lines : \A i \in 1..Len(content'[f]) :
             content'[f][i] = <<n, 1>> => n <= Begun'
      BY <2>1, <2>2 DEF WriterInv
    <2>0. ASSUME ~revisited' PROVE WrittenInOrder
      BY <2>0, HistoryKept DEF WriterInv
    <2>4. ASSUME ~revisited', NEW f \in 1..MaxFiles, NEW g \in 1..MaxFiles,
                 NEW m \in Lines, NEW n \in Lines,
                 NEW i \in 1..Len(content'[f]), NEW j \in 1..Len(content'[g]),
                 content'[f][i] = <<m, 1>>, content'[g][j] = <<n, 1>>,
                 f < g \/ (f = g /\ i < j)
          PROVE  m < n
      <3>1. content'[f] = content[f] /\ content'[g] = content[g]
        BY <2>2
      <3>2. /\ i \in 1..Len(content[f]) /\ j \in 1..Len(content[g])
            /\ content[f][i] = <<m, 1>> /\ content[g][j] = <<n, 1>>
        BY <2>4, <3>1
      <3>3. WrittenInOrder
        BY <2>0, <2>4
      <3>4. QED
        BY <2>4, <3>2, <3>3 DEF WrittenInOrder
    <2>5. ASSUME ~revisited', NEW f \in 1..MaxFiles, f > wfile'
          PROVE  content'[f] = <<>>
      BY <1>4, <2>0, <2>5 DEF WrittenInOrder
    <2>6. QED
      <3>1. ASSUME ~revisited' PROVE WrittenInOrder'
        BY <2>4, <2>5, <3>1 DEF WrittenInOrder
      <3>2. wpart' = 0 => wline' = 1
        BY <1>4 DEF WriterInv
      <3>3. QED
        BY <2>3, <3>1, <3>2 DEF WriterInv
  <1>5. ASSUME Unlink \/ Create \/ Restore \/ RequestStop \/ Consume \/ Proceed \/ UNCHANGED vars
        PROVE  UNCHANGED <<content, wfile, wline, wpart>>
    BY <1>5 DEF Unlink, Create, Restore, RequestStop, Consume, Proceed, OpenIdentity, OpenStream,
       OpenRecheck, OpenSize, Read, DrainRead, CheckIdentity, CheckSize, DrainStopped,
       Close, Shutdown, vars, fileVars, writerVars
  <1>6. QED
    BY <1>1, <1>2, <1>3, <1>4, <1>5 DEF Next, Harvest

\* Ending a line takes nothing new, and ingests in order what was in order.
LEMMA LineDoneOrder ==
    ASSUME TypeInv, LineDone
    PROVE  /\ \A n \in Lines : Taken(n)' => Taken(n)
           /\ OrderInv => IngestedOnce'
  <1>1. ingested \in Seq(Lines) /\ Len(ingested) \in Nat /\ pending_line' = <<>>
    BY DEF TypeInv, LineDone
  <1>2. CASE ingested' = ingested
    <2>1. \A n \in Lines : Taken(n)' => Taken(n)
      BY <1>1, <1>2 DEF Taken
    <2>2. OrderInv => IngestedOnce'
      BY <1>2 DEF OrderInv, IngestedOnce
    <2>3. QED
      BY <2>1, <2>2
  <1>3. ASSUME NEW p \in Lines, pending_line # <<>>, pending_line[1] = <<p, 1>>,
               ingested' = Append(ingested, p)
        PROVE  /\ \A n \in Lines : Taken(n)' => Taken(n)
               /\ OrderInv => IngestedOnce'
    <2>1. /\ Len(ingested') = Len(ingested) + 1 /\ ingested'[Len(ingested) + 1] = p
          /\ \A i \in 1..Len(ingested) : ingested'[i] = ingested[i]
      BY <1>1, <1>3, AppendProperties
    <2>2. ASSUME NEW i \in 1..Len(ingested')
          PROVE  \/ i \in 1..Len(ingested) /\ ingested'[i] = ingested[i]
                 \/ i = Len(ingested) + 1 /\ ingested'[i] = p
      BY <1>1, <2>1
    <2>3. ASSUME NEW n \in Lines, Taken(n)' PROVE Taken(n)
      <3>1. PICK i \in 1..Len(ingested') : ingested'[i] = n
        BY <1>1, <2>3 DEF Taken
      <3>2. CASE i \in 1..Len(ingested) /\ ingested'[i] = ingested[i]
        BY <3>1, <3>2 DEF Taken
      <3>3. CASE ingested'[i] = p
        BY <1>3, <3>1, <3>3 DEF Taken
      <3>4. QED
        BY <2>2, <3>2, <3>3
    <2>4. ASSUME OrderInv, NEW i \in 1..Len(ingested'), NEW j \in 1..Len(ingested'), i < j
          PROVE  ingested'[i] < ingested'[j]
      <3>1. i \in 1..Len(ingested) /\ ingested'[i] = ingested[i]
        BY <1>1, <2>1, <2>2, <2>4
      <3>2. CASE j \in 1..Len(ingested) /\ ingested'[j] = ingested[j]
        BY <2>4, <3>1, <3>2 DEF OrderInv, IngestedOnce
      <3>3. CASE ingested'[j] = p
        <4>1. ingested[i] < p
          BY <1>3, <2>4, <3>1 DEF OrderInv
        <4>2. QED
          BY <3>1, <3>3, <4>1
      <3>4. QED
        BY <2>2, <3>2, <3>3
    <2>5. QED
      BY <2>3, <2>4 DEF IngestedOnce
  <1>4. QED
    BY <1>2, <1>3 DEF LineDone

\* Consuming takes nothing but what was taken and the byte consumed.
LEMMA ConsumeTaken ==
    ASSUME TypeInv, Consume, NEW n \in Lines
    PROVE  /\ Taken(n)' => Taken(n) \/ buffer[1] = <<n, 1>>
           /\ Fetched(n)' => Fetched(n)
  <1>1. Head(buffer) = buffer[1] /\ 1 \in 1..Len(buffer)
    BY ConsumeTypes
  <1>2. Taken(n)' => Taken(n) \/ buffer[1] = <<n, 1>>
    <2>1. CASE ConsumeSkipped \/ ConsumeOverlong
      BY <2>1 DEF ConsumeSkipped, ConsumeOverlong, Taken
    <2>2. CASE ConsumeFinished
      <3>1. LineDone
        BY <2>2, ProcessResult DEF ConsumeFinished, LineDone
      <3>2. QED
        BY <3>1, LineDoneOrder
    <2>3. CASE UNCHANGED lineVars
      BY <2>3 DEF lineVars, Taken
    <2>4. CASE ConsumeKept
      <3>1. ingested' = ingested /\ pending_line' = Append(pending_line, buffer[1])
        BY <1>1, <2>4 DEF ConsumeKept
      <3>2. pending_line \in Seq(Bytes) /\ Len(pending_line) \in Nat /\ buffer[1] \in Bytes
        BY <1>1, ConsumeTypes DEF TypeInv
      <3>3. /\ \A i \in 1..Len(pending_line) : pending_line'[i] = pending_line[i]
            /\ pending_line'[Len(pending_line) + 1] = buffer[1]
        BY <3>1, <3>2, AppendProperties
      <3>4. CASE pending_line = <<>>
        <4>1. pending_line'[1] = buffer[1]
          BY <3>3, <3>4
        <4>2. QED
          BY <3>1, <4>1 DEF Taken
      <3>5. CASE pending_line # <<>>
        <4>1. 1 \in 1..Len(pending_line)
          BY <3>2, <3>5
        <4>2. pending_line'[1] = pending_line[1]
          BY <3>3, <4>1
        <4>3. QED
          BY <3>1, <3>5, <4>2 DEF Taken
      <3>6. QED
        BY <3>4, <3>5
    <2>5. QED
      BY <2>1, <2>2, <2>3, <2>4, ConsumeCases
  <1>3. ASSUME NEW j \in 1..Len(buffer'), buffer'[j] = <<n, 1>>
        PROVE  \E k \in 1..Len(buffer) : buffer[k] = <<n, 1>>
    <2>1. Len(buffer') = Len(buffer) - 1 /\ buffer'[j] = buffer[j + 1] /\ Len(buffer') \in Nat
      BY ConsumeTypes
    <2>2. Len(buffer) \in Nat
      BY DEF TypeInv
    <2>3. j + 1 \in 1..Len(buffer)
      BY <2>1, <2>2
    <2>4. QED
      BY <1>3, <2>1, <2>3
  <1>4. QED
    BY <1>1, <1>2, <1>3 DEF Fetched

\* A read fetches nothing but what was fetched and what is in the file.
LEMMA ReadFetched ==
    ASSUME TypeInv, OpenInv, ReadStep, NEW n \in Lines
    PROVE  /\ Taken(n)' <=> Taken(n)
           /\ Fetched(n)' => \/ Taken(n)
                             \/ \E i \in 1..Len(content[stream]) :
                                   /\ i > offset /\ i <= offset'
                                   /\ content[stream][i] = <<n, 1>>
  <1>1. FileOpen /\ buffer' = Chunk /\ offset' = offset + Len(Chunk) /\ UNCHANGED lineVars
    BY DEF ReadStep
  <1>2. Taken(n)' <=> Taken(n)
    BY <1>1 DEF Taken, lineVars
  <1>3. ASSUME NEW j \in 1..Len(buffer'), buffer'[j] = <<n, 1>>
        PROVE  \E i \in 1..Len(content[stream]) :
                  i > offset /\ i <= offset' /\ content[stream][i] = <<n, 1>>
    <2>1. /\ offset + j <= Len(content[stream]) /\ Chunk[j] = content[stream][offset + j]
          /\ Len(content[stream]) \in Nat /\ Len(Chunk) \in Nat
      BY <1>1, <1>3, ChunkProperties
    <2>2. offset \in Nat /\ j \in Nat /\ j >= 1 /\ j <= Len(Chunk)
      BY <1>1, <2>1 DEF TypeInv
    <2>3. offset + j \in 1..Len(content[stream]) /\ offset + j > offset /\ offset + j <= offset'
      BY <1>1, <2>1, <2>2
    <2>4. content[stream][offset + j] = <<n, 1>>
      BY <1>1, <1>3, <2>1
    <2>5. QED
      BY <2>3, <2>4
  <1>4. QED
    BY <1>2, <1>3 DEF Fetched

\* The line's state is left alone or the line ended, and the buffer is left alone.
LineKept == (UNCHANGED lineVars \/ LineDone) /\ buffer' = buffer

\* Which steps do that.
LEMMA LineKeeps ==
    ASSUME \/ WriterAppend \/ WriterReopen \/ Unlink \/ Create \/ Restore \/ Truncate
           \/ RequestStop \/ OpenIdentity \/ OpenStream \/ OpenRecheck \/ OpenSize
           \/ CheckIdentity \/ CheckSize \/ DrainStopped \/ Close \/ Shutdown
           \/ UNCHANGED vars
    PROVE  LineKept
  <1>1. CASE \/ WriterAppend \/ WriterReopen \/ Unlink \/ Create \/ Restore \/ Truncate
             \/ RequestStop \/ OpenIdentity \/ OpenStream \/ OpenRecheck \/ OpenSize
             \/ CheckIdentity \/ DrainStopped \/ UNCHANGED vars
    <2>1. UNCHANGED lineVars /\ buffer' = buffer
      BY <1>1 DEF WriterAppend, WriterReopen, Unlink, Create, Restore, Truncate, RequestStop,
         OpenIdentity, OpenStream, OpenRecheck, OpenSize, CheckIdentity, DrainStopped,
         vars, readVars
    <2>2. QED
      BY <2>1 DEF LineKept
  <1>2. CASE CheckSize \/ Close \/ Shutdown
    <2>1. buffer' = buffer /\ (UNCHANGED lineVars \/ FlushOrDropPendingLine)
      BY <1>2 DEF CheckSize, Close, Shutdown, readVars
    <2>2. QED
      BY <2>1, FlushDone DEF LineKept
  <1>3. QED
    BY <1>1, <1>2

\* Nothing new is fetched by such a step.
LEMMA LineKeptFetched ==
    ASSUME TypeInv, LineKept, NEW n \in Lines
    PROVE  (Taken(n)' => Taken(n)) /\ (Fetched(n)' => Fetched(n))
  <1>1. Taken(n)' => Taken(n)
    <2>1. CASE UNCHANGED lineVars
      BY <2>1 DEF Taken, lineVars
    <2>2. CASE LineDone
      BY <2>2, LineDoneOrder
    <2>3. QED
      BY <2>1, <2>2 DEF LineKept
  <1>2. buffer' = buffer
    BY DEF LineKept
  <1>3. QED
    BY <1>1, <1>2 DEF Fetched

\* No line is fetched before it is begun.
LEMMA BegunKept ==
    ASSUME TypeInv, OpenInv, WriterInv, BegunInv, [Next]_vars
    PROVE  BegunInv'
  <1>0. Begun \in Nat /\ Begun' \in Nat /\ Begun <= Begun'
    <2>1. CASE WriterAppend
      BY <2>1, AppendOrder
    <2>2. CASE UNCHANGED <<wline, wpart>>
      BY <2>2, BegunNat DEF Begun
    <2>3. WriterAppend \/ UNCHANGED <<wline, wpart>>
      BY DEF Next, Harvest, WriterReopen, Truncate, Unlink, Create, Restore, RequestStop,
         Consume, Proceed, OpenIdentity, OpenStream, OpenRecheck, OpenSize, Read,
         DrainRead, CheckIdentity, CheckSize, DrainStopped, Close, Shutdown, vars,
         writerVars
    <2>4. QED
      BY <2>1, <2>2, <2>3
  <1>1. SUFFICES ASSUME NEW n \in Lines, Fetched(n)' PROVE n <= Begun
    BY <1>0, LinesNat DEF BegunInv
  <1>2. CASE LineKept
    BY <1>1, <1>2, LineKeptFetched DEF BegunInv
  <1>3. CASE Consume
    BY <1>1, <1>3, ConsumeTaken DEF BegunInv
  <1>4. CASE ReadStep
    <2>1. CASE Taken(n)
      BY <2>1 DEF BegunInv, Fetched
    <2>2. CASE \E i \in 1..Len(content[stream]) : content[stream][i] = <<n, 1>>
      <3>1. stream \in 1..MaxFiles
        BY <1>4, FileHarvesterAssumption DEF ReadStep, OpenInv, TypeInv
      <3>2. QED
        BY <2>2, <3>1 DEF WriterInv
    <2>3. QED
      BY <1>1, <1>4, <2>1, <2>2, ReadFetched
  <1>5. CASE Proceed
    <2>1. ReadStep \/ LineKept
      BY <1>5, ReadSteps, LineKeeps DEF Proceed
    <2>2. QED
      BY <1>2, <1>4, <2>1
  <1>6. QED
    BY <1>2, <1>3, <1>5, LineKeeps DEF Next, Harvest

\* At the size check the path names the open file, unless the path races or the open
\* file is not the one whose identity was recorded.
LEMMA PathKept ==
    ASSUME TypeInv, OpenInv, PathInv, [Next]_vars, ~raced', ~revisited
    PROVE  PathInv'
  <1>1. CASE Unlink
    <2>1. pc # "size" /\ pc' = pc
      BY <1>1 DEF Unlink
    <2>2. QED
      BY <2>1 DEF PathInv
  <1>2. CASE Create \/ Restore
    <2>1. path = 0 /\ pc' = pc
      BY <1>2 DEF Create, Restore
    <2>2. pc = "size" => stream \in 1..files /\ path = stream
      BY DEF OpenInv, FileOpen, PathInv
    <2>3. pc # "size"
      BY <2>1, <2>2, FileHarvesterAssumption DEF TypeInv
    <2>4. QED
      BY <2>1, <2>3 DEF PathInv
  <1>3. CASE UNCHANGED <<path, pc, stream>>
    BY <1>3 DEF PathInv
  <1>4. CASE CheckIdentity
    <2>1. PICK now \in {path, 0} : pc' = IF now # identity THEN "drain" ELSE "size"
      BY <1>4 DEF CheckIdentity, current_path_identity
    <2>2. pc = "identity" /\ UNCHANGED <<path, stream>>
      BY <1>4 DEF CheckIdentity, openVars
    <2>3. stream = identity /\ stream \in 1..files
      BY <2>2 DEF OpenInv, FileOpen
    <2>4. pc' = "size" => path = stream
      BY <2>1, <2>3, FileHarvesterAssumption DEF TypeInv
    <2>5. QED
      BY <2>2, <2>4 DEF PathInv
  <1>5. CASE Proceed /\ ~CheckIdentity
    <2>1. pc' # "size"
      <3>1. CASE Read \/ DrainRead
        BY <1>5, <3>1, ReadSteps DEF ReadStep, Proceed
      <3>2. CASE ~(Read \/ DrainRead)
        BY <1>5, <3>2 DEF Proceed, OpenIdentity, OpenStream, OpenRecheck, Settled,
           Opened, OpenSize, CheckSize, DrainStopped, Close, Shutdown
      <3>3. QED
        BY <3>1, <3>2
    <2>2. QED
      BY <2>1 DEF PathInv
  <1>6. ASSUME \/ WriterAppend \/ WriterReopen \/ Truncate \/ RequestStop \/ Consume
               \/ UNCHANGED vars
        PROVE  UNCHANGED <<path, pc, stream>>
    BY <1>6 DEF WriterAppend, WriterReopen, Truncate, RequestStop, Consume, vars,
       fileVars, openVars
  <1>7. QED
    BY <1>1, <1>2, <1>3, <1>4, <1>5, <1>6 DEF Next, Harvest

\* What may still be read after a step could be read before it, or is new.
UnreadKept ==
    \A f \in 1..MaxFiles, n \in Lines : \A i \in 1..Len(content'[f]) :
       Unread(f, i)' /\ content'[f][i] = <<n, 1>>
          => \/ i \in 1..Len(content[f]) /\ Unread(f, i) /\ content[f][i] = <<n, 1>>
             \/ n > Begun

\* Steps that keep the line's state and what is unread keep the order.
LEMMA OrderKept ==
    ASSUME TypeInv, BegunInv, OrderInv, LineKept, UnreadKept
    PROVE  OrderInv'
  <1>1. IngestedOnce'
    <2>1. CASE UNCHANGED lineVars
      BY <2>1 DEF OrderInv, IngestedOnce, lineVars
    <2>2. CASE LineDone
      BY <2>2, LineDoneOrder
    <2>3. QED
      BY <2>1, <2>2 DEF LineKept
  <1>2. ASSUME NEW n \in Lines, pending_line' # <<>>, pending_line'[1] = <<n, 1>>,
               NEW i \in 1..Len(ingested')
        PROVE  ingested'[i] < n
    <2>1. UNCHANGED lineVars
      BY <1>2 DEF LineKept, LineDone
    <2>2. QED
      BY <1>2, <2>1 DEF OrderInv, lineVars
  <1>3. buffer' = buffer
    BY DEF LineKept
  <1>4. ASSUME NEW m \in Lines, NEW n \in Lines, NEW j \in 1..Len(buffer'),
               Taken(m)', buffer'[j] = <<n, 1>>
        PROVE  m < n
    <2>1. Taken(m)
      BY <1>4, LineKeptFetched
    <2>2. QED
      BY <1>3, <1>4, <2>1 DEF OrderInv
  <1>5. ASSUME NEW m \in Lines, NEW n \in Lines, NEW j \in 1..Len(buffer'),
               NEW k \in 1..Len(buffer'), j < k, buffer'[j] = <<m, 1>>, buffer'[k] = <<n, 1>>
        PROVE  m < n
    BY <1>3, <1>5 DEF OrderInv
  <1>6. ASSUME NEW f \in 1..MaxFiles, NEW m \in Lines, NEW n \in Lines,
               NEW i \in 1..Len(content'[f]),
               Unread(f, i)', Fetched(m)', content'[f][i] = <<n, 1>>
        PROVE  m < n
    <2>1. Fetched(m)
      BY <1>6, LineKeptFetched
    <2>2. CASE i \in 1..Len(content[f]) /\ Unread(f, i) /\ content[f][i] = <<n, 1>>
      BY <2>1, <2>2 DEF OrderInv
    <2>3. CASE n > Begun
      <3>1. m <= Begun
        BY <2>1 DEF BegunInv
      <3>2. Begun \in Nat /\ m \in Nat /\ n \in Nat
        BY BegunNat, LinesNat
      <3>3. QED
        BY <2>3, <3>1, <3>2
    <2>4. QED
      BY <1>6, <2>2, <2>3 DEF UnreadKept
  <1>7. QED
    <2> HIDE DEF Taken, Fetched, Unread
    <2>1. QED
      BY <1>1, <1>2, <1>4, <1>5, <1>6 DEF OrderInv

\* No step of the writer or of log rotation makes an old byte unread again.
LEMMA UnreadEnvironment ==
    ASSUME TypeInv, OpenInv, WriterInv,
           WriterAppend \/ WriterReopen \/ Unlink \/ Create \/ Restore \/ Truncate \/ RequestStop
    PROVE  UnreadKept
  <1>1. UNCHANGED <<pc, stream, identity, offset>>
    BY DEF WriterAppend, WriterReopen, Unlink, Create, Restore, Truncate, RequestStop,
       openVars, readVars
  <1>2. SUFFICES ASSUME NEW f \in 1..MaxFiles, NEW n \in Lines, NEW i \in 1..Len(content'[f]),
                        Unread(f, i)', content'[f][i] = <<n, 1>>
                 PROVE  \/ i \in 1..Len(content[f]) /\ Unread(f, i) /\ content[f][i] = <<n, 1>>
                        \/ n > Begun
    BY DEF UnreadKept
  <1>3. CASE WriterAppend
    <2>1. CASE i \in 1..Len(content[f]) /\ content'[f][i] = content[f][i]
      <3>1. Len(content[f]) <= Len(content'[f])
        BY <1>3, AppendProperty
      <3>2. Len(content[f]) \in Nat /\ Len(content'[f]) \in Nat /\ offset \in Nat
        BY <1>3, AppendProperty DEF TypeInv
      <3>3. Len(content'[f]) < offset => Len(content[f]) < offset
        BY <3>1, <3>2
      <3>4. Unread(f, i)
        BY <1>1, <1>2, <3>3 DEF Unread, FileOpen
      <3>5. QED
        BY <1>2, <2>1, <3>4
    <2>2. CASE n = Begun + 1 /\ Begun \in Nat
      BY <2>2
    <2>3. QED
      BY <1>2, <1>3, <2>1, <2>2, AppendOrder
  <1>4. CASE content'[f] = content[f]
    <2>1. Unread(f, i)
      BY <1>1, <1>2, <1>4 DEF Unread, FileOpen
    <2>2. QED
      BY <1>2, <1>4, <2>1
  <1>5. CASE Truncate
    <2>1. content'[f] # <<>>
      BY <1>2
    <2>2. content'[f] = content[f]
      BY <1>5, <2>1, TruncateProperty
    <2>3. QED
      BY <1>4, <2>2
  <1>6. CASE WriterReopen \/ Unlink \/ Create \/ Restore \/ RequestStop
    BY <1>4, <1>6 DEF WriterReopen, Unlink, Create, Restore, RequestStop, fileVars
  <1>7. QED
    BY <1>3, <1>5, <1>6

\* Nor does opening a file that is newer than the last.
LEMMA UnreadOpening ==
    ASSUME TypeInv, OpenInv, OpenIdentity \/ OpenStream \/ OpenRecheck \/ OpenSize,
           ~revisited'
    PROVE  UnreadKept
  <1>0. /\ MaxFiles \in Nat /\ files \in 1..MaxFiles /\ path \in 0..files
        /\ identity \in 0..files
    BY FileHarvesterAssumption DEF TypeInv
  <1>1. content' = content
    BY DEF OpenIdentity, OpenStream, OpenRecheck, OpenSize, fileVars
  <1>2. SUFFICES ASSUME NEW f \in 1..MaxFiles, NEW i \in 1..Len(content[f]), Unread(f, i)'
                 PROVE  Unread(f, i)
    BY <1>1 DEF UnreadKept
  <1>3. f \in Nat /\ identity \in Nat /\ pc \in {"open", "opening", "opened", "sizing"}
    <2>1. pc \in {"open", "opening", "opened", "sizing"}
      BY DEF OpenIdentity, OpenStream, OpenRecheck, OpenSize
    <2>2. QED
      BY <1>0, <2>1
  <1>4. SUFFICES f > identity
    BY <1>3, <1>4 DEF Unread, FileOpen
  <1>5. CASE pc' \in {"open", "opening", "opened", "sizing"} /\ identity' = identity
    BY <1>2, <1>5 DEF Unread, FileOpen
  <1>6. ASSUME pc \in {"opened", "sizing"}, NEW at \in Nat, NEW back \in BOOLEAN,
               Opened(at, back), stream' = stream, stream = before \/ revisited'
        PROVE  f > identity
    <2>1. before \in 1..files
      BY <1>6 DEF OpenInv
    <2>2. before > identity /\ pc' = "read"
      BY <1>6, <2>1, OpenedTypes
    <2>3. f > stream \/ f = stream
      BY <1>2, <1>6, <2>2 DEF Unread, FileOpen
    <2>4. QED
      BY <1>0, <1>3, <1>6, <2>1, <2>2, <2>3
  <1>7. CASE OpenIdentity \/ OpenStream
    BY <1>5, <1>7 DEF OpenIdentity, OpenStream
  <1>8. CASE OpenRecheck
    <2>1. pc = "opened" /\ before \in 1..files
      BY <1>8 DEF OpenRecheck, OpenInv
    <2>2. PICK after \in {path, 0} :
            \/ pc' = "open" /\ identity' = identity
            \/ after = before /\ Settled /\ stream' = stream
      BY <1>8 DEF OpenRecheck, current_path_identity
    <2>3. CASE after = before /\ Settled /\ stream' = stream
      <3>1. path = before
        BY <2>1, <2>3
      <3>2. stream # before => CameBack
        BY <3>1 DEF CameBack
      <3>3. CASE pc' = "sizing" /\ identity' = identity
        BY <1>5, <3>3
      <3>4. CASE Opened(0, CameBack)
        <4>1. CameBack => revisited'
          BY <2>1, <3>4, OpenedTypes DEF CameBack
        <4>2. CameBack \in BOOLEAN /\ 0 \in Nat
          BY DEF CameBack
        <4>3. QED
          BY <1>6, <2>1, <2>3, <3>2, <3>4, <4>1, <4>2
      <3>5. QED
        BY <2>3, <3>3, <3>4 DEF Settled
    <2>4. QED
      BY <1>5, <2>2, <2>3
  <1>9. CASE OpenSize
    <2>1. /\ pc = "sizing" /\ before \in 1..files
          /\ stream = before \/ revisited
      BY <1>9 DEF OpenSize, OpenInv
    <2>2. CASE pc' = "open" /\ identity' = identity
      BY <1>5, <2>2
    <2>3. CASE path # 0 /\ Opened(safe_file_size, FALSE) /\ stream' = stream
      <3>1. path \in 1..MaxFiles
        BY <1>0, <2>3
      <3>2. content[path] \in Seq(Bytes)
        BY <3>1 DEF TypeInv
      <3>3. safe_file_size \in Nat
        BY <3>2 DEF safe_file_size
      <3>4. FALSE \in BOOLEAN
        OBVIOUS
      <3>5. revisited => revisited'
        BY <2>1, <2>3, <3>3, <3>4, OpenedTypes
      <3>6. QED
        BY <1>6, <2>1, <2>3, <3>3, <3>4, <3>5
    <2>4. QED
      BY <1>9, <2>2, <2>3 DEF OpenSize
  <1>10. QED
    BY <1>7, <1>8, <1>9

\* Nor do the checks, without the race, closing and shutting down.
LEMMA UnreadChecks ==
    ASSUME TypeInv, OpenInv, PathInv, ~revisited,
           CheckIdentity \/ CheckSize \/ DrainStopped \/ Close \/ Shutdown \/ UNCHANGED vars
    PROVE  UnreadKept
  <1>0. /\ MaxFiles \in Nat /\ files \in 1..MaxFiles /\ identity \in 0..files
        /\ stream \in 0..files
    BY FileHarvesterAssumption DEF TypeInv
  <1>1. content' = content
    BY DEF CheckIdentity, CheckSize, DrainStopped, Close, Shutdown, vars, fileVars
  <1>2. SUFFICES ASSUME NEW f \in 1..MaxFiles, NEW i \in 1..Len(content[f]), Unread(f, i)'
                 PROVE  Unread(f, i)
    BY <1>1 DEF UnreadKept
  <1>3. CASE CheckIdentity \/ DrainStopped
    <2>1. FileOpen /\ FileOpen' /\ stream' = stream /\ offset' = offset
      BY <1>3 DEF CheckIdentity, DrainStopped, FileOpen, openVars, readVars
    <2>2. QED
      BY <1>1, <1>2, <2>1 DEF Unread, FileOpen
  <1>4. CASE CheckSize
    <2>1. /\ pc = "size" /\ FileOpen /\ FileOpen' /\ stream' = stream
          /\ \/ path # 0 /\ safe_file_size < offset
             \/ offset' = offset
      BY <1>4 DEF CheckSize, FileOpen, openVars
    <2>2. CASE offset' = offset
      BY <1>1, <1>2, <2>1, <2>2 DEF Unread, FileOpen
    <2>3. CASE safe_file_size < offset
      <3>1. path = stream
        BY <2>1 DEF PathInv
      <3>2. Len(content[stream]) < offset
        BY <2>3, <3>1 DEF safe_file_size
      <3>3. f > stream \/ f = stream
        BY <1>2, <2>1 DEF Unread, FileOpen
      <3>4. QED
        BY <2>1, <3>2, <3>3 DEF Unread, FileOpen
    <2>4. QED
      BY <2>1, <2>2, <2>3
  <1>5. CASE Close
    <2>1. pc' = "open" /\ identity' = identity /\ FileOpen
      BY <1>5 DEF Close, FileOpen
    <2>2. f > identity /\ stream = identity
      BY <1>2, <2>1 DEF Unread, FileOpen, OpenInv
    <2>3. QED
      BY <2>1, <2>2 DEF Unread, FileOpen
  <1>6. CASE Shutdown
    <2>1. pc' = "done"
      BY <1>6 DEF Shutdown
    <2>2. QED
      BY <1>2, <2>1 DEF Unread, FileOpen
  <1>7. CASE UNCHANGED vars
    <2>1. UNCHANGED <<pc, stream, identity, offset>>
      BY <1>7 DEF vars, openVars, readVars
    <2>2. QED
      BY <1>1, <1>2, <2>1 DEF Unread, FileOpen
  <1>8. QED
    BY <1>3, <1>4, <1>5, <1>6, <1>7

\* Reading keeps the order: the bytes read were unread.
LEMMA ReadOrder ==
    ASSUME TypeInv, OpenInv, WrittenInOrder, OrderInv, ReadStep
    PROVE  OrderInv'
  <1>1. /\ FileOpen /\ FileOpen' /\ buffer = <<>> /\ buffer' = Chunk
        /\ offset' = offset + Len(Chunk)
        /\ UNCHANGED <<lineVars, content, stream>>
    BY DEF ReadStep, fileVars, openVars
  <1>2. PICK s : s = content[stream]
    OBVIOUS
  <1>3. /\ Len(s) \in Nat /\ Len(Chunk) \in Nat /\ offset \in Nat
        /\ \A j \in 1..Len(Chunk) : offset + j <= Len(s) /\ Chunk[j] = s[offset + j]
    BY <1>1, <1>2, ChunkProperties DEF TypeInv
  <1>4. stream \in 1..MaxFiles
    BY <1>1, FileHarvesterAssumption DEF OpenInv, TypeInv
  <1>5. IngestedOnce'
    BY <1>1 DEF OrderInv, IngestedOnce, lineVars
  <1>6. ASSUME NEW n \in Lines, pending_line' # <<>>, pending_line'[1] = <<n, 1>>,
               NEW i \in 1..Len(ingested')
        PROVE  ingested'[i] < n
    BY <1>1, <1>6 DEF OrderInv, lineVars
  <1>7. ASSUME NEW j \in 1..Len(buffer')
        PROVE  /\ j \in Nat /\ offset + j \in 1..Len(s) /\ buffer'[j] = s[offset + j]
               /\ Unread(stream, offset + j)
    <2>1. offset + j <= Len(s) /\ buffer'[j] = s[offset + j] /\ j \in Nat /\ j >= 1
      BY <1>1, <1>3
    <2>2. offset + j \in 1..Len(s) /\ offset + j > offset
      BY <1>3, <2>1
    <2>3. Unread(stream, offset + j)
      BY <1>1, <2>2 DEF Unread, FileOpen
    <2>4. QED
      BY <2>1, <2>2, <2>3
  <1>8. ASSUME NEW m \in Lines, NEW n \in Lines, NEW j \in 1..Len(buffer'),
               Taken(m)', buffer'[j] = <<n, 1>>
        PROVE  m < n
    <2>1. Taken(m)
      BY <1>8, ReadFetched
    <2>2. Fetched(m)
      BY <2>1 DEF Fetched
    <2>3. content[stream][offset + j] = <<n, 1>> /\ offset + j \in 1..Len(content[stream])
      BY <1>2, <1>7, <1>8
    <2>4. QED
      BY <1>4, <1>7, <2>2, <2>3 DEF OrderInv
  <1>9. ASSUME NEW m \in Lines, NEW n \in Lines, NEW j \in 1..Len(buffer'),
               NEW k \in 1..Len(buffer'), j < k, buffer'[j] = <<m, 1>>, buffer'[k] = <<n, 1>>
        PROVE  m < n
    <2>1. /\ offset + j \in 1..Len(content[stream]) /\ offset + k \in 1..Len(content[stream])
          /\ content[stream][offset + j] = <<m, 1>> /\ content[stream][offset + k] = <<n, 1>>
      BY <1>2, <1>7, <1>9
    <2>2. offset + j < offset + k
      BY <1>3, <1>7, <1>9
    <2>3. QED
      BY <1>4, <2>1, <2>2 DEF WrittenInOrder
  <1>10. ASSUME NEW f \in 1..MaxFiles, NEW m \in Lines, NEW n \in Lines,
                NEW i \in 1..Len(content'[f]),
                Unread(f, i)', Fetched(m)', content'[f][i] = <<n, 1>>
         PROVE  m < n
    <2>1. content[f][i] = <<n, 1>> /\ i \in 1..Len(content[f])
      BY <1>1, <1>10
    <2>2. f > stream \/ (f = stream /\ (i > offset' \/ Len(content[f]) < offset'))
      BY <1>1, <1>10 DEF Unread, FileOpen
    <2>3. f = stream => i > offset' \/ Len(s) < offset
      <3>1. CASE Len(Chunk) = 0
        BY <1>1, <1>2, <1>3, <2>2, <3>1
      <3>2. CASE Len(Chunk) # 0
        <4>1. Len(Chunk) \in 1..Len(Chunk)
          BY <1>3, <3>2
        <4>2. offset' <= Len(s)
          BY <1>1, <1>3, <4>1
        <4>3. offset' \in Nat
          BY <1>1, <1>3
        <4>4. ~(Len(s) < offset')
          BY <1>3, <4>2, <4>3
        <4>5. QED
          BY <1>2, <2>2, <4>4
      <3>3. QED
        BY <3>1, <3>2
    <2>4. Unread(f, i)
      <3>1. i \in Nat
        BY <2>1
      <3>2. i > offset' => i > offset
        BY <1>1, <1>3, <3>1
      <3>3. QED
        BY <1>1, <1>2, <2>2, <2>3, <3>2 DEF Unread, FileOpen
    <2>5. CASE Taken(m)
      <3>1. Fetched(m)
        BY <2>5 DEF Fetched
      <3>2. QED
        BY <2>1, <2>4, <3>1 DEF OrderInv
    <2>6. ASSUME NEW k \in 1..Len(content[stream]), k > offset, k <= offset',
                 content[stream][k] = <<m, 1>>
          PROVE  m < n
      <3>0. f \in Nat /\ stream \in Nat /\ i \in Nat /\ k \in Nat /\ offset' \in Nat
        BY <1>1, <1>3, <1>4, <2>1
      <3>1. k <= Len(s)
        BY <1>2, <2>6
      <3>2. stream < f \/ (stream = f /\ k < i)
        BY <1>3, <2>2, <2>3, <2>6, <3>0, <3>1
      <3>3. QED
        BY <1>4, <2>1, <2>6, <3>2 DEF WrittenInOrder
    <2>7. QED
      BY <1>10, <2>5, <2>6, ReadFetched
  <1>11. QED
    BY <1>5, <1>6, <1>8, <1>9, <1>10 DEF OrderInv

\* Consuming keeps the order: the byte consumed comes before those left.
LEMMA ConsumeOrder ==
    ASSUME TypeInv, OpenInv, OrderInv, Consume
    PROVE  OrderInv'
  <1>1. UNCHANGED <<pc, stream, identity, offset, content>>
    BY DEF Consume, fileVars, openVars
  <1>2. /\ Len(buffer') = Len(buffer) - 1 /\ Len(buffer') \in Nat /\ Len(buffer) \in Nat
        /\ \A j \in 1..Len(buffer') : buffer'[j] = buffer[j + 1]
        /\ Head(buffer) = buffer[1] /\ 1 \in 1..Len(buffer)
    BY ConsumeTypes DEF TypeInv
  <1>3. \A j \in 1..Len(buffer') : j + 1 \in 1..Len(buffer) /\ 1 < j + 1
    BY <1>2
  <1>4. IngestedOnce'
    <2>1. CASE ingested' = ingested
      BY <2>1 DEF OrderInv, IngestedOnce
    <2>2. CASE ConsumeFinished
      <3>1. LineDone
        BY <2>2, ProcessResult DEF ConsumeFinished, LineDone
      <3>2. QED
        BY <3>1, LineDoneOrder
    <2>3. QED
      BY <2>1, <2>2, ConsumeCases DEF ConsumeSkipped, ConsumeOverlong, ConsumeKept, lineVars
  <1>5. ASSUME NEW n \in Lines, pending_line' # <<>>, pending_line'[1] = <<n, 1>>,
               NEW i \in 1..Len(ingested')
        PROVE  ingested'[i] < n
    <2>1. ingested' = ingested
      BY <1>5, ConsumeCases DEF ConsumeSkipped, ConsumeFinished, ConsumeOverlong,
         ConsumeKept, lineVars
    <2>2. CASE pending_line # <<>> /\ pending_line[1] = <<n, 1>>
      BY <1>5, <2>1, <2>2 DEF OrderInv
    <2>3. CASE buffer[1] = <<n, 1>>
      <3>1. ingested[i] \in Lines
        BY <1>5, <2>1, ElementOfSeq DEF TypeInv
      <3>2. Taken(ingested[i])
        BY <1>5, <2>1 DEF Taken
      <3>3. ingested[i] < n
        BY <1>2, <2>3, <3>1, <3>2 DEF OrderInv
      <3>4. QED
        BY <2>1, <3>3
    <2>4. \/ pending_line # <<>> /\ pending_line[1] = <<n, 1>>
          \/ buffer[1] = <<n, 1>>
      <3>1. CASE pending_line' = pending_line
        BY <1>5, <3>1
      <3>2. CASE ConsumeKept
        <4>1. pending_line' = Append(pending_line, buffer[1])
          BY <1>2, <3>2 DEF ConsumeKept
        <4>2. pending_line \in Seq(Bytes) /\ Len(pending_line) \in Nat /\ buffer[1] \in Bytes
          BY <1>2, ConsumeTypes DEF TypeInv
        <4>3. /\ \A k \in 1..Len(pending_line) : pending_line'[k] = pending_line[k]
              /\ pending_line'[Len(pending_line) + 1] = buffer[1]
          BY <4>1, <4>2, AppendProperties
        <4>4. CASE pending_line = <<>>
          BY <1>5, <4>3, <4>4
        <4>5. CASE pending_line # <<>>
          <5>1. 1 \in 1..Len(pending_line)
            BY <4>2, <4>5
          <5>2. QED
            BY <1>5, <4>3, <4>5, <5>1
        <4>6. QED
          BY <4>4, <4>5
      <3>3. QED
        BY <1>5, <3>1, <3>2, ConsumeCases DEF ConsumeSkipped, ConsumeFinished,
           ConsumeOverlong, lineVars
    <2>5. QED
      BY <2>2, <2>3, <2>4
  <1>6. ASSUME NEW m \in Lines, NEW n \in Lines, NEW j \in 1..Len(buffer'),
               Taken(m)', buffer'[j] = <<n, 1>>
        PROVE  m < n
    <2>1. buffer[j + 1] = <<n, 1>> /\ j + 1 \in 1..Len(buffer) /\ 1 < j + 1
      BY <1>2, <1>3, <1>6
    <2>2. CASE Taken(m)
      BY <2>1, <2>2 DEF OrderInv
    <2>3. CASE buffer[1] = <<m, 1>>
      BY <1>2, <2>1, <2>3 DEF OrderInv
    <2>4. QED
      BY <1>6, <2>2, <2>3, ConsumeTaken
  <1>7. ASSUME NEW m \in Lines, NEW n \in Lines, NEW j \in 1..Len(buffer'),
               NEW k \in 1..Len(buffer'), j < k, buffer'[j] = <<m, 1>>, buffer'[k] = <<n, 1>>
        PROVE  m < n
    <2>1. /\ buffer[j + 1] = <<m, 1>> /\ j + 1 \in 1..Len(buffer)
          /\ buffer[k + 1] = <<n, 1>> /\ k + 1 \in 1..Len(buffer)
      BY <1>2, <1>3, <1>7
    <2>2. j + 1 < k + 1
      BY <1>2, <1>7
    <2>3. QED
      BY <2>1, <2>2 DEF OrderInv
  <1>8. ASSUME NEW f \in 1..MaxFiles, NEW m \in Lines, NEW n \in Lines,
               NEW i \in 1..Len(content'[f]),
               Unread(f, i)', Fetched(m)', content'[f][i] = <<n, 1>>
        PROVE  m < n
    <2>1. Fetched(m)
      BY <1>8, ConsumeTaken
    <2>2. Unread(f, i)
      BY <1>1, <1>8 DEF Unread, FileOpen
    <2>3. content[f][i] = <<n, 1>> /\ i \in 1..Len(content[f])
      BY <1>1, <1>8
    <2>4. QED
      BY <2>1, <2>2, <2>3 DEF OrderInv
  <1>9. QED
    BY <1>4, <1>5, <1>6, <1>7, <1>8 DEF OrderInv

\* The order holds at the start.
LEMMA InitOnce == Init => OnceInv
  <1>1. SUFFICES ASSUME Init PROVE OnceInv
    OBVIOUS
  <1>2. TypeInv /\ OpenInv
    BY <1>1, InitType
  <1>3. /\ \A f \in 1..MaxFiles : content[f] = <<>>
        /\ buffer = <<>> /\ pending_line = <<>> /\ ingested = <<>>
        /\ pc = "open" /\ path = 1 /\ identity = 0 /\ wline = 1
    BY <1>1 DEF Init
  <1>4. \A i : i \notin 1..Len(<<>>)
    OBVIOUS
  <1>5. WriterInv
    BY <1>3, <1>4 DEF WriterInv, WrittenInOrder
  <1>6. \A n \in Lines : ~Fetched(n) /\ ~Taken(n)
    BY <1>3, <1>4 DEF Fetched, Taken
  <1>7. BegunInv
    BY <1>6 DEF BegunInv
  <1>8. PathInv
    BY <1>3 DEF PathInv
  <1>9. OrderInv
    BY <1>3, <1>4, <1>6 DEF OrderInv, IngestedOnce
  <1>10. QED
    BY <1>2, <1>5, <1>7, <1>8, <1>9 DEF OnceInv

\* Every step keeps the order, unless the race has happened or a file was revisited.
LEMMA NextOnce ==
    ASSUME OnceInv, [Next]_vars
    PROVE  OnceInv'
  <1>1. TypeInv /\ OpenInv /\ WriterInv /\ BegunInv
    BY DEF OnceInv
  <1>2. TypeInv' /\ OpenInv' /\ WriterInv' /\ BegunInv'
    BY <1>1, NextType, WriterOrder, BegunKept
  <1>3. ASSUME ~raced', ~revisited' PROVE PathInv' /\ OrderInv'
    <2>1. ~raced /\ ~revisited
      BY <1>1, <1>3, HistoryKept
    <2>2. PathInv /\ OrderInv /\ WrittenInOrder
      BY <2>1 DEF OnceInv, WriterInv
    <2>3. PathInv'
      BY <1>1, <1>3, <2>1, <2>2, PathKept
    <2>4. CASE LineKept /\ UnreadKept
      BY <1>1, <2>2, <2>3, <2>4, OrderKept
    <2>5. CASE Consume
      BY <1>1, <2>2, <2>3, <2>5, ConsumeOrder
    <2>6. CASE ReadStep
      BY <1>1, <2>2, <2>3, <2>6, ReadOrder
    <2>7. CASE WriterAppend \/ WriterReopen \/ Unlink \/ Create \/ Restore \/ Truncate \/ RequestStop
      BY <1>1, <2>4, <2>7, LineKeeps, UnreadEnvironment
    <2>8. CASE Proceed
      <3>1. CASE OpenIdentity \/ OpenStream \/ OpenRecheck \/ OpenSize
        BY <1>1, <1>3, <2>4, <3>1, LineKeeps, UnreadOpening
      <3>2. CASE CheckIdentity \/ CheckSize \/ DrainStopped \/ Close \/ Shutdown
        BY <1>1, <2>1, <2>2, <2>4, <3>2, LineKeeps, UnreadChecks
      <3>3. CASE Read \/ DrainRead
        BY <2>6, <2>8, <3>3, ReadSteps DEF Proceed
      <3>4. QED
        BY <2>3, <2>8, <3>1, <3>2, <3>3 DEF Proceed
    <2>9. CASE UNCHANGED vars
      BY <1>1, <2>1, <2>2, <2>4, <2>9, LineKeeps, UnreadChecks
    <2>10. OrderInv'
      BY <2>5, <2>7, <2>8, <2>9 DEF Next, Harvest
    <2>11. QED
      BY <2>3, <2>10
  <1>4. QED
    BY <1>2, <1>3 DEF OnceInv

\* Lines are ingested in the order written and none twice, across rotation,
\* truncation and reopening (run, file.hpp:161), unless the path changes between
\* the identity check and the size check of one turn, or the harvester or the
\* writer goes back to a file, as the harvester does after a failing stat.
THEOREM SafeOnceUnlessRaced == Spec => []OnceUnlessRaced
  <1>1. OnceInv => OnceUnlessRaced
    BY DEF OnceInv, OrderInv, OnceUnlessRaced
  <1>2. QED
    BY <1>1, InitOnce, NextOnce, PTL DEF Spec

-----------------------------------------------------------------------------
(* Whole lines *)

\* How the writer goes from one line to the next.
LEMMA AppendLine ==
    ASSUME TypeInv, WriterAppend
    PROVE  /\ wpart \in Nat /\ wpart' \in Nat /\ wpart' >= 1
           /\ Length[wline] \in Nat /\ Length[wline'] \in Nat
           /\ wpart \in 1..Length[wline] \/ wpart \in {0, Written(wline)}
           /\ wpart \in 1..Length[wline] => wline' = wline /\ wpart' = wpart + 1
           /\ wpart \in {0, Written(wline)} => wpart' = 1
  <1>1. wline \in Lines /\ wpart \in 0..Written(wline)
    BY DEF TypeInv
  <1>2. /\ Length[wline] \in Nat /\ Length[wline] >= 1 /\ wpart \in Nat
        /\ Written(wline) = Length[wline] + 1
    BY <1>1, LineLength DEF Written
  <1>3. wline' \in Lines /\ wpart' \in 1..Written(wline')
    BY AppendProperty
  <1>4. Length[wline'] \in Nat /\ wpart' \in Nat /\ wpart' >= 1
    BY <1>3, LineLength
  <1>5. wpart \in 1..Length[wline] \/ wpart \in {0, Written(wline)}
    BY <1>1, <1>2
  <1>6. wpart \in 1..Length[wline] => wline' = wline /\ wpart' = wpart + 1
    BY <1>2 DEF WriterAppend
  <1>7. wpart \in {0, Written(wline)} => wpart' = 1
    BY <1>2 DEF WriterAppend
  <1>8. QED
    BY <1>2, <1>4, <1>5, <1>6, <1>7

\* The writer's file goes on ending as it should.
LEMMA AppendEnd ==
    ASSUME TypeInv, EndInv, WriterAppend
    PROVE  EndInv'
  <1>1. PICK l \in Nat : l = Len(content[wfile])
    BY AppendProperty
  <1>2. /\ wfile' = wfile /\ wfile \in 1..MaxFiles /\ Len(content'[wfile]) = l + 1
        /\ content'[wfile][l + 1] = Byte(wline', wpart')
    BY <1>1, AppendProperty
  <1>3. \A i \in 1..l : content'[wfile][i] = content[wfile][i]
    BY <1>1, <1>2, AppendProperty
  <1>4. /\ wpart \in Nat /\ wpart' \in Nat /\ wpart' >= 1
        /\ Length[wline] \in Nat /\ Length[wline'] \in Nat
        /\ wpart \in 1..Length[wline] \/ wpart \in {0, Written(wline)}
        /\ wpart \in 1..Length[wline] => wline' = wline /\ wpart' = wpart + 1
        /\ wpart \in {0, Written(wline)} => wpart' = 1
    BY AppendLine
  <1>5. ASSUME wpart' \in 1..Length[wline']
        PROVE  /\ wpart' <= l + 1
               /\ \A k \in 1..wpart' : content'[wfile][l + 1 - wpart' + k] = Byte(wline', k)
    <2>1. CASE wpart \in {0, Written(wline)}
      <3>1. wpart' = 1
        BY <1>4, <2>1
      <3>2. ASSUME NEW k \in 1..wpart' PROVE k = 1 /\ l + 1 - wpart' + k = l + 1
        BY <3>1
      <3>3. QED
        BY <1>2, <3>1, <3>2
    <2>2. CASE wpart \in 1..Length[wline]
      <3>1. wline' = wline /\ wpart' = wpart + 1
        BY <1>4, <2>2
      <3>2. /\ wpart <= l
            /\ \A k \in 1..wpart : content[wfile][l - wpart + k] = Byte(wline, k)
        BY <1>1, <2>2 DEF EndInv
      <3>3. wpart' <= l + 1
        BY <1>4, <3>1, <3>2
      <3>4. ASSUME NEW k \in 1..wpart'
            PROVE  content'[wfile][l + 1 - wpart' + k] = Byte(wline', k)
        <4>1. k \in 1..wpart \/ k = wpart + 1
          BY <1>4, <3>1
        <4>2. l + 1 - wpart' + k = l - wpart + k
          BY <1>4, <3>1
        <4>3. CASE k = wpart + 1
          <5>1. l + 1 - wpart' + k = l + 1 /\ k = wpart'
            BY <1>4, <3>1, <4>3
          <5>2. QED
            BY <1>2, <5>1
        <4>4. CASE k \in 1..wpart
          <5>1. l - wpart + k \in 1..l
            BY <1>4, <3>2, <4>4
          <5>2. content'[wfile][l - wpart + k] = Byte(wline, k)
            BY <1>3, <3>2, <4>4, <5>1
          <5>3. QED
            BY <3>1, <4>2, <5>2
        <4>5. QED
          BY <4>1, <4>3, <4>4
      <3>5. QED
        BY <3>3, <3>4
    <2>3. QED
      BY <1>4, <2>1, <2>2
  <1>6. ASSUME wpart' \in {0, Written(wline')}
        PROVE  content'[wfile][l + 1][2] = 0
    <2>1. wline' \in Lines
      BY AppendProperty
    <2>2. wpart' > Length[wline']
      BY <1>4, <1>6 DEF Written
    <2>3. Byte(wline', wpart')[2] = 0
      BY <1>4, <2>1, <2>2, ByteParts
    <2>4. QED
      BY <1>2, <2>3
  <1>7. content'[wfile'] = content'[wfile] /\ Len(content'[wfile']) = l + 1
    BY <1>2
  <1>8. ASSUME NEW f \in 1..MaxFiles, f # wfile', content'[f] # <<>>
        PROVE  content'[f][Len(content'[f])][2] = 0
    <2>1. content'[f] = content[f] /\ f # wfile
      BY <1>2, <1>8, AppendProperty
    <2>2. QED
      BY <1>8, <2>1 DEF EndInv
  <1>9. QED
    BY <1>5, <1>6, <1>7, <1>8 DEF EndInv

\* An unfinished line goes on where it ends: the byte the writer adds is the one
\* that a line begun at i has at that distance.
LEMMA AppendContinues ==
    ASSUME TypeInv, LayoutInv, EndInv, WriterAppend,
           NEW n \in Lines, NEW i \in 1..Len(content[wfile]), content[wfile][i] = <<n, 1>>,
           NEW k \in 1..Length[n], i + k = Len(content[wfile]) + 1
    PROVE  Byte(wline', wpart') = Byte(n, k + 1)
  <1>1. PICK l \in Nat : l = Len(content[wfile])
    BY AppendProperty
  <1>2. PICK s : s = content[wfile]
    OBVIOUS
  <1>3. /\ i \in Nat /\ i >= 1 /\ i <= l /\ k \in Nat /\ k >= 1 /\ k <= Length[n]
        /\ Length[n] \in Nat /\ i + k = l + 1 /\ s[i] = <<n, 1>> /\ Len(s) = l
    BY <1>1, <1>2, LineLength
  <1>4. wfile \in 1..MaxFiles
    BY AppendProperty
  <1>5. \A d \in 1..Length[n] : i + d <= l => s[i + d] = Byte(n, d + 1)
    BY <1>1, <1>2, <1>4 DEF LayoutInv
  <1>6. /\ wpart \in Nat /\ wpart' \in Nat /\ wpart' >= 1
        /\ Length[wline] \in Nat /\ Length[wline'] \in Nat
        /\ wpart \in 1..Length[wline] \/ wpart \in {0, Written(wline)}
        /\ wpart \in 1..Length[wline] => wline' = wline /\ wpart' = wpart + 1
    BY AppendLine
  <1>7. wline \in Lines
    BY DEF TypeInv
  <1>8. CASE wpart \in {0, Written(wline)}
    <2>1. s # <<>>
      BY <1>3
    <2>2. s[l][2] = 0
      BY <1>1, <1>2, <1>8, <2>1 DEF EndInv
    <2>3. CASE k = 1
      <3>1. s[l] = <<n, 1>>
        BY <1>3, <2>3
      <3>2. QED
        BY <2>2, <3>1
    <2>4. CASE k # 1
      <3>0. PICK z \in Nat : z = Length[n]
        BY <1>3
      <3>1. PICK d \in 1..z : d = k - 1
        BY <1>3, <2>4, <3>0
      <3>2. i + d = l /\ d + 1 = k /\ i + d <= l /\ d \in 1..Length[n]
        BY <1>3, <3>0, <3>1
      <3>3. s[l] = Byte(n, k)
        BY <1>5, <3>2
      <3>4. Byte(n, k)[2] = k
        BY <1>3, ByteParts
      <3>5. QED
        BY <1>3, <2>2, <3>3, <3>4
    <2>5. QED
      BY <2>3, <2>4
  <1>9. CASE wpart \in 1..Length[wline]
    <2>1. wpart <= l /\ \A d \in 1..wpart : s[l - wpart + d] = Byte(wline, d)
      BY <1>1, <1>2, <1>9 DEF EndInv
    <2>2. PICK p \in Nat : p = l - wpart + 1 /\ p >= 1 /\ p <= l
      BY <1>6, <1>9, <2>1
    <2>3. s[p] = <<wline, 1>>
      <3>1. 1 \in 1..wpart
        BY <1>6, <1>9
      <3>2. s[p] = Byte(wline, 1)
        BY <2>1, <2>2, <3>1
      <3>3. Byte(wline, 1) = <<wline, 1>>
        BY <1>7, ByteParts
      <3>4. QED
        BY <3>2, <3>3
    <2>4. CASE i = p
      <3>1. n = wline
        BY <1>3, <2>3, <2>4
      <3>2. k = wpart
        BY <1>3, <1>6, <2>1, <2>2, <2>4
      <3>3. QED
        BY <1>6, <1>9, <3>1, <3>2
    <2>5. CASE i < p
      <3>0. p - i \in Nat /\ p - i >= 1 /\ p - i <= Length[n]
        BY <1>3, <2>2, <2>5
      <3>1. PICK d \in Nat : d = p - i /\ d >= 1 /\ d <= Length[n] /\ i + d = p
        BY <1>3, <2>2, <3>0
      <3>2. s[p] = Byte(n, d + 1)
        <4>1. d \in 1..Length[n] /\ i + d <= l
          BY <1>3, <2>2, <3>1
        <4>2. s[i + d] = Byte(n, d + 1)
          BY <1>5, <4>1
        <4>3. QED
          BY <3>1, <4>2
      <3>3. /\ d + 1 <= Length[n] => Byte(n, d + 1)[2] = d + 1
            /\ d + 1 > Length[n] => Byte(n, d + 1)[2] = 0
        <4>1. d + 1 \in Nat /\ d + 1 >= 1
          BY <3>1
        <4>2. QED
          BY <4>1, ByteParts
      <3>4. Byte(n, d + 1)[2] # 1
        <4>1. PICK v : v = Byte(n, d + 1)[2]
          OBVIOUS
        <4>2. v = d + 1 \/ v = 0
          BY <1>3, <3>1, <3>3, <4>1
        <4>3. QED
          BY <3>1, <4>1, <4>2
      <3>5. s[p][2] = 1
        BY <2>3
      <3>6. QED
        BY <3>2, <3>4, <3>5
    <2>6. CASE i > p
      <3>1. PICK d \in Nat : d = i - l + wpart /\ d >= 2 /\ d <= wpart /\ l - wpart + d = i
        BY <1>3, <1>6, <2>1, <2>2, <2>6
      <3>2. s[i] = Byte(wline, d)
        <4>1. d \in 1..wpart
          BY <1>6, <3>1
        <4>2. s[l - wpart + d] = Byte(wline, d)
          BY <2>1, <4>1
        <4>3. QED
          BY <3>1, <4>2
      <3>3. Byte(wline, d)[2] = d
        <4>1. d >= 1 /\ d <= Length[wline]
          BY <1>6, <1>9, <3>1
        <4>2. QED
          BY <1>7, <3>1, <4>1, ByteParts
      <3>4. s[i][2] = 1
        BY <1>3
      <3>5. QED
        BY <3>1, <3>2, <3>3, <3>4
    <2>7. QED
      BY <1>3, <2>2, <2>4, <2>5, <2>6
  <1>10. QED
    BY <1>6, <1>8, <1>9

\* The lines in the files stay laid out one after the other.
LEMMA AppendLayout ==
    ASSUME TypeInv, LayoutInv, EndInv, WriterAppend
    PROVE  LayoutInv'
  <1>1. SUFFICES ASSUME NEW f \in 1..MaxFiles, NEW n \in Lines,
                        NEW i \in 1..Len(content'[f]), content'[f][i] = <<n, 1>>
                 PROVE  /\ i > 1 => content'[f][i - 1][2] = 0
                        /\ \A k \in 1..Length[n] :
                              i + k <= Len(content'[f]) => content'[f][i + k] = Byte(n, k + 1)
    BY DEF LayoutInv
  <1>2. CASE f # wfile
    <2>1. content'[f] = content[f]
      BY <1>2, AppendProperty
    <2>2. QED
      BY <1>1, <2>1 DEF LayoutInv
  <1>3. CASE f = wfile
    <2>1. PICK l \in Nat : l = Len(content[f])
      BY <1>3, AppendProperty
    <2>2. /\ Len(content'[f]) = l + 1 /\ content'[f][l + 1] = Byte(wline', wpart')
          /\ \A j \in 1..l : content'[f][j] = content[f][j]
      BY <1>3, <2>1, AppendProperty
    <2>3. Length[n] \in Nat /\ i \in Nat /\ i >= 1
      BY LineLength, <2>2
    <2>4. CASE i \in 1..l
      <3>1. content[f][i] = <<n, 1>> /\ i \in 1..Len(content[f])
        BY <1>1, <2>1, <2>2, <2>4
      <3>2. /\ i > 1 => content[f][i - 1][2] = 0
            /\ \A k \in 1..Length[n] : i + k <= l => content[f][i + k] = Byte(n, k + 1)
        BY <2>1, <3>1 DEF LayoutInv
      <3>3. i > 1 => i - 1 \in 1..l
        BY <2>4
      <3>4. i > 1 => content'[f][i - 1][2] = 0
        BY <2>2, <3>2, <3>3
      <3>5. ASSUME NEW k \in 1..Length[n], i + k <= Len(content'[f])
            PROVE  content'[f][i + k] = Byte(n, k + 1)
        <4>1. i + k \in 1..l \/ i + k = l + 1
          BY <2>2, <2>3, <3>5
        <4>2. CASE i + k \in 1..l
          <5>1. i + k <= l
            BY <4>2
          <5>2. content[f][i + k] = Byte(n, k + 1)
            BY <3>2, <5>1
          <5>3. QED
            BY <2>2, <4>2, <5>2
        <4>3. CASE i + k = l + 1
          <5>1. Byte(wline', wpart') = Byte(n, k + 1)
            BY <1>3, <2>1, <3>1, <4>3, AppendContinues
          <5>2. QED
            BY <2>2, <4>3, <5>1
        <4>4. QED
          BY <4>1, <4>2, <4>3
      <3>6. QED
        BY <3>4, <3>5
    <2>5. CASE i = l + 1
      <3>1. \A k \in 1..Length[n] : ~(i + k <= Len(content'[f]))
        BY <2>2, <2>3, <2>5
      <3>2. ASSUME i > 1 PROVE content'[f][i - 1][2] = 0
        <4>1. Byte(wline', wpart') = <<n, 1>>
          BY <1>1, <2>2, <2>5
        <4>2. wline' \in Lines
          BY AppendProperty
        <4>3. /\ wpart' \in Nat /\ wpart' >= 1 /\ Length[wline'] \in Nat
              /\ wpart \in Nat
              /\ wpart \in 1..Length[wline] \/ wpart \in {0, Written(wline)}
              /\ wpart \in 1..Length[wline] => wpart' = wpart + 1
              /\ Length[wline] \in Nat
          BY AppendLine
        <4>4. /\ wpart' <= Length[wline'] => Byte(wline', wpart')[2] = wpart'
              /\ wpart' > Length[wline'] => Byte(wline', wpart')[2] = 0
          BY <4>2, <4>3, ByteParts
        <4>5. Byte(wline', wpart')[2] = 1
          BY <4>1
        <4>6. wpart' = 1
          BY <4>3, <4>4, <4>5
        <4>7. wpart \in {0, Written(wline)}
          BY <4>3, <4>6
        <4>8. i - 1 = l /\ l \in 1..l /\ content[wfile] # <<>>
          BY <1>3, <2>1, <2>5, <3>2
        <4>9. content[f][l][2] = 0
          BY <1>3, <2>1, <4>7, <4>8 DEF EndInv
        <4>10. QED
          BY <2>2, <4>8, <4>9
      <3>3. QED
        BY <3>1, <3>2
    <2>6. i \in 1..l \/ i = l + 1
      BY <1>1, <2>1, <2>2
    <2>7. QED
      BY <2>4, <2>5, <2>6
  <1>4. QED
    BY <1>2, <1>3

\* Until the first truncation, every step keeps the layout of the files.
LEMMA LayoutKept ==
    ASSUME TypeInv, WriterInv, LayoutInv, EndInv, [Next]_vars, truncations' = 0
    PROVE  LayoutInv' /\ EndInv'
  <1>1. CASE WriterAppend
    BY <1>1, AppendLayout, AppendEnd
  <1>2. CASE WriterReopen
    <2>1. /\ path # 0 /\ wfile # path /\ wfile' = path /\ wpart \in {0, Written(wline)}
          /\ UNCHANGED <<content, wline, wpart>>
      BY <1>2 DEF WriterReopen, fileVars
    <2>2. wfile' \in 1..MaxFiles
      BY <2>1, FileHarvesterAssumption DEF TypeInv
    <2>3. \A f \in 1..MaxFiles :
             content'[f] # <<>> => content'[f][Len(content'[f])][2] = 0
      BY <2>1 DEF EndInv
    <2>4. wpart' \notin 1..Length[wline']
      <3>1. wline \in Lines
        BY DEF TypeInv
      <3>2. Length[wline] \in Nat /\ Written(wline) = Length[wline] + 1
        BY <3>1, LineLength DEF Written
      <3>3. QED
        BY <2>1, <3>2
    <2>5. EndInv'
      BY <2>2, <2>3, <2>4 DEF EndInv
    <2>6. LayoutInv'
      BY <2>1 DEF LayoutInv
    <2>7. QED
      BY <2>5, <2>6
  <1>3. CASE Truncate
    BY <1>3 DEF Truncate, TypeInv
  <1>4. CASE UNCHANGED <<content, wfile, wline, wpart>>
    BY <1>4 DEF LayoutInv, EndInv
  <1>5. ASSUME Unlink \/ Create \/ Restore \/ RequestStop \/ Consume \/ Proceed \/ UNCHANGED vars
        PROVE  UNCHANGED <<content, wfile, wline, wpart>>
    BY <1>5 DEF Unlink, Create, Restore, RequestStop, Consume, Proceed, OpenIdentity, OpenStream,
       OpenRecheck, OpenSize, Read, DrainRead, CheckIdentity, CheckSize, DrainStopped,
       Close, Shutdown, vars, fileVars, writerVars
  <1>6. QED
    BY <1>1, <1>2, <1>3, <1>4, <1>5 DEF Next, Harvest

\* What has been consumed ends where reading began or within the file.
LEMMA ConsumedBound ==
    ASSUME TypeInv, OpenInv, FileOpen
    PROVE  /\ Consumed \in Nat /\ start \in Nat /\ Len(content[stream]) \in Nat
           /\ AssemblyInv => Consumed <= start \/ Consumed <= Len(content[stream])
  <1>1. /\ Len(buffer) \in Nat /\ Len(buffer) <= offset /\ offset \in Nat
        /\ start \in Nat /\ Len(content[stream]) \in Nat
    BY ChunkProperties, SMTT(30) DEF TypeInv
  <1>2. Consumed \in Nat
    BY <1>1 DEF Consumed
  <1>3. ASSUME NEW b \in 0..Consumed, Assembled(b)
        PROVE  Consumed <= start \/ Consumed <= Len(content[stream])
    <2>1. CASE b = Consumed
      BY <1>3, <2>1 DEF Assembled
    <2>2. CASE b # Consumed
      <3>1. Consumed \in (b + 1)..Consumed
        BY <1>2, <2>2
      <3>2. QED
        BY <1>3, <3>1 DEF Assembled
    <2>3. QED
      BY <2>1, <2>2
  <1>4. QED
    BY <1>1, <1>2, <1>3 DEF AssemblyInv

\* A file that grows keeps what is known of the part that was read.
LEMMA LinesAppend ==
    ASSUME TypeInv, OpenInv, FileOpen, LinesInv, truncations = 0, WriterAppend
    PROVE  LinesInv'
  <1>1. /\ UNCHANGED <<stream, start, offset, buffer, pending_line, dropping, ingested>>
        /\ UNCHANGED truncations
    BY DEF WriterAppend, openVars, readVars, lineVars
  <1>2. BufferInv /\ AssemblyInv /\ ReadLinesIngested
    BY DEF LinesInv
  <1>3. PICK c \in Nat : c = Consumed
    BY ConsumedBound
  <1>4. Consumed' = c
    BY <1>1, <1>3 DEF Consumed
  <1>5. PICK s : s = content[stream]
    OBVIOUS
  <1>6. PICK t : t = content'[stream]
    OBVIOUS
  <1>7. stream \in 1..MaxFiles
    BY FileHarvesterAssumption DEF OpenInv, TypeInv
  <1>8. /\ Len(s) \in Nat /\ Len(t) \in Nat /\ Len(s) <= Len(t) /\ start \in Nat
        /\ \A i \in 1..Len(s) : t[i] = s[i]
    BY <1>5, <1>6, <1>7, AppendProperty DEF TypeInv
  <1>9. c <= start \/ c <= Len(s)
    BY <1>2, <1>3, <1>5, ConsumedBound
  <1>10. BufferInv'
    <2>1. SUFFICES ASSUME NEW j \in 1..Len(buffer)
                   PROVE  c + j <= Len(t) /\ buffer[j] = t[c + j]
      BY <1>1, <1>4, <1>6 DEF BufferInv
    <2>2. c + j <= Len(s) /\ buffer[j] = s[c + j]
      BY <1>2, <1>3, <1>5 DEF BufferInv
    <2>3. j \in Nat /\ j >= 1
      BY DEF TypeInv
    <2>4. c + j \in 1..Len(s) /\ c + j <= Len(t)
      BY <1>3, <1>8, <2>2, <2>3
    <2>5. QED
      BY <1>8, <2>2, <2>4
  <1>11. AssemblyInv'
    <2>1. PICK b \in 0..Consumed : Assembled(b)
      BY <1>2 DEF AssemblyInv
    <2>2. b \in Nat /\ b <= c /\ b \in 0..Consumed'
      BY <1>3, <1>4, <2>1
    <2>3. /\ b <= start \/ (b <= Len(s) /\ s[b][2] = 0)
          /\ \A i \in (b + 1)..c : i <= Len(s) /\ s[i][2] # 0
          /\ \/ /\ ~dropping /\ Len(pending_line) = c - b
                /\ \A k \in 1..Len(pending_line) : pending_line[k] = s[b + k]
             \/ dropping /\ c - b > MaxLineBytes
      BY <1>3, <1>5, <2>1 DEF Assembled
    <2>4. b <= start \/ (b <= Len(t) /\ t[b][2] = 0)
      <3>1. CASE b <= start
        BY <3>1
      <3>2. CASE b > start /\ b <= Len(s) /\ s[b][2] = 0
        <4>1. b \in 1..Len(s) /\ b <= Len(t)
          BY <1>8, <2>2, <3>2
        <4>2. QED
          BY <1>8, <3>2, <4>1
      <3>3. QED
        BY <1>8, <2>2, <2>3, <3>1, <3>2
    <2>5. ASSUME NEW i \in (b + 1)..c
          PROVE  i \in 1..Len(s) /\ i <= Len(t) /\ t[i][2] # 0
      <3>1. i <= Len(s) /\ s[i][2] # 0
        BY <2>3
      <3>2. i \in 1..Len(s) /\ i <= Len(t)
        BY <1>3, <1>8, <2>2, <3>1
      <3>3. QED
        BY <1>8, <3>1, <3>2
    <2>6. \/ /\ ~dropping /\ Len(pending_line) = c - b
             /\ \A k \in 1..Len(pending_line) : pending_line[k] = t[b + k]
          \/ dropping /\ c - b > MaxLineBytes
      <3>1. CASE dropping /\ c - b > MaxLineBytes
        BY <3>1
      <3>2. CASE /\ ~dropping /\ Len(pending_line) = c - b
                 /\ \A k \in 1..Len(pending_line) : pending_line[k] = s[b + k]
        <4>1. ASSUME NEW k \in 1..Len(pending_line)
              PROVE  pending_line[k] = t[b + k]
          <5>1. b + k \in (b + 1)..c
            BY <1>3, <2>2, <3>2
          <5>2. QED
            BY <1>8, <2>5, <3>2, <5>1
        <4>2. QED
          BY <3>2, <4>1
      <3>3. QED
        BY <2>3, <3>1, <3>2
    <2>7. Assembled(b)'
      BY <1>1, <1>4, <1>6, <2>4, <2>5, <2>6 DEF Assembled
    <2>8. QED
      BY <2>2, <2>7 DEF AssemblyInv
  <1>12. ReadLinesIngested'
    <2>1. ASSUME NEW n \in Lines, ReadWhole(n)' PROVE ReadWhole(n)
      <3>1. PICK i \in (start + 1)..Len(t) : t[i] = <<n, 1>> /\ i + Length[n] <= c
        BY <1>1, <1>4, <1>6, <2>1 DEF ReadWhole
      <3>2. Length[n] \in Nat
        BY LineLength
      <3>3. i \in Nat /\ i > start /\ i <= c
        BY <1>3, <1>8, <3>1, <3>2
      <3>4. c <= Len(s)
        BY <1>3, <1>8, <1>9, <3>3
      <3>5. i \in (start + 1)..Len(s) /\ i \in 1..Len(s) /\ i + Length[n] <= Len(s)
        BY <1>3, <1>8, <3>1, <3>2, <3>3, <3>4
      <3>6. s[i] = <<n, 1>>
        BY <1>8, <3>1, <3>5
      <3>7. QED
        BY <1>3, <1>5, <3>1, <3>5, <3>6 DEF ReadWhole
    <2>2. QED
      BY <1>1, <1>2, <2>1 DEF ReadLinesIngested
  <1>13. QED
    BY <1>10, <1>11, <1>12 DEF LinesInv

\* So does a step that changes neither the file nor what was read of it.
LEMMA LinesUnchanged ==
    ASSUME LinesInv, truncations = 0, FileOpen' => FileOpen,
           UNCHANGED <<content, stream, start, offset, buffer, pending_line, dropping,
                       ingested, truncations>>
    PROVE  LinesInv'
  <1>1. Consumed' = Consumed
    BY DEF Consumed
  <1>2. SUFFICES ASSUME FileOpen', BufferInv, AssemblyInv, ReadLinesIngested
                 PROVE  BufferInv' /\ AssemblyInv' /\ ReadLinesIngested'
    BY DEF LinesInv
  <1>3. BufferInv'
    BY <1>1, <1>2 DEF BufferInv
  <1>4. \A b : Assembled(b)' <=> Assembled(b)
    BY <1>1 DEF Assembled
  <1>5. AssemblyInv'
    BY <1>1, <1>2, <1>4 DEF AssemblyInv
  <1>6. \A n \in Lines : ReadWhole(n)' <=> ReadWhole(n)
    BY <1>1 DEF ReadWhole
  <1>7. ReadLinesIngested'
    BY <1>2, <1>6 DEF ReadLinesIngested
  <1>8. QED
    BY <1>3, <1>5, <1>7

\* A file from which nothing has been consumed since it was opened, or since the
\* offset went back to 0, satisfies it.
LEMMA LinesFresh ==
    ASSUME offset' \in Nat, start' \in Nat, offset' <= start',
           buffer' = <<>>, pending_line' = <<>>, dropping' = FALSE
    PROVE  LinesInv'
  <1>0. PICK o \in Nat : o = offset'
    OBVIOUS
  <1>1. Consumed' = o
    <2>1. Len(buffer') = 0
      OBVIOUS
    <2>2. Consumed' = o - 0
      BY <1>0, <2>1 DEF Consumed
    <2>3. o \in Nat
      BY <1>0
    <2>4. QED
      BY <2>2, <2>3
  <1>2. PICK z \in Nat : z = start' /\ o <= z
    BY <1>0
  <1>3. BufferInv'
    <2>1. \A j : j \notin 1..Len(<<>>)
      OBVIOUS
    <2>2. QED
      BY <2>1 DEF BufferInv
  <1>4. Assembled(o)'
    <2>1. \A i : i \notin (o + 1)..o
      BY <1>0
    <2>2. Len(pending_line') = 0 /\ o - o = 0
      <3>1. o \in Nat
        BY <1>0
      <3>2. o - o = 0
        BY <3>1
      <3>3. QED
        BY <3>2
    <2>3. \A k : k \notin 1..0
      OBVIOUS
    <2>4. o <= start'
      BY <1>2
    <2>5. QED
      BY <1>1, <2>1, <2>2, <2>3, <2>4 DEF Assembled
  <1>5. o \in 0..Consumed'
    BY <1>0, <1>1
  <1>6. AssemblyInv'
    BY <1>4, <1>5 DEF AssemblyInv
  <1>7. ASSUME NEW n \in Lines PROVE ~ReadWhole(n)'
    <2>1. Length[n] \in Nat
      BY LineLength
    <2>2. \A i \in (z + 1)..Len(content'[stream']) : ~(i + Length[n] <= o)
      <3>1. o \in Nat /\ z \in Nat /\ o <= z
        BY <1>0, <1>2
      <3>2. QED
        BY <2>1, <3>1
    <2>3. QED
      BY <1>1, <1>2, <2>2 DEF ReadWhole
  <1>8. ReadLinesIngested'
    BY <1>7 DEF ReadLinesIngested
  <1>9. QED
    BY <1>3, <1>6, <1>8 DEF LinesInv

\* A read consumes nothing, and the buffer it fills is a part of the file.
LEMMA LinesRead ==
    ASSUME TypeInv, OpenInv, LinesInv, truncations = 0, ReadStep
    PROVE  LinesInv'
  <1>1. /\ FileOpen /\ buffer = <<>> /\ buffer' = Chunk /\ offset' = offset + Len(Chunk)
        /\ UNCHANGED <<content, stream, start, pending_line, dropping, ingested, truncations>>
    BY DEF ReadStep, fileVars, openVars, lineVars
  <1>2. /\ offset \in Nat /\ Len(Chunk) \in Nat
        /\ \A j \in 1..Len(Chunk) : /\ offset + j <= Len(content[stream])
                                    /\ Chunk[j] = content[stream][offset + j]
    BY <1>1, ChunkProperties DEF TypeInv
  <1>3. Consumed = offset
    BY <1>1, <1>2 DEF Consumed
  <1>4. Consumed' = offset
    BY <1>1, <1>2 DEF Consumed
  <1>5. BufferInv /\ AssemblyInv /\ ReadLinesIngested
    BY <1>1 DEF LinesInv
  <1>6. BufferInv'
    BY <1>1, <1>2, <1>4 DEF BufferInv
  <1>7. \A b : Assembled(b)' <=> Assembled(b)
    BY <1>1, <1>3, <1>4 DEF Assembled
  <1>8. AssemblyInv'
    BY <1>3, <1>4, <1>5, <1>7 DEF AssemblyInv
  <1>9. \A n \in Lines : ReadWhole(n)' <=> ReadWhole(n)
    BY <1>1, <1>3, <1>4 DEF ReadWhole
  <1>10. ReadLinesIngested'
    BY <1>1, <1>5, <1>9 DEF ReadLinesIngested
  <1>11. QED
    BY <1>6, <1>8, <1>10 DEF LinesInv

\* The byte consumed is the next one of the file.
LEMMA ConsumePosition ==
    ASSUME TypeInv, OpenInv, LinesInv, Consume
    PROVE  /\ FileOpen /\ FileOpen' /\ Consumed \in Nat /\ Consumed' = Consumed + 1
           /\ UNCHANGED <<content, stream, start, truncations>>
           /\ Consumed + 1 \in 1..Len(content[stream])
           /\ Len(content[stream]) \in Nat
           /\ Head(buffer) = content[stream][Consumed + 1]
  <1>1. FileOpen
    BY DEF OpenInv, Consume
  <1>2. FileOpen' /\ UNCHANGED <<content, stream, start, truncations, offset>>
    BY <1>1 DEF Consume, FileOpen, fileVars, openVars
  <1>3. /\ Len(buffer') = Len(buffer) - 1 /\ Head(buffer) = buffer[1] /\ 1 \in 1..Len(buffer)
        /\ Len(buffer) \in Nat /\ offset \in Nat
    BY ConsumeTypes DEF TypeInv
  <1>4. Consumed \in Nat /\ Len(content[stream]) \in Nat
    BY <1>1, ConsumedBound
  <1>5. Consumed' = Consumed + 1
    BY <1>2, <1>3 DEF Consumed
  <1>6. /\ Consumed + 1 <= Len(content[stream])
        /\ buffer[1] = content[stream][Consumed + 1]
    BY <1>1, <1>3 DEF LinesInv, BufferInv
  <1>7. Consumed + 1 \in 1..Len(content[stream])
    BY <1>4, <1>6
  <1>8. QED
    BY <1>1, <1>2, <1>3, <1>4, <1>5, <1>6, <1>7

\* The buffer stays a part of the file while it is consumed.
LEMMA ConsumeBuffer ==
    ASSUME TypeInv, OpenInv, LinesInv, Consume
    PROVE  BufferInv'
  <1>1. /\ FileOpen /\ Consumed \in Nat /\ Consumed' = Consumed + 1
        /\ UNCHANGED <<content, stream>>
    BY ConsumePosition
  <1>2. SUFFICES ASSUME NEW j \in 1..Len(buffer')
                 PROVE  /\ Consumed + 1 + j <= Len(content[stream])
                        /\ buffer'[j] = content[stream][Consumed + 1 + j]
    BY <1>1 DEF BufferInv
  <1>3. /\ Len(buffer') = Len(buffer) - 1 /\ Len(buffer') \in Nat /\ Len(buffer) \in Nat
        /\ buffer'[j] = buffer[j + 1]
    BY ConsumeTypes DEF TypeInv
  <1>4. j + 1 \in 1..Len(buffer) /\ j \in Nat
    BY <1>3
  <1>5. /\ Consumed + (j + 1) <= Len(content[stream])
        /\ buffer[j + 1] = content[stream][Consumed + (j + 1)]
    BY <1>1, <1>4 DEF LinesInv, BufferInv
  <1>6. Consumed + (j + 1) = Consumed + 1 + j
    BY <1>1, <1>4
  <1>7. QED
    BY <1>3, <1>5, <1>6

\* The line being assembled is what follows its beginning in the file.
LEMMA ConsumeAssembly ==
    ASSUME TypeInv, OpenInv, LinesInv, Consume
    PROVE  AssemblyInv'
  <1>1. PICK c \in Nat : c = Consumed
    BY ConsumePosition
  <1>2. PICK s : s = content[stream]
    OBVIOUS
  <1>3. /\ FileOpen /\ Consumed' = c + 1 /\ UNCHANGED <<content, stream, start>>
        /\ c + 1 <= Len(s) /\ Len(s) \in Nat /\ Head(buffer) = s[c + 1]
    BY <1>1, <1>2, ConsumePosition
  <1>4. content'[stream'] = s /\ start' = start
    BY <1>2, <1>3
  <1>5. PICK b \in 0..Consumed : Assembled(b)
    BY <1>3 DEF LinesInv, AssemblyInv
  <1>6. b \in Nat /\ b <= c /\ b \in 0..Consumed' /\ c + 1 \in 0..Consumed'
    BY <1>1, <1>3, <1>5
  <1>7. /\ b <= start \/ (b <= Len(s) /\ s[b][2] = 0)
        /\ \A i \in (b + 1)..c : i <= Len(s) /\ s[i][2] # 0
        /\ \/ /\ ~dropping /\ Len(pending_line) = c - b
              /\ \A k \in 1..Len(pending_line) : pending_line[k] = s[b + k]
           \/ dropping /\ c - b > MaxLineBytes
    BY <1>1, <1>2, <1>5 DEF Assembled
  <1>8. CASE s[c + 1][2] = 0 /\ pending_line' = <<>> /\ dropping' = FALSE
    <2>1. \A i : i \notin (c + 1 + 1)..(c + 1)
      BY <1>1
    <2>2. Len(pending_line') = 0 /\ c + 1 - (c + 1) = 0
      BY <1>1, <1>8
    <2>3. \A k : k \notin 1..0
      OBVIOUS
    <2>4. Assembled(c + 1)'
      BY <1>3, <1>4, <1>8, <2>1, <2>2, <2>3 DEF Assembled
    <2>5. QED
      BY <1>6, <2>4 DEF AssemblyInv
  <1>9. CASE s[c + 1][2] # 0
    <2>1. \A i \in (b + 1)..(c + 1) : i <= Len(s) /\ s[i][2] # 0
      <3>1. ASSUME NEW i \in (b + 1)..(c + 1) PROVE i \in (b + 1)..c \/ i = c + 1
        BY <1>1, <1>6
      <3>2. QED
        BY <1>3, <1>7, <1>9, <3>1
    <2>2. ASSUME \/ /\ dropping' = FALSE /\ Len(pending_line') = c + 1 - b
                    /\ \A k \in 1..Len(pending_line') : pending_line'[k] = s[b + k]
                 \/ dropping' = TRUE /\ c + 1 - b > MaxLineBytes
          PROVE  AssemblyInv'
      <3>1. /\ b <= start' \/ (b <= Len(content'[stream']) /\ content'[stream'][b][2] = 0)
            /\ \A i \in (b + 1)..Consumed' :
                  i <= Len(content'[stream']) /\ content'[stream'][i][2] # 0
        BY <1>3, <1>4, <1>7, <2>1
      <3>2. \/ /\ ~dropping' /\ Len(pending_line') = Consumed' - b
               /\ \A k \in 1..Len(pending_line') :
                     pending_line'[k] = content'[stream'][b + k]
            \/ dropping' /\ Consumed' - b > MaxLineBytes
        BY <1>3, <1>4, <2>2
      <3>3. Assembled(b)'
        BY <3>1, <3>2 DEF Assembled
      <3>4. QED
        BY <1>6, <3>3 DEF AssemblyInv
    <2>3. MaxLineBytes \in Nat /\ dropping \in BOOLEAN /\ Len(pending_line) \in Nat
      BY FileHarvesterAssumption DEF TypeInv
    <2>4. CASE dropping /\ UNCHANGED lineVars
      <3>1. c - b > MaxLineBytes
        BY <1>7, <2>4
      <3>2. c + 1 - b > MaxLineBytes
        BY <1>1, <1>6, <2>3, <3>1
      <3>3. dropping' = TRUE
        BY <2>3, <2>4 DEF lineVars
      <3>4. QED
        BY <2>2, <3>2, <3>3
    <2>5. CASE ConsumeOverlong
      <3>1. ~dropping /\ dropping' = TRUE /\ Len(pending_line) >= MaxLineBytes
        BY <2>5 DEF ConsumeOverlong
      <3>2. Len(pending_line) = c - b
        BY <1>7, <3>1
      <3>3. c + 1 - b > MaxLineBytes
        BY <1>1, <1>6, <2>3, <3>1, <3>2
      <3>4. QED
        BY <2>2, <3>1, <3>3
    <2>6. CASE ConsumeKept
      <3>1. ~dropping /\ dropping' = FALSE /\ pending_line' = Append(pending_line, s[c + 1])
        BY <1>3, <2>6 DEF ConsumeKept
      <3>2. /\ Len(pending_line) = c - b
            /\ \A k \in 1..Len(pending_line) : pending_line[k] = s[b + k]
        BY <1>7, <3>1
      <3>3. pending_line \in Seq(Bytes) /\ s[c + 1] \in Bytes
        BY <1>3, ConsumeTypes DEF TypeInv
      <3>4. /\ Len(pending_line') = Len(pending_line) + 1
            /\ \A k \in 1..Len(pending_line) : pending_line'[k] = pending_line[k]
            /\ pending_line'[Len(pending_line) + 1] = s[c + 1]
        BY <3>1, <3>3, AppendProperties
      <3>5. Len(pending_line') = c + 1 - b
        BY <1>1, <1>6, <3>2, <3>4
      <3>6. ASSUME NEW k \in 1..Len(pending_line') PROVE pending_line'[k] = s[b + k]
        <4>1. k \in 1..Len(pending_line) \/ k = Len(pending_line) + 1
          BY <2>3, <3>4
        <4>2. CASE k \in 1..Len(pending_line)
          BY <3>2, <3>4, <4>2
        <4>3. CASE k = Len(pending_line) + 1
          <5>1. b + k = c + 1
            BY <1>1, <1>6, <3>2, <4>3
          <5>2. QED
            BY <3>4, <4>3, <5>1
        <4>4. QED
          BY <4>1, <4>2, <4>3
      <3>7. QED
        BY <2>2, <3>1, <3>5, <3>6
    <2>7. QED
      BY <1>3, <1>9, <2>4, <2>5, <2>6, ConsumeCases
  <1>10. QED
    BY <1>3, <1>8, <1>9, ConsumeCases DEF ConsumeSkipped, ConsumeFinished

\* What was ingested stays ingested.
LEMMA ConsumeGrows ==
    ASSUME TypeInv, Consume, NEW i \in 1..Len(ingested)
    PROVE  i \in 1..Len(ingested') /\ ingested'[i] = ingested[i]
  <1>1. ingested \in Seq(Lines) /\ Len(ingested) \in Nat
    BY DEF TypeInv
  <1>2. CASE ingested' = ingested
    BY <1>2
  <1>3. ASSUME NEW n \in Lines, ingested' = Append(ingested, n)
        PROVE  i \in 1..Len(ingested') /\ ingested'[i] = ingested[i]
    <2>1. Len(ingested') = Len(ingested) + 1 /\ ingested'[i] = ingested[i]
      BY <1>1, <1>3, AppendProperties
    <2>2. QED
      BY <1>1, <2>1
  <1>4. ingested' = ingested \/ \E n \in Lines : ingested' = Append(ingested, n)
    <2>1. CASE ConsumeFinished
      <3>1. ingested' = ingested \/ ingested' = Process(pending_line, ingested)
        BY <2>1 DEF ConsumeFinished
      <3>2. QED
        BY <3>1, ProcessResult
    <2>2. CASE ~ConsumeFinished
      BY <2>2, ConsumeCases DEF ConsumeSkipped, ConsumeOverlong, ConsumeKept, lineVars
    <2>3. QED
      BY <2>1, <2>2
  <1>5. QED
    BY <1>2, <1>3, <1>4

\* When the newline of a line of acceptable length is consumed, the text assembled
\* is that line, and it is ingested.
LEMMA ConsumeNewline ==
    ASSUME TypeInv, OpenInv, LayoutInv, LinesInv, Consume,
           NEW n \in Lines, Length[n] <= MaxLineBytes,
           NEW i \in (start + 1)..Len(content[stream]), content[stream][i] = <<n, 1>>,
           i + Length[n] = Consumed + 1
    PROVE  \E j \in 1..Len(ingested') : ingested'[j] = n
  <1>1. PICK c \in Nat : c = Consumed
    BY ConsumePosition
  <1>2. PICK s : s = content[stream]
    OBVIOUS
  <1>3. PICK z \in Nat : z = Length[n] /\ z >= 1
    BY LineLength
  <1>4. /\ FileOpen /\ c + 1 <= Len(s) /\ Len(s) \in Nat /\ Head(buffer) = s[c + 1]
    BY <1>1, <1>2, ConsumePosition
  <1>5. start \in Nat /\ MaxLineBytes \in Nat /\ stream \in 1..MaxFiles
    BY <1>4, FileHarvesterAssumption, SMTT(30) DEF TypeInv, OpenInv
  <1>6. /\ i \in Nat /\ i > start /\ i >= 1 /\ i <= Len(s) /\ s[i] = <<n, 1>>
        /\ i + z = c + 1 /\ z <= MaxLineBytes
    BY <1>1, <1>2, <1>3, <1>4, <1>5
  <1>7. /\ i > 1 => s[i - 1][2] = 0
        /\ \A k \in 1..z : i + k <= Len(s) => s[i + k] = Byte(n, k + 1)
    <2>1. i \in 1..Len(content[stream])
      BY <1>2, <1>6
    <2>2. QED
      BY <1>2, <1>3, <1>5, <2>1 DEF LayoutInv
  <1>8. ASSUME NEW k \in 1..z PROVE s[i + k - 1] = <<n, k>>
    <2>1. k \in Nat /\ k >= 1 /\ k <= z
      BY <1>3
    <2>2. CASE k = 1
      <3>1. i + k - 1 = i
        BY <1>6, <2>2
      <3>2. QED
        BY <1>6, <2>2, <3>1
    <2>3. CASE k # 1
      <3>1. k - 1 \in 1..z /\ i + (k - 1) <= Len(s) /\ (k - 1) + 1 = k /\ i + (k - 1) = i + k - 1
        BY <1>1, <1>3, <1>4, <1>6, <2>1, <2>3
      <3>2. PICK d \in 1..z : i + d <= Len(s) /\ d + 1 = k /\ i + d = i + k - 1
        BY <3>1
      <3>3. s[i + k - 1] = Byte(n, k)
        BY <1>7, <3>2
      <3>4. Byte(n, k) = <<n, k>>
        BY <1>3, <2>1 DEF Byte
      <3>5. QED
        BY <3>3, <3>4
    <2>4. QED
      BY <2>2, <2>3
  <1>9. s[c + 1][2] = 0
    <2>1. z \in 1..z /\ i + z <= Len(s)
      BY <1>3, <1>4, <1>6
    <2>2. s[c + 1] = Byte(n, z + 1)
      BY <1>6, <1>7, <2>1
    <2>3. Byte(n, z + 1)[2] = 0
      <3>1. z + 1 \in Nat /\ z + 1 >= 1 /\ z + 1 > Length[n]
        BY <1>3
      <3>2. QED
        BY <3>1, ByteParts
    <2>4. QED
      BY <2>2, <2>3
  <1>10. PICK b \in 0..Consumed : Assembled(b)
    BY <1>4 DEF LinesInv, AssemblyInv
  <1>11. b \in Nat /\ b <= c
    BY <1>1, <1>10
  <1>12. /\ b <= start \/ (b <= Len(s) /\ s[b][2] = 0)
         /\ \A j \in (b + 1)..c : j <= Len(s) /\ s[j][2] # 0
         /\ \/ /\ ~dropping /\ Len(pending_line) = c - b
               /\ \A k \in 1..Len(pending_line) : pending_line[k] = s[b + k]
            \/ dropping /\ c - b > MaxLineBytes
    BY <1>1, <1>2, <1>10 DEF Assembled
  <1>13. b + 1 = i
    <2>1. CASE b + 1 < i
      <3>1. i - 1 \in (b + 1)..c /\ i > 1
        BY <1>1, <1>3, <1>6, <1>11, <2>1
      <3>2. QED
        BY <1>7, <1>12, <3>1
    <2>2. CASE b >= i
      <3>1. ~(b <= start)
        BY <1>5, <1>6, <1>11, <2>2
      <3>2. s[b][2] = 0
        BY <1>12, <3>1
      <3>3. b - i + 1 \in 1..z /\ i + (b - i + 1) - 1 = b
        BY <1>1, <1>3, <1>6, <1>11, <2>2
      <3>4. PICK k \in 1..z : i + k - 1 = b
        BY <3>3
      <3>5. s[b] = <<n, k>>
        BY <1>8, <3>4
      <3>6. k # 0
        BY <1>3, <3>4
      <3>7. QED
        BY <3>2, <3>5, <3>6
    <2>3. QED
      BY <1>6, <1>11, <2>1, <2>2
  <1>14. c - b = z
    BY <1>1, <1>3, <1>6, <1>11, <1>13
  <1>15. /\ ~dropping /\ Len(pending_line) = z
         /\ \A k \in 1..z : pending_line[k] = <<n, k>>
    <2>1. ~(c - b > MaxLineBytes)
      BY <1>3, <1>5, <1>6, <1>14
    <2>2. /\ ~dropping /\ Len(pending_line) = z
          /\ \A k \in 1..z : pending_line[k] = s[b + k]
      BY <1>12, <1>14, <2>1
    <2>3. ASSUME NEW k \in 1..z PROVE b + k = i + k - 1
      <3>1. k \in Nat
        BY <1>3
      <3>2. QED
        BY <1>6, <1>11, <1>13, <3>1
    <2>4. QED
      BY <1>8, <2>2, <2>3
  <1>16. pending_line = [k \in 1..Length[n] |-> <<n, k>>]
    <2>1. pending_line \in Seq(Bytes)
      BY DEF TypeInv
    <2>2. pending_line = [k \in 1..Len(pending_line) |-> pending_line[k]]
      BY <2>1
    <2>3. QED
      BY <1>3, <1>15, <2>2
  <1>17. pending_line # <<>> /\ pending_line[1][1] = n
    BY <1>16, ParsesFirst
  <1>18. Process(pending_line, ingested) = Append(ingested, n)
    BY <1>16, <1>17 DEF Process, Parses
  <1>19. ingested' = Append(ingested, n)
    BY <1>4, <1>9, <1>15, <1>17, <1>18, ConsumeCases DEF ConsumeSkipped, ConsumeFinished
  <1>20. ingested \in Seq(Lines) /\ Len(ingested) \in Nat
    BY DEF TypeInv
  <1>21. Len(ingested') = Len(ingested) + 1 /\ ingested'[Len(ingested) + 1] = n
    BY <1>19, <1>20, AppendProperties
  <1>22. Len(ingested) + 1 \in 1..Len(ingested')
    BY <1>20, <1>21
  <1>23. QED
    BY <1>21, <1>22

\* Consuming keeps what is known of the lines.
LEMMA LinesConsume ==
    ASSUME TypeInv, OpenInv, LayoutInv, LinesInv, truncations = 0, Consume
    PROVE  LinesInv'
  <1>1. /\ FileOpen /\ FileOpen' /\ Consumed \in Nat /\ Consumed' = Consumed + 1
        /\ UNCHANGED <<content, stream, start, truncations>>
    BY ConsumePosition
  <1>2. ReadLinesIngested
    BY <1>1 DEF LinesInv
  <1>3. ASSUME NEW n \in Lines, Length[n] <= MaxLineBytes, ReadWhole(n)'
        PROVE  \E j \in 1..Len(ingested') : ingested'[j] = n
    <2>1. PICK i \in (start + 1)..Len(content[stream]) :
             /\ content[stream][i] = <<n, 1>>
             /\ i + Length[n] <= Consumed + 1
             /\ i + Length[n] <= Len(content[stream])
      BY <1>1, <1>3 DEF ReadWhole
    <2>2. Length[n] \in Nat /\ i \in Nat
      <3>1. start \in Nat /\ Len(content[stream]) \in Nat
        BY <1>1, ConsumedBound
      <3>2. QED
        BY <2>1, <3>1, LineLength
    <2>3. i + Length[n] <= Consumed \/ i + Length[n] = Consumed + 1
      BY <1>1, <2>1, <2>2
    <2>4. CASE i + Length[n] <= Consumed
      <3>1. ReadWhole(n)
        BY <2>1, <2>4 DEF ReadWhole
      <3>2. PICK j \in 1..Len(ingested) : ingested[j] = n
        BY <1>1, <1>2, <1>3, <3>1 DEF ReadLinesIngested
      <3>3. j \in 1..Len(ingested') /\ ingested'[j] = ingested[j]
        BY ConsumeGrows
      <3>4. QED
        BY <3>2, <3>3
    <2>5. CASE i + Length[n] = Consumed + 1
      BY <1>3, <2>1, <2>5, ConsumeNewline
    <2>6. QED
      BY <2>3, <2>4, <2>5
  <1>4. ReadLinesIngested'
    BY <1>3 DEF ReadLinesIngested
  <1>5. QED
    BY <1>4, ConsumeBuffer, ConsumeAssembly DEF LinesInv

\* Opening, checking, closing and shutting down keep what is known of the lines.
LEMMA LinesProceed ==
    ASSUME TypeInv, OpenInv, LinesInv, truncations = 0, buffer = <<>>,
           \/ OpenIdentity \/ OpenStream \/ OpenRecheck \/ OpenSize
           \/ CheckIdentity \/ CheckSize \/ DrainStopped \/ Close \/ Shutdown
    PROVE  LinesInv'
  <1>1. CASE OpenIdentity \/ OpenStream \/ Close \/ Shutdown
    <2>1. ~FileOpen'
      BY <1>1 DEF OpenIdentity, OpenStream, Close, Shutdown, FileOpen
    <2>2. QED
      BY <2>1 DEF LinesInv
  <1>2. CASE OpenRecheck \/ OpenSize
    <2>1. CASE ~FileOpen'
      BY <2>1 DEF LinesInv
    <2>2. CASE FileOpen'
      <3>1. ~FileOpen /\ buffer' = buffer /\ UNCHANGED lineVars
        BY <1>2 DEF OpenRecheck, OpenSize, FileOpen
      <3>2. buffer' = <<>> /\ pending_line' = <<>> /\ ~dropping
        BY <3>1 DEF OpenInv, lineVars
      <3>3. dropping' = FALSE
        BY <3>1, <3>2 DEF TypeInv, lineVars
      <3>4. Opened(0, CameBack) \/ Opened(safe_file_size, FALSE)
        BY <1>2, <2>2 DEF OpenRecheck, OpenSize, Settled, FileOpen
      <3>5. offset' = start'
        BY <3>4 DEF Opened
      <3>6. TypeInv'
        BY <1>2, OpeningType
      <3>7. offset' \in Nat /\ start' \in Nat
        BY <3>6 DEF TypeInv
      <3>8. offset' <= start'
        BY <3>5, <3>7
      <3>9. QED
        BY <3>2, <3>3, <3>7, <3>8, LinesFresh
    <2>3. QED
      BY <2>1, <2>2
  <1>3. CASE CheckIdentity \/ DrainStopped
    <2>1. /\ FileOpen
          /\ UNCHANGED <<content, stream, start, offset, buffer, pending_line, dropping,
                         ingested, truncations>>
      BY <1>3 DEF CheckIdentity, DrainStopped, FileOpen, fileVars, openVars, readVars, lineVars
    <2>2. QED
      BY <2>1, LinesUnchanged
  <1>4. CASE CheckSize
    <2>1. FileOpen /\ UNCHANGED <<content, stream, start, buffer, truncations>>
      BY <1>4 DEF CheckSize, FileOpen, fileVars, openVars
    <2>2. CASE offset' = offset /\ UNCHANGED lineVars
      <3>1. UNCHANGED <<content, stream, start, offset, buffer, pending_line, dropping,
                        ingested, truncations>>
        BY <2>1, <2>2 DEF lineVars
      <3>2. QED
        BY <2>1, <3>1, LinesUnchanged
    <2>3. CASE offset' = 0 /\ FlushOrDropPendingLine
      <3>1. pending_line' = <<>> /\ dropping' = FALSE /\ buffer' = <<>>
        BY <2>1, <2>3 DEF FlushOrDropPendingLine
      <3>2. start' \in Nat /\ offset' \in Nat
        BY <2>1, <2>3 DEF TypeInv
      <3>3. offset' <= start'
        BY <2>3, <3>2
      <3>4. QED
        BY <3>1, <3>2, <3>3, LinesFresh
    <2>4. QED
      BY <1>4, <2>2, <2>3 DEF CheckSize
  <1>5. QED
    BY <1>1, <1>2, <1>3, <1>4

\* What is known of the lines holds at the start.
LEMMA InitRead == Init => ReadInv
  <1>1. SUFFICES ASSUME Init PROVE ReadInv
    OBVIOUS
  <1>2. OnceInv
    BY <1>1, InitOnce
  <1>3. TypeInv /\ OpenInv /\ WriterInv
    BY <1>2 DEF OnceInv
  <1>4. /\ \A f \in 1..MaxFiles : content[f] = <<>>
        /\ pc = "open" /\ wfile = 1 /\ wpart = 0
    BY <1>1 DEF Init
  <1>5. \A i : i \notin 1..Len(<<>>)
    OBVIOUS
  <1>6. LayoutInv
    BY <1>4, <1>5 DEF LayoutInv
  <1>7. wfile \in 1..MaxFiles
    BY <1>4, FileHarvesterAssumption
  <1>8. wpart \notin 1..Length[wline]
    <2>1. Length[wline] \in Nat
      BY <1>3, LineLength DEF TypeInv
    <2>2. QED
      BY <1>4, <2>1
  <1>9. EndInv
    BY <1>4, <1>7, <1>8 DEF EndInv
  <1>10. LinesInv
    BY <1>4 DEF LinesInv, FileOpen
  <1>11. QED
    BY <1>3, <1>6, <1>9, <1>10 DEF ReadInv

\* Every step keeps what is known of the lines.
LEMMA NextRead ==
    ASSUME ReadInv, [Next]_vars
    PROVE  ReadInv'
  <1>1. TypeInv /\ OpenInv /\ WriterInv
    BY DEF ReadInv
  <1>2. TypeInv' /\ OpenInv' /\ WriterInv'
    BY <1>1, NextType, WriterOrder
  <1>3. ASSUME truncations' = 0 PROVE LayoutInv' /\ EndInv' /\ LinesInv'
    <2>1. truncations = 0 /\ ~Truncate
      <3>1. Truncate \/ truncations' = truncations
        BY DEF Next, Harvest, WriterAppend, WriterReopen, Unlink, Create, Restore, RequestStop,
           Consume, Proceed, OpenIdentity, OpenStream, OpenRecheck, OpenSize, Read,
           DrainRead, CheckIdentity, CheckSize, DrainStopped, Close, Shutdown, vars,
           fileVars
      <3>2. ~Truncate
        BY <1>1, <1>3 DEF Truncate, TypeInv
      <3>3. QED
        BY <1>3, <3>1, <3>2
    <2>2. LayoutInv /\ EndInv /\ LinesInv
      BY <2>1 DEF ReadInv
    <2>3. LayoutInv' /\ EndInv'
      BY <1>1, <1>3, <2>2, LayoutKept
    <2>4. CASE WriterAppend
      <3>1. CASE FileOpen
        BY <1>1, <2>1, <2>2, <2>3, <2>4, <3>1, LinesAppend
      <3>2. CASE ~FileOpen
        <4>1. ~FileOpen'
          BY <2>4, <3>2 DEF WriterAppend, FileOpen
        <4>2. LinesInv'
          BY <4>1 DEF LinesInv
        <4>3. QED
          BY <2>3, <4>2
      <3>3. QED
        BY <3>1, <3>2
    <2>5. CASE WriterReopen \/ Unlink \/ Create \/ Restore \/ RequestStop \/ UNCHANGED vars
      <3>1. /\ UNCHANGED <<content, stream, start, offset, buffer, pending_line, dropping,
                           ingested, truncations>>
            /\ FileOpen' => FileOpen
        BY <2>5 DEF WriterReopen, Unlink, Create, Restore, RequestStop, vars, fileVars, openVars,
           readVars, lineVars, FileOpen
      <3>2. QED
        BY <2>1, <2>2, <2>3, <3>1, LinesUnchanged
    <2>6. CASE Consume
      BY <1>1, <2>1, <2>2, <2>3, <2>6, LinesConsume
    <2>7. CASE Proceed
      <3>1. buffer = <<>>
        BY <2>7 DEF Proceed
      <3>2. CASE Read \/ DrainRead
        BY <1>1, <2>1, <2>2, <2>3, <3>1, <3>2, ReadSteps, LinesRead
      <3>3. CASE \/ OpenIdentity \/ OpenStream \/ OpenRecheck \/ OpenSize
                 \/ CheckIdentity \/ CheckSize \/ DrainStopped \/ Close \/ Shutdown
        BY <1>1, <2>1, <2>2, <2>3, <3>1, <3>3, LinesProceed
      <3>4. QED
        BY <2>7, <3>2, <3>3 DEF Proceed
    <2>8. QED
      BY <2>1, <2>4, <2>5, <2>6, <2>7 DEF Next, Harvest
  <1>4. QED
    BY <1>2, <1>3 DEF ReadInv

\* Every line of acceptable length that has been consumed is ingested, until the
\* first truncation: buffer boundaries, partial lines, overlong lines before it,
\* rotation and reopening lose none (consume_bytes, file.hpp:323).
THEOREM SafeReadLinesIngested == Spec => []ReadLinesIngested
  <1>1. ReadInv => ReadLinesIngested
    BY DEF ReadInv, LinesInv, ReadLinesIngested
  <1>2. QED
    BY <1>1, InitRead, NextRead, PTL DEF Spec

=============================================================================

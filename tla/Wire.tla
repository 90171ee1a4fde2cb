-------------------------------- MODULE Wire --------------------------------
(***************************************************************************)
(* The wire format of dns.go: a message from a server is parsed            *)
(* (parseMessage, readName, expandRData), and its records are put into a   *)
(* reply (buildReply) that the client parses in turn.                      *)
(*                                                                         *)
(* A message is a sequence of bytes; the sizes and limits of the format    *)
(* are constants.  Of a record are kept its owner, its type, its length    *)
(* and its data; of the types, those whose data is a name and the others.  *)
(* A name is the sequence of its labels, and a label that of its bytes,    *)
(* with no dot in it: wireToName and domainToBytes are inverse then.       *)
(***************************************************************************)
EXTENDS Naturals, Sequences, SequencesExt

CONSTANTS
  Byte,        \* how many values a byte has (256)
  PtrBits,     \* from here on it begins a pointer (0xC0)
  MaxLabel,    \* the longest label (63)
  MaxName,     \* the longest name (255)
  MaxJumps,    \* the pointers followed in one name (64)
  MaxOffset,   \* the last offset a pointer is written for (0x3FFE)
  Header,      \* bytes of the header (12)
  NameType, DataType,
  Questions,   \* the names asked for
  Limits,      \* what clients accept by UDP; 0 is a stream
  Messages     \* what servers send: records without the header

ASSUME WireAssumption ==
  /\ {Byte, PtrBits, MaxLabel, MaxName, MaxJumps, MaxOffset, Header} \subseteq Nat
  /\ MaxLabel < PtrBits /\ PtrBits < Byte
  /\ MaxName > 0 /\ MaxName < Byte /\ MaxJumps > 0
  /\ MaxOffset < (Byte - PtrBits) * Byte
  /\ NameType # DataType
  /\ \A m \in Messages : m.buf \in Seq(0 .. Byte - 1) /\ m.count \in Nat
  /\ \A l \in Limits : l \in Nat /\ (l > 0 => l >= Header + MaxName + 1)

VARIABLES
  message,   \* [buf, count]: the message from the server
  reading,   \* the state of readName, at the message's first name
  reply      \* [question, records, limit]: what is to be told the client

vars == <<message, reading, reply>>

At(buf, offset) == buf[offset + 1]

-----------------------------------------------------------------------------
(* Reading *)

Start(offset) ==
  [state |-> "reading", at |-> offset, labels |-> <<>>, size |-> 0, jumps |-> 0, end |-> 0]
Bad(r) == [r EXCEPT !.state = "malformed"]

\* A wrong version: pointers are followed wherever they lead.
FollowAnywhere(buf, r) ==
  LET ptr == (At(buf, r.at) % (Byte - PtrBits)) * Byte + At(buf, r.at + 1)
  IN  [r EXCEPT !.at = ptr, !.end = IF @ = 0 THEN r.at + 2 ELSE @]

\* A compression pointer: only back, and not too often.
Follow(buf, r) ==
  LET ptr == (At(buf, r.at) - PtrBits) * Byte + At(buf, r.at + 1)
  IN  IF ptr >= r.at \/ r.jumps = MaxJumps THEN Bad(r)
      ELSE [r EXCEPT !.at = ptr, !.jumps = @ + 1, !.end = IF @ = 0 THEN r.at + 2 ELSE @]

\* A wrong version: the zero at the end is not counted.
TooLongLate(r, length) == r.size + 1 + length > MaxName

\* The name would be too long with this label.
TooLong(r, length) == r.size + 1 + length + 1 > MaxName

\* One round of readName's loop
ReadStep(buf, r) ==
  IF r.at >= Len(buf) THEN Bad(r)
  ELSE LET length == At(buf, r.at)
       IN  CASE length = 0 ->
                  [r EXCEPT !.state = "done", !.end = IF @ = 0 THEN r.at + 1 ELSE @]
             [] length >= PtrBits ->
                  IF r.at + 1 >= Len(buf) THEN Bad(r) ELSE Follow(buf, r)
             [] length > MaxLabel /\ length < PtrBits -> Bad(r)
             [] OTHER ->
                  IF r.at + 1 + length > Len(buf) \/ TooLong(r, length) THEN Bad(r)
                  ELSE [r EXCEPT !.labels = Append(@, SubSeq(buf, r.at + 2, r.at + 1 + length)),
                                 !.size = @ + 1 + length, !.at = @ + 1 + length]

\* readName.  Each round but the last follows a pointer or adds to the name.
ReadName(buf, offset) ==
  LET round[n \in 0 .. MaxJumps + MaxName] ==
        IF n = 0 THEN Start(offset)
        ELSE LET r == round[n - 1]
             IN  IF r.state = "reading" THEN ReadStep(buf, r) ELSE r
  IN  round[MaxJumps + MaxName]

\* domainToBytes; also what is left of a name in the data of a record.
Bytes(name) == FlattenSeq([i \in DOMAIN name |-> <<Len(name[i])>> \o name[i]]) \o <<0>>

\* A question has come in a message too.
ASSUME QuestionAssumption ==
  \A q \in Questions :
    /\ q \in Seq(Seq(0 .. Byte - 1)) /\ Len(Bytes(q)) <= MaxName
    /\ \A i \in DOMAIN q : Len(q[i]) \in 1 .. MaxLabel

\* A wrong version: the data is taken as it stands.
Copied(buf, start, length, type) == [ok |-> TRUE, data |-> SubSeq(buf, start + 1, start + length)]

\* expandRData: a name in the data is written out, and fills it.
ExpandRData(buf, start, length, type) ==
  LET end == start + length
      r == ReadName(SubSeq(buf, 1, end), start)
  IN  IF type = NameType
      THEN [ok |-> r.state = "done" /\ r.end = end, data |-> Bytes(r.labels)]
      ELSE [ok |-> TRUE, data |-> SubSeq(buf, start + 1, end)]

NoRecord == [ok |-> FALSE, record |-> <<>>, next |-> 0]

\* parseRecord; type and length take two bytes here.
ParseRecord(buf, offset) ==
  LET r == ReadName(buf, offset)
      off == r.end
  IN  IF r.state # "done" \/ off + 2 > Len(buf) \/ off + 2 + At(buf, off + 1) > Len(buf) THEN NoRecord
      ELSE LET type == At(buf, off)
               length == At(buf, off + 1)
               x == ExpandRData(buf, off + 2, length, type)
           IN  IF ~x.ok THEN NoRecord
               ELSE [ok |-> TRUE, next |-> off + 2 + length,
                     record |-> [owner |-> r.labels, type |-> type, data |-> x.data]]

\* parseRecords
ParseRecords(buf, offset, count) ==
  LET after[n \in 0 .. count] ==
        IF n = 0 THEN [ok |-> TRUE, next |-> offset, records |-> <<>>]
        ELSE LET p == after[n - 1]
                 x == ParseRecord(buf, p.next)
             IN  IF p.ok /\ x.ok
                 THEN [ok |-> TRUE, next |-> x.next, records |-> Append(p.records, x.record)]
                 ELSE [p EXCEPT !.ok = FALSE]
  IN  after[count]

\* parseMessage, for one question
ParseMessage(m) ==
  LET q == ReadName(m.buf, Header)
      x == ParseRecords(m.buf, q.end + 1, m.count)
  IN  IF q.state # "done" \/ q.end + 1 > Len(m.buf) THEN [ok |-> FALSE]
      ELSE [ok |-> x.ok, question |-> q.labels, records |-> x.records]

-----------------------------------------------------------------------------
(* Writing *)

Filler(n) == [i \in 1 .. n |-> 0]
NewBuilder == [buf |-> Filler(Header), names |-> <<>>]

\* A wrong version: every name's offset is kept.
KeepAlways(b, name) == [b EXCEPT !.names = Append(@, <<name, Len(b.buf)>>)]

\* The offset of a name is kept if a pointer can hold it.
Keep(b, name) ==
  IF name # <<>> /\ Len(b.buf) <= MaxOffset
  THEN [b EXCEPT !.names = Append(@, <<name, Len(b.buf)>>)] ELSE b

\* writeName: a name that was written before becomes a pointer to it.
WriteName(b, name) ==
  LET known == {i \in DOMAIN b.names : b.names[i][1] = name}
      off == b.names[CHOOSE i \in known : TRUE][2]
  IN  IF known # {}
      THEN [b EXCEPT !.buf = @ \o <<PtrBits + ((off \div Byte) % (Byte - PtrBits)), off % Byte>>]
      ELSE [Keep(b, name) EXCEPT !.buf = @ \o Bytes(name)]

\* writeRecord
WriteRecord(b, rr) ==
  LET w == WriteName(b, rr.owner)
  IN  [w EXCEPT !.buf = @ \o <<rr.type, Len(rr.data)>> \o rr.data]

\* buildReply's build; type and class of the question take one byte here.
Build(question, records) ==
  LET q == WriteName(NewBuilder, question)
      after[n \in 0 .. Len(records)] ==
        IF n = 0 THEN [q EXCEPT !.buf = Append(@, 0)] ELSE WriteRecord(after[n - 1], records[n])
  IN  after[Len(records)].buf

\* A wrong version: the limit is met by what fits of the records.
BuildReplyCut(a) ==
  LET buf == Build(a.question, a.records)
  IN  [buf |-> IF a.limit > 0 /\ Len(buf) > a.limit THEN SubSeq(buf, 1, a.limit) ELSE buf,
       count |-> Len(a.records), tc |-> a.limit > 0 /\ Len(buf) > a.limit]

\* buildReply: what the client would not accept is left out, and TC says so.
BuildReply(a) ==
  LET buf == Build(a.question, a.records)
  IN  IF a.limit > 0 /\ Len(buf) > a.limit
      THEN [buf |-> Build(a.question, <<>>), count |-> 0, tc |-> TRUE]
      ELSE [buf |-> buf, count |-> Len(a.records), tc |-> FALSE]

-----------------------------------------------------------------------------

Init ==
  /\ message \in Messages
  /\ reading = Start(Header)
  /\ reply \in [question : Questions, records : {<<>>}, limit : Limits]

\* The message's first name is read, round by round.
Read ==
  /\ reading.state = "reading"
  /\ reading' = ReadStep(message.buf, reading)
  /\ UNCHANGED <<message, reply>>

\* The message's records go into the reply, if it can be parsed.
Answer ==
  /\ reading.state # "reading" /\ reply.records = <<>>
  /\ LET x == ParseRecords(message.buf, Header, message.count)
     IN  x.ok /\ reply' = [reply EXCEPT !.records = x.records]
  /\ UNCHANGED <<message, reading>>

Next == Read \/ Answer

Spec == Init /\ [][Next]_vars /\ WF_vars(Read)

-----------------------------------------------------------------------------
(* Properties *)

\* A name that was read is one: short enough, no label empty or too long, and
\* read from within the message (readName).
NamesFit ==
  reading.state = "done" =>
    /\ Len(Bytes(reading.labels)) <= MaxName
    /\ \A i \in DOMAIN reading.labels : Len(reading.labels[i]) \in 1 .. MaxLabel
    /\ reading.end \in Header + 1 .. Len(message.buf)

\* The names that the data of a message's records stand for.
Targets(buf, offset, count) ==
  LET after[n \in 0 .. count] ==
        IF n = 0 THEN [next |-> offset, names |-> <<>>]
        ELSE LET p == after[n - 1]
                 head == ReadName(buf, p.next).end
             IN  [next |-> head + 2 + At(buf, head + 1),
                  names |-> IF At(buf, head) = NameType
                            THEN Append(p.names, ReadName(buf, head + 2).labels) ELSE p.names]
  IN  after[count].names

\* Whatever a server sends, its records can be put into another message, with
\* other names before them and at other offsets, and the client reads there
\* what we read, pointers and all, as what the server meant (expandRData,
\* writeName, buildReply); what does not fit is left out and said to be.
CopySafe ==
  LET out == BuildReply(reply)
      m == ParseMessage(out)
      first == ReadName(out.buf, Header).end + 1
  IN  /\ m.ok /\ m.question = reply.question
      /\ m.records = IF out.tc THEN <<>> ELSE reply.records
      /\ reply.limit > 0 => Len(out.buf) <= reply.limit
      /\ ~out.tc /\ reply.records # <<>>
           => Targets(out.buf, first, out.count) = Targets(message.buf, Header, message.count)

\* The reading of a name ends, whatever pointers it has (readName).
ReadEnds == <>(reading.state # "reading")
=============================================================================

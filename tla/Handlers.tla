------------------------------ MODULE Handlers ------------------------------
(***************************************************************************)
(* The protocol handlers behind g_mapProtocolHandle: which api keys and    *)
(* versions they accept, which they advertise, and what the produce        *)
(* handler takes from the bytes of a request.                              *)
(*                                                                         *)
(* The body of a produce request is the sequence of its bytes.  Nothing in *)
(* the code compares a length with the end of the frame, so a reading may  *)
(* leave it; what lies behind is not part of the model, and what the       *)
(* handler makes of it is Unknown.                                         *)
(***************************************************************************)
EXTENDS Integers, Sequences, SequencesExt

Produce          == 0
Metadata         == 3
SaslHandshake    == 17
ApiVersions      == 18
InitProducerId   == 22
SaslAuthenticate == 36

(* The keys InitHandle registers in g_mapProtocolHandle.                   *)
Handled == {ApiVersions, Metadata, Produce, SaslHandshake, SaslAuthenticate,
            InitProducerId}

(* Mutant of MaxVersion: Metadata's maximum lowered, the table forgotten.  *)
MaxVersionLowered(key) ==
  IF key = Produce THEN 7 ELSE IF key \in {Metadata, ApiVersions} THEN 2 ELSE 1

(* m_maxVersion of each handler; m_minVersion is 0 for all of them.        *)
MaxVersion(key) ==
  IF key \in {Produce, Metadata} THEN 7 ELSE IF key = ApiVersions THEN 2 ELSE 1

Accepts(key, version) == version \in 0 .. MaxVersion(key)

(* The maximum version advertised for each key from 0 on.                  *)
ArrayApiVersion ==
  << 7, 10, 5, 4, 2, 1, 5, 2, 6, 5, 2, 4, 2, 2, 2, 2, 2, 1, 2, 3, 3, 1,
     1, 2, 1, 1, 1, 0, 2, 1, 1, 1, 2, 1, 1, 1, 0, 1, 1, 1, 1, 1, 1, 0 >>

Advertised(key, version) ==
  key + 1 \in DOMAIN ArrayApiVersion /\ version \in 0 .. ArrayApiVersion[key + 1]

-----------------------------------------------------------------------------
(* Reading.                                                                *)

Byte(b, p) == IF p \in DOMAIN b THEN b[p] ELSE 0

(* ntohs and ntohl of what ptr points to, as short and int.                *)
Signed(byte) == IF byte < 128 THEN byte ELSE byte - 256

readShort(b, p) == 256 * Signed(Byte(b, p)) + Byte(b, p + 1)

readInt(b, p) ==
  65536 * readShort(b, p) + 256 * Byte(b, p + 2) + Byte(b, p + 3)

readString(b, p, len) == [k \in 1 .. len |-> Byte(b, p + k - 1)]

(* What is read behind the end of the frame; no byte is negative.          *)
Unknown == <<-1>>

Unzigzag(n) == IF n % 2 = 0 THEN n \div 2 ELSE -((n + 1) \div 2)

(* Mutant of Shift: groups of eight bits.                                  *)
ShiftBytes(j) == 256 ^ j

(* The weight of the j-th group of seven bits.                             *)
Shift(j) == 128 ^ j

(* decVarintToI64(ptr, 8, tmpNum) and the step of ptr behind it.  at.next  *)
(* is ptr and at.value the number tmpNum holds: both stay as they are when *)
(* no byte of the eight ends the varint.                                   *)
decVarintToI64(b, at) ==
  LET byte(j) == Byte(b, at.next + j)
      Ends == {n \in 0 .. 7 : byte(n) < 128 /\ \A j \in 0 .. n - 1 : byte(j) >= 128}
  IN IF Ends = {} THEN at
     ELSE LET last == CHOOSE n \in Ends : TRUE
              num  == FoldFunction(+, 0, [j \in 0 .. last |-> (byte(j) % 128) * Shift(j)])
          IN [next |-> at.next + last + 1, value |-> Unzigzag(num)]

(* mapTopicPartition[topic].push_back(id).                                 *)
PushBack(map, topic, id) ==
  [t \in DOMAIN map \cup {topic} |->
     IF t # topic THEN map[t]
     ELSE IF t \in DOMAIN map THEN Append(map[t], id) ELSE <<id>>]

(* rd is what has been read so far: ptr, the map, the values printed, and  *)
(* the outcome: "reading" inside the frame, "thrown", or "left" the frame. *)

(* A step of the reading that takes the bytes from ptr up to next.         *)
InFrame(b, next, rd) ==
  IF next - 1 <= Len(b) THEN [rd EXCEPT !.ptr = next] ELSE [rd EXCEPT !.outcome = "left"]

(* n turns of a loop of the handler.  A turn moves ptr by a byte at least: *)
(* more turns than the frame has bytes end behind it.                      *)
Repeat(Read(_), n, b, rd) ==
  LET turns == IF n <= Len(b) THEN n ELSE Len(b) + 1
  IN FoldLeft(LAMBDA r, i : IF r.outcome = "reading" THEN Read(r) ELSE r,
              rd, [i \in 1 .. turns |-> i])

(* if (tmpNum > 0) ptr += tmpNum; a null key has length -1.                *)
KeySkipped(at) == IF at.value > 0 THEN [at EXCEPT !.next = @ + at.value] ELSE at

(* One turn of the record loop.  A null value has length -1, which         *)
(* std::string's constructor answers with a length_error.                  *)
ReadRecord(b, rd) ==
  LET length    == decVarintToI64(b, [next |-> rd.ptr, value |-> 0])
      timestamp == decVarintToI64(b, [length EXCEPT !.next = @ + 1])
      offset    == decVarintToI64(b, timestamp)
      key       == KeySkipped(decVarintToI64(b, offset))
      value     == decVarintToI64(b, key)
      end       == value.next + value.value
  IN IF value.next - 1 > Len(b) THEN [rd EXCEPT !.outcome = "left"]
     ELSE IF value.value < 0 THEN [rd EXCEPT !.outcome = "thrown"]
     ELSE IF end - 1 > Len(b) THEN [rd EXCEPT !.outcome = "left"]
     ELSE [rd EXCEPT !.ptr = end,
                     !.values = Append(@, readString(b, value.next, value.value))]

(* What a batch holds between its partition's id and its record count.     *)
HeaderLen == 4 + 8 + 4 + 4 + 1 + 4 + 2 + 4 + 8 + 8 + 8 + 2 + 4

(* Partition id, skipped batch header, record count, records.              *)
ReadPartition(b, topic, rd) ==
  LET count == rd.ptr + 4 + HeaderLen
      at    == InFrame(b, count + 4, rd)
  IN IF at.outcome = "left" THEN at
     ELSE Repeat(LAMBDA r : ReadRecord(b, r), readInt(b, count), b,
                 [at EXCEPT !.map = PushBack(@, topic, readInt(b, rd.ptr))])

(* Name, partition count, partitions.  std::string throws for a negative   *)
(* length.                                                                 *)
ReadTopic(b, rd) ==
  LET len  == readShort(b, rd.ptr)
      name == rd.ptr + 2
      at   == InFrame(b, name + len + 4, rd)
  IN IF name - 1 <= Len(b) /\ len < 0 THEN [rd EXCEPT !.outcome = "thrown"]
     ELSE IF at.outcome = "left" THEN at
     ELSE Repeat(LAMBDA r : ReadPartition(b, readString(b, name, len), r),
                 readInt(b, name + len), b, at)

(* Mutant of NeedRespond: acks of -1 taken for none.                       *)
NeedRespondPositive(acks) == acks > 0

(* acks & 0x3                                                              *)
NeedRespond(acks) == acks % 4 # 0

(* bNeedRespond, behind the transaction id.                                *)
Responds(b) == NeedRespond(readShort(b, 3))

(* The whole body: acks and timeout, topic count, topics.                  *)
ReadProduce(b) ==
  LET rd == Repeat(LAMBDA r : ReadTopic(b, r), readInt(b, 9), b,
                   InFrame(b, 13, [outcome |-> "reading", ptr |-> 1,
                                   map |-> <<>>, values |-> <<>>]))
  IN IF rd.outcome = "left"
     THEN [rd EXCEPT !.map = Unknown, !.values = Append(@, Unknown)] ELSE rd

-----------------------------------------------------------------------------
(* Writing: a request as its client means it, and the bytes it sends, in   *)
(* the layout of the comment in ProduceHandle.cpp, but for the length of a *)
(* topic's name: the comment makes it a varint for a request, and an int16 *)
(* for the reply, which is what the code reads.  A request says which.     *)

Int16(v) == <<(v \div 256) % 256, v % 256>>
Int32(v) == Int16(v \div 65536) \o Int16(v % 65536)

EncVarint(v) ==
  LET z == IF v >= 0 THEN 2 * v ELSE -2 * v - 1
  IN IF z < 128 THEN <<z>> ELSE <<(z % 128) + 128, z \div 128>>

Null    == [length |-> -1, bytes |-> <<>>]
Text(b) == [length |-> Len(b), bytes |-> b]

Each(Write(_, _), seq) == FlattenSeq([i \in DOMAIN seq |-> Write(seq[i], i)])

WrittenText(x) == EncVarint(x.length) \o x.bytes

WrittenRecord(rec, i) ==
  LET body == <<0>> \o EncVarint(rec.timestamp) \o EncVarint(i - 1)
                \o WrittenText(rec.key) \o WrittenText(rec.value)
                \o Each(LAMBDA h, j : WrittenText(h.key) \o WrittenText(h.value), rec.headers)
  IN EncVarint(Len(body)) \o body

WrittenPartition(part, i) ==
  Int32(part.id) \o [k \in 1 .. HeaderLen |-> 0] \o Int32(Len(part.records))
    \o Each(WrittenRecord, part.records)

WrittenTopics(req) ==
  Each(LAMBDA topic, i :
         (IF req.nameLen = "varint" THEN EncVarint(Len(topic.name)) ELSE Int16(Len(topic.name)))
           \o topic.name \o Int32(Len(topic.partitions))
           \o Each(WrittenPartition, topic.partitions), req.topics)

(* No transaction, acks, no timeout, the topics.                           *)
Written(req) ==
  Int16(-1) \o (Int16(req.acks) \o (Int32(0) \o (Int32(Len(req.topics)) \o WrittenTopics(req))))

(* What the client means: its partitions by topic, its values in order.    *)
Values(req) ==
  Each(LAMBDA topic, i :
         Each(LAMBDA part, j : [k \in DOMAIN part.records |-> part.records[k].value.bytes],
              topic.partitions), req.topics)

NamesOf(req) ==
  {topic.name : topic \in {t \in ToSet(req.topics) : t.partitions # <<>>}}

PartitionsOf(req, name) ==
  Each(LAMBDA topic, i :
         IF topic.name = name
         THEN [j \in DOMAIN topic.partitions |-> topic.partitions[j].id] ELSE <<>>, req.topics)

=============================================================================

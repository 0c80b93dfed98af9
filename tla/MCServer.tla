------------------------------ MODULE MCServer ------------------------------
(***************************************************************************)
(* Instances of Server: what the clients of each descriptor ask.           *)
(***************************************************************************)
EXTENDS Server

Ask(key, version) == [key |-> key, version |-> version]

Handshake(mechanism) ==
  [key |-> SaslHandshake, version |-> 1, mechanism |-> mechanism]

AskMetadata(version) ==
  [key |-> Metadata, version |-> version, topics |-> <<<<1>>, <<2>>>>]

Record(timestamp, key, value, headers) ==
  [timestamp |-> timestamp, key |-> key, value |-> value, headers |-> headers]

Partition(id, records) == [id |-> id, records |-> records]

Topic(name, partitions) == [name |-> name, partitions |-> partitions]

AskProduce(acks, topics) ==
  [key |-> Produce, version |-> 7, acks |-> acks, nameLen |-> "int16", topics |-> topics]

Header == [key |-> Text(<<1>>), value |-> Text(<<2>>)]

(* Two topics, one of them twice, keys null and not, a two-byte varint, a  *)
(* negative one, an empty value; no record has headers.                    *)
Batches ==
  << Topic(<<1>>, << Partition(3, << Record(0, Null, Text(<<7, 8>>), <<>>),
                                     Record(100, Text(<<5>>), Text(<<9>>), <<>>) >>),
                     Partition(4, << Record(-1, Null, Text(<<>>), <<>>) >>) >>),
     Topic(<<2, 2>>, << Partition(0, << Record(70, Null, Text(<<6>>), <<>>) >>) >>),
     Topic(<<1>>, << Partition(9, << Record(5, Null, Text(<<4>>), <<>>) >>) >>) >>

(* Long enough for a length of two bytes.                                  *)
LongValue == Text([i \in 1 .. 64 |-> 7])

OneRecord(value, headers) ==
  << Topic(<<1>>, << Partition(0, << Record(0, Text(<<5>>), value, headers) >>) >>) >>

TwoRecords ==
  << Topic(<<1>>, << Partition(0, << Record(0, Text(<<5>>), Text(<<7>>), <<Header>>),
                                     Record(1, Text(<<5>>), Text(<<8>>), <<Header>>) >>) >>) >>

SaslRequests == {Handshake("GSSAPI"), Handshake("PLAIN"), Ask(SaslAuthenticate, 0)}

ProduceAsks ==
  { AskProduce(1, Batches), AskProduce(-1, OneRecord(LongValue, <<Header>>)),
    AskProduce(0, OneRecord(Text(<<7>>), <<>>)), AskProduce(1, OneRecord(Null, <<>>)) }

(* One client asks everything; the other is there to share or not to share *)
(* its thread.  Key 1 has no handler.                                      *)
MCRequests ==
  4 :> {Ask(InitProducerId, 1), Ask(1, 0)} @@
  5 :> (SaslRequests \cup ProduceAsks \cup
        {Ask(ApiVersions, 2), AskMetadata(4), AskMetadata(8)})

(* Few requests, for three descriptors: with two threads, 5 belongs to the *)
(* listener's, 4 and 6 to the other one.  6 only connects.                 *)
ThreadsRequests ==
  4 :> {Ask(InitProducerId, 1)} @@
  5 :> { AskProduce(1, OneRecord(Text(<<7>>), <<>>)), AskProduce(0, OneRecord(Text(<<7>>), <<>>)),
         AskProduce(1, OneRecord(Null, <<>>)), AskMetadata(8) } @@
  6 :> {}

(* Requests in the layout of ProduceHandle.cpp:28-36: one with a topic name *)
(* whose length is a varint, one with headers behind its first record.     *)
LayoutRequests ==
  4 :> { [AskProduce(1, OneRecord(Text(<<7>>), <<>>)) EXCEPT !.nameLen = "varint"],
         AskProduce(1, TwoRecords) }

=============================================================================

--------------------------------- MODULE Ice ---------------------------------
(* The byte formats the ecc-bridge speaks: the Ice encoding 1.1                *)
(* (src/src/ice/codec.rs), the messages of protocol 1.0 (src/src/ice/proto.rs) *)
(* and the DataLinkSet document that configure carries (src/src/ecc/core.rs).  *)
(* Bytes are 0..255.  Strings are sequences of bytes below 128, so that UTF-8  *)
(* is checked by looking at the bytes one by one; a byte altered to 128 or     *)
(* more is not valid among ASCII.                                              *)
EXTENDS Integers, Sequences, FiniteSets, SequencesExt, FiniteSetsExt

CONSTANT Damages   \* the values a damaged byte may take

-----------------------------------------------------------------------------
(* OutputStream                                                               *)

IntBytes(v) == [i \in 1..4 |-> (v \div 256^(i - 1)) % 256]

(* Mutant: 255 is written as one byte, which announces the long form.         *)
SizeBytes_OffByOne(n) == IF n < 256 THEN <<n>> ELSE <<255>> \o IntBytes(n)

SizeBytes(n) == IF n < 255 THEN <<n>> ELSE <<255>> \o IntBytes(n)

StringBytes(s) == SizeBytes(Len(s)) \o s
StringSeqBytes(ss) == SizeBytes(Len(ss)) \o FlattenSeq([i \in DOMAIN ss |-> StringBytes(ss[i])])

(* write_dict; a dictionary is a sequence of pairs in the order of its keys.  *)
DictBytes(d) ==
  SizeBytes(Len(d)) \o FlattenSeq([i \in DOMAIN d |-> StringBytes(d[i][1]) \o StringBytes(d[i][2])])

(* The size counts its own header of six bytes.                               *)
EncapsulationBytes(p) == IntBytes(Len(p) + 6) \o <<1, 1>> \o p

-----------------------------------------------------------------------------
(* InputStream: a cursor whose first error stays; val is what was read last.  *)

Input(bytes) == [buf |-> bytes, pos |-> 0, err |-> FALSE, val |-> << >>]
Failure(r)   == [r EXCEPT !.err = TRUE]
Remaining(r) == Len(r.buf) - r.pos
Then(r, F(_)) == IF r.err THEN r ELSE F(r)

ReadBytes(r, n) ==
  Then(r, LAMBDA q : IF n < 0 \/ n > Remaining(q) THEN Failure(q)
                     ELSE [q EXCEPT !.pos = @ + n, !.val = SubSeq(q.buf, q.pos + 1, q.pos + n)])

ReadByte(r) == Then(ReadBytes(r, 1), LAMBDA q : [q EXCEPT !.val = q.val[1]])

(* i32::from_le_bytes                                                         *)
IntOf(b) == b[1] + b[2] * 256 + b[3] * 65536
              + (IF b[4] < 128 THEN b[4] ELSE b[4] - 256) * 16777216

ReadInt(r) == Then(ReadBytes(r, 4), LAMBDA q : [q EXCEPT !.val = IntOf(q.val)])

ReadSize(r) ==
  Then(ReadByte(r), LAMBDA q : IF q.val # 255 THEN q
                               ELSE Then(ReadInt(q), LAMBDA p : IF p.val < 0 THEN Failure(p) ELSE p))

ReadString(r) ==
  Then(ReadSize(r), LAMBDA q :
    Then(ReadBytes(q, q.val), LAMBDA p :
      IF \E i \in DOMAIN p.val : p.val[i] > 127 THEN Failure(p) ELSE p))

(* A counted loop.  Every element takes a byte at least, so that a count      *)
(* beyond the buffer fails in the same place when it is cut to the buffer.    *)
ReadMany(r, n, Read(_)) ==
  FoldLeft(LAMBDA acc, i : Then(acc, LAMBDA q :
                             Then(Read(q), LAMBDA p : [p EXCEPT !.val = Append(q.val, p.val)])),
           [r EXCEPT !.val = << >>],
           [i \in 1 .. (IF n > Len(r.buf) THEN Len(r.buf) ELSE n) |-> i])

ReadStringSeq(r) == Then(ReadSize(r), LAMBDA q : ReadMany(q, q.val, ReadString))

ReadPair(r) ==
  Then(ReadString(r), LAMBDA q : Then(ReadString(q), LAMBDA p : [p EXCEPT !.val = <<q.val, p.val>>]))

(* read_dict: a later value of the same key replaces the earlier one.         *)
LastOfKey(ps) ==
  LET last == {i \in DOMAIN ps : \A j \in DOMAIN ps : j > i => ps[j][1] # ps[i][1]}
  IN  [n \in 1 .. Cardinality(last) |-> ps[SetToSortSeq(last, <)[n]]]

ReadDict(r) ==
  Then(ReadSize(r), LAMBDA q :
    Then(ReadMany(q, q.val, ReadPair), LAMBDA p : [p EXCEPT !.val = LastOfKey(@)]))

(* read_encapsulation: its size covers the header, only encoding 1.1 is read. *)
ReadEncapsulation(r) ==
  Then(ReadInt(r), LAMBDA q :
    Then(ReadBytes(q, 2), LAMBDA p :
      IF q.val < 6 \/ p.val # <<1, 1>> THEN Failure(p) ELSE ReadBytes(p, q.val - 6)))

-----------------------------------------------------------------------------
(* Messages                                                                   *)

HeaderSize == 14
MaxMessageSize == 16 * 1024 * 1024
MessageTypes == <<"Request", "BatchRequest", "Reply", "ValidateConnection", "CloseConnection">>
TypeByte(t) == (CHOOSE i \in DOMAIN MessageTypes : MessageTypes[i] = t) - 1

(* The magic IceP, protocol 1.0, header encoding 1.0, type, no compression,   *)
(* and the size of the whole message.                                         *)
BuildMessage(t, body) ==
  <<73, 99, 101, 80, 1, 0, 1, 0, TypeByte(t), 0>> \o IntBytes(HeaderSize + Len(body)) \o body

ParseHeader(b) ==
  IF Len(b) < HeaderSize THEN [err |-> TRUE, type |-> "", size |-> 0]
  ELSE LET size == IntOf(SubSeq(b, 11, 14))
       IN  IF /\ SubSeq(b, 1, 8) = <<73, 99, 101, 80, 1, 0, 1, 0>>
              /\ b[9] < Len(MessageTypes) /\ b[10] = 0
              /\ size >= HeaderSize /\ size <= MaxMessageSize
           THEN [err |-> FALSE, type |-> MessageTypes[b[9] + 1], size |-> size]
           ELSE [err |-> TRUE, type |-> "", size |-> 0]

(* message_body: the expected type, and exactly the bytes the header counts.  *)
MessageBody(b, t) ==
  LET h == ParseHeader(b)
  IN  IF h.err \/ h.type # t \/ h.size # Len(b) THEN Failure(Input(<< >>))
      ELSE Input(SubSeq(b, HeaderSize + 1, Len(b)))

(* An optional facet travels as a sequence of at most one string.             *)
FacetBytes(f) == StringSeqBytes(IF f = << >> THEN << >> ELSE <<f>>)
ReadFacet(r) ==
  Then(ReadStringSeq(r), LAMBDA q :
    IF Len(q.val) > 1 THEN Failure(q)
    ELSE [q EXCEPT !.val = IF q.val = << >> THEN << >> ELSE q.val[1]])

ExpectEnd(r) == Then(r, LAMBDA q : IF Remaining(q) # 0 THEN Failure(q) ELSE q)

(* Reading several fields in turn: the values read so far travel in val.      *)
Also(r, Read(_)) ==
  Then(r, LAMBDA q : Then(Read(q), LAMBDA p : [p EXCEPT !.val = Append(q.val, p.val)]))
Fields(r) == [r EXCEPT !.val = << >>]

(* OperationMode::from_byte                                                   *)
ReadMode(r) == Then(ReadByte(r), LAMBDA q : IF q.val \notin {0, 2} THEN Failure(q) ELSE q)

(* A request is id, name, category, facet, operation, mode, context, params.  *)
RequestBytes(x) ==
  BuildMessage("Request",
    IntBytes(x[1]) \o StringBytes(x[2]) \o StringBytes(x[3]) \o FacetBytes(x[4])
      \o StringBytes(x[5]) \o <<x[6]>> \o DictBytes(x[7]) \o EncapsulationBytes(x[8]))

ParseRequestMessage(b) ==
  ExpectEnd(Also(Also(Also(Also(Also(Also(Also(Also(Fields(MessageBody(b, "Request")),
    ReadInt), ReadString), ReadString), ReadFacet), ReadString), ReadMode), ReadDict),
    ReadEncapsulation))

(* parse_user_exception: flags, type id, an optional slice size, the rest.    *)
ReadUserException(r) ==
  Then(ReadEncapsulation(r), LAMBDA q :
    LET x == Also(Also(Fields(Input(q.val)), ReadByte), ReadString)
        y == Then(x, LAMBDA p : IF (p.val[1] \div 16) % 2 = 1
                                THEN Then(ReadInt(p), LAMBDA o : [o EXCEPT !.val = p.val]) ELSE p)
    IN  IF y.err THEN Failure(q)
        ELSE [q EXCEPT !.val = <<y.val[2], SubSeq(y.buf, y.pos + 1, Len(y.buf))>>])

(* The body of a reply by its status: Ok a payload, UserException type id and *)
(* body, 2-4 a request the server could not dispatch, 5-7 a message.          *)
ReplyBodyBytes(status, x) ==
  CASE status = 0 -> EncapsulationBytes(x)
    [] status = 1 -> EncapsulationBytes(<<32>> \o StringBytes(x[1]) \o x[2])
    [] status \in 2..4 -> StringBytes(x[1]) \o StringBytes(x[2]) \o FacetBytes(x[3]) \o StringBytes(x[4])
    [] status \in 5..7 -> StringBytes(x)

ReadReplyBody(r, status) ==
  CASE status = 0 -> ReadEncapsulation(r)
    [] status = 1 -> ReadUserException(r)
    [] status \in 2..4 -> Also(Also(Also(Also(Fields(r), ReadString), ReadString), ReadFacet), ReadString)
    [] status \in 5..7 -> ReadString(r)
    [] OTHER -> Failure(r)

(* A reply is id, status, body.                                               *)
ReplyBytes(x) == BuildMessage("Reply", IntBytes(x[1]) \o <<x[2]>> \o ReplyBodyBytes(x[2], x[3]))

ParseReply(b) ==
  LET r == Also(Also(Fields(MessageBody(b, "Reply")), ReadInt), ReadByte)
  IN  ExpectEnd(Also(r, LAMBDA q : ReadReplyBody(q, q.val[2])))

-----------------------------------------------------------------------------
(* The DataLinkSet document.  Its tags and attribute names are one symbol     *)
(* each: text between quotes never holds one, because it is escaped.          *)

Entities == [c \in {"\"", "<", ">", "&"} |->
               CASE c = "\"" -> <<"&", "q", "u", "o", "t", ";">>
                 [] c = "<" -> <<"&", "l", "t", ";">>
                 [] c = ">" -> <<"&", "g", "t", ";">>
                 [] c = "&" -> <<"&", "a", "m", "p", ";">>]

XmlEscape(s) ==
  FlattenSeq([i \in DOMAIN s |-> IF s[i] \in DOMAIN Entities THEN Entities[s[i]] ELSE <<s[i]>>])

(* Entities are matched from the left; an ampersand that starts none stays.   *)
RECURSIVE XmlUnescape(_)
XmlUnescape(s) ==
  IF s = << >> THEN << >>
  ELSE LET hit == {c \in DOMAIN Entities : IsPrefix(Entities[c], s)}
           c == CHOOSE x \in hit : TRUE
       IN  IF hit = {} THEN <<Head(s)>> \o XmlUnescape(Tail(s))
           ELSE <<c>> \o XmlUnescape(SubSeq(s, Len(Entities[c]) + 1, Len(s)))

Attribute(key, v) == <<key>> \o v \o <<"\"">>

(* A link is sender, router_ip, router_port (a token), flow_type.             *)
DataLinkSetXml(links) ==
  FlattenSeq([i \in DOMAIN links |->
    <<"<DataLink>">> \o Attribute("id", XmlEscape(links[i][1]))
      \o Attribute("ipAddress", XmlEscape(links[i][2])) \o Attribute("port", <<links[i][3]>>)
      \o Attribute("type", XmlEscape(links[i][4])) \o <<"</DataLink>">>])

Find(xml, from, x) ==
  LET at == {i \in from .. Len(xml) : xml[i] = x} IN IF at = {} THEN 0 ELSE Min(at)

(* attr: the text from the attribute to the next quote, within the link.      *)
Attr(xml, from, to, key) ==
  LET p == Find(xml, from, key)
      e == IF p = 0 THEN 0 ELSE Find(xml, p + 1, "\"")
  IN  IF p = 0 \/ p >= to \/ e = 0 \/ e > to THEN << >>
      ELSE XmlUnescape(SubSeq(xml, p + 1, e - 1))

RECURSIVE ParseDataLinkSet(_, _)
ParseDataLinkSet(xml, pos) ==
  LET begin == Find(xml, pos, "<DataLink>")
      close == IF begin = 0 THEN 0 ELSE Find(xml, begin, "</DataLink>")
      end == IF close = 0 THEN Len(xml) + 1 ELSE close
      port == Attr(xml, begin, end, "port")
  IN  IF begin = 0 THEN << >>
      ELSE <<<<Attr(xml, begin, end, "id"), Attr(xml, begin, end, "ipAddress"),
               IF port = << >> THEN "0" ELSE port[1], Attr(xml, begin, end, "type")>>>>
             \o ParseDataLinkSet(xml, end + 1)

-----------------------------------------------------------------------------
(* One packet at a time, as it was written and after a fault of the wire: it  *)
(* ends early, or one of its bytes differs.                                   *)

VARIABLE packet

Names == {<< >>, <<65>>, <<65, 66>>}

SomeRequests ==
  {<<id, n, <<65>>, f, <<66>>, mode, d, p>> :
     id \in {1, 300, 2147483647}, n \in Names, f \in {<< >>, <<67>>}, mode \in {0, 2},
     d \in {<< >>, <<<<<<65>>, << >>>>>>}, p \in {<< >>, [i \in 1..255 |-> 7]}}

Replies ==
  {<<1, 0, p>> : p \in {<< >>, <<2, 0>>}}
    \union {<<1, 1, <<n, <<1, 88>>>>>> : n \in Names}
    \union {<<1, s, <<n, << >>, f, <<66>>>>>> : s \in 2..4, n \in Names, f \in {<< >>, <<67>>}}
    \union {<<1, s, m>> : s \in 5..7, m \in Names \union {[i \in 1..254 |-> 65], [i \in 1..255 |-> 65]}}

Specials == {"a", "\"", "<", "&", "l"}
LinkSets == {<<<<s, <<"a">>, "1", <<"T">>>>, <<t, s, "2", <<"T">>>>>> :
               s \in Specials \X Specials, t \in {<< >>, <<"\"", "&">>}}

IceInit ==
  \/ \E x \in SomeRequests : packet = [kind |-> "request", value |-> x, bytes |-> RequestBytes(x), damage |-> 0]
  \/ \E x \in Replies : packet = [kind |-> "reply", value |-> x, bytes |-> ReplyBytes(x), damage |-> 0]
  \/ \E x \in LinkSets : packet = [kind |-> "links", value |-> x, bytes |-> DataLinkSetXml(x), damage |-> 0]

Whole == packet.damage = 0

(* The connection ends within the message.                                    *)
PacketCut ==
  /\ Whole /\ packet.kind # "links"
  /\ \E n \in 0 .. Len(packet.bytes) - 1 :
       /\ n < 60
       /\ packet' = [packet EXCEPT !.bytes = SubSeq(@, 1, n), !.damage = -1]

(* A byte of the header or of the fixed part behind it is another one.        *)
PacketDamaged ==
  /\ Whole /\ packet.kind # "links"
  /\ \E i \in 1 .. 20, v \in Damages :
       /\ i <= Len(packet.bytes) /\ packet.bytes[i] # v
       /\ packet' = [packet EXCEPT !.bytes[i] = v, !.damage = i]

IceNext == PacketCut \/ PacketDamaged

-----------------------------------------------------------------------------
Parsed == IF packet.kind = "request" THEN ParseRequestMessage(packet.bytes) ELSE ParseReply(packet.bytes)

(* What the bridge writes the other side reads back: Request::to_bytes and    *)
(* parse, Reply::to_bytes and parse are inverse, across the boundary at which *)
(* a size takes the long form and for the largest request id.                 *)
IceRoundTrip ==
  Whole /\ packet.kind # "links" => ~Parsed.err /\ Parsed.val = packet.value

(* A DataLinkSet keeps every link apart and every name whole, whatever        *)
(* characters of the markup the names hold.                                   *)
LinksRoundTrip ==
  packet.kind = "links" => ParseDataLinkSet(packet.bytes, 1) = packet.value

(* read_message never takes a message that ends early or whose header differs *)
(* in any byte for a message of the expected type: a reply is not cut, joined *)
(* to the next one or read as something else.                                 *)
DamageNoticed ==
  packet.kind # "links" /\ packet.damage # 0 /\ packet.damage <= HeaderSize => Parsed.err

(* What is written to the ECC is read there as it was meant, and a damaged  *)
(* header is refused (codec.rs, proto.rs, proxy.rs).                        *)
BytesReadBack == IceRoundTrip /\ LinksRoundTrip /\ DamageNoticed
=============================================================================

------------------------------ MODULE HmuFrame ------------------------------
(***************************************************************************)
(* hmu_frame.c: the frame codec between the gateway, the radio module and  *)
(* the legacy clients.  A frame on the wire is                             *)
(*   MAGIC len_hi len_lo dst cnt payload crc_hi crc_lo                     *)
(* where MAGIC and ESCAPE are escaped everywhere but at the start.  A      *)
(* receiver may come in at any byte, and bytes are lost when a UART or a   *)
(* USB buffer overflows.  The decoder's counters are not wrapped.          *)
(***************************************************************************)
LOCAL INSTANCE Integers
LOCAL INSTANCE Sequences
LOCAL INSTANCE SequencesExt
LOCAL INSTANCE Bitwise

Magic == 253
Escape == 252
EscapeMask == 128
MaxPayload == 512
MaxBody == 2 + MaxPayload

High(w) == w \div 256
Low(w) == w % 256

Frame(dst, cnt, payload) == [dst |-> dst, cnt |-> cnt, payload |-> payload]

Body(f) == <<f.dst, f.cnt>> \o f.payload

-----------------------------------------------------------------------------
(* Encoder                                                                 *)

CrcBit(crc, b) ==
  LET shifted == (2 * crc) % 65536
  IN  IF crc >= 32768 THEN shifted ^^ 32773 ELSE shifted

CrcByte(crc, byte) == FoldLeft(CrcBit, crc ^^ (256 * byte), [b \in 1 .. 8 |-> b])

Crc16(bytes) == FoldLeft(CrcByte, 55167, bytes)

\* It is computed over the unescaped header and body.
CrcOf(body) == Crc16(<<Magic, High(Len(body)), Low(Len(body))>> \o body)

EmitEscaped(b) == IF b \in {Magic, Escape} THEN <<Escape, b ^^ EscapeMask>> ELSE <<b>>

\* <<>> stands for -1.
Encode(f) ==
  IF Len(f.payload) > MaxPayload THEN <<>>
  ELSE LET body == Body(f)
           crc == CrcOf(body)
           raw == <<High(Len(body)), Low(Len(body))>> \o body \o <<High(crc), Low(crc)>>
       IN  <<Magic>> \o FlattenSeq([i \in DOMAIN raw |-> EmitEscaped(raw[i])])

-----------------------------------------------------------------------------
(* Decoder                                                                 *)

\* `got' is what the callback has been given.
DecoderInit ==
  [state |-> "hunt", esc |-> FALSE, length |-> 0, body |-> <<>>, crcHi |-> 0, got |-> <<>>,
   ok |-> 0, crcErr |-> 0, truncated |-> 0, skipped |-> 0]

Resync(d) == [d EXCEPT !.state = "hunt", !.esc = FALSE, !.length = 0, !.body = <<>>]

\* A MAGIC on the wire starts a frame, whatever the decoder was in.
StartsOver(d) ==
  LET counted == IF d.state = "hunt" THEN d
                 ELSE [d EXCEPT !.truncated = @ + 1, !.skipped = @ + Len(d.body)]
  IN  [Resync(counted) EXCEPT !.state = "len_hi"]

Checked(d, crc) ==
  IF crc = CrcOf(d.body)
    THEN [d EXCEPT !.ok = @ + 1,
                   !.got = Append(@, Frame(d.body[1], d.body[2], SubSeq(d.body, 3, d.length)))]
    ELSE [d EXCEPT !.crcErr = @ + 1]

\* An unescaped byte inside a frame
Takes(d, b) ==
  CASE d.state = "len_hi" -> [d EXCEPT !.length = 256 * b, !.state = "len_lo"]
    [] d.state = "len_lo" ->
         LET length == d.length + b
         IN  IF length \in 2 .. MaxBody
               THEN [d EXCEPT !.length = length, !.body = <<>>, !.state = "body"]
               ELSE Resync([d EXCEPT !.truncated = @ + 1])
    [] d.state = "body" ->
         LET body == Append(d.body, b)
         IN  [d EXCEPT !.body = body,
                       !.state = IF Len(body) >= d.length THEN "crc_hi" ELSE "body"]
    [] d.state = "crc_hi" -> [d EXCEPT !.crcHi = b, !.state = "crc_lo"]
    [] d.state = "crc_lo" -> Resync(Checked(d, 256 * d.crcHi + b))

FeedByte(d, raw) ==
  IF raw = Magic THEN StartsOver(d)
  ELSE IF d.state = "hunt" THEN [d EXCEPT !.skipped = @ + 1]
  ELSE IF d.esc THEN Takes([d EXCEPT !.esc = FALSE], raw ^^ EscapeMask)
  ELSE IF raw = Escape THEN [d EXCEPT !.esc = TRUE]
  ELSE Takes(d, raw)

Feed(d, bytes) == FoldLeft(FeedByte, d, bytes)

-----------------------------------------------------------------------------
(* What is checked, over the bytes that an escape or a header makes special *)

Special == {0, 1, 124, 125, Escape, Magic}

Samples ==
  {Frame(d, c, p) : d \in {3, Magic}, c \in {0, Escape, Magic},
                    p \in {<<>>} \cup {<<b>> : b \in Special} \cup {<<Escape, b>> : b \in Special}}

Noise == UNION {[1 .. n -> {0, 2, Escape, Magic}] : n \in 0 .. 3}

\* The frame that is sent is the frame that is received, and there is no error.
ASSUME RoundTrip ==
  \A f \in Samples :
    LET d == Feed(DecoderInit, Encode(f))
    IN  d = [DecoderInit EXCEPT !.got = <<f>>, !.ok = 1, !.crcHi = d.crcHi]

\* A frame survives whatever came before it: noise, half an escape, a header that
\* promises a long body.
ASSUME Resyncs ==
  \A n \in Noise, f \in {Frame(3, Magic, <<Escape>>)} :
    LET d == Feed(DecoderInit, n \o Encode(f))
    IN  d.state = "hunt" /\ d.got = <<f>> /\ d.crcErr = 0

\* A frame that loses its tail costs itself and nothing else.
ASSUME TailLost ==
  \A f, g \in {Frame(3, Magic, <<Escape>>), Frame(1, 7, <<5, 6>>)} :
    \A k \in 1 .. Len(Encode(f)) - 1 :
      LET d == Feed(DecoderInit, SubSeq(Encode(f), 1, k) \o Encode(g))
      IN  d.got = <<g>> /\ d.truncated = 1

\* One byte that is wrong never becomes a frame that was not sent.
ASSUME WrongByte ==
  \A f \in {Frame(3, Magic, <<Escape>>), Frame(1, 7, <<5, 6>>)} :
    \A k \in 1 .. Len(Encode(f)), b \in {0, 2, 3, 128, Escape, Magic} :
      LET d == Feed(DecoderInit, [Encode(f) EXCEPT ![k] = b])
      IN  d.got \in {<<>>, <<f>>}

\* The longest body is taken, a longer one or one without dst and cnt is not, also when a
\* byte of the length is escaped.
ASSUME LengthBounds ==
  \A n \in {0, 1, 2, Escape, Magic, 256 + Magic, 512, MaxBody, MaxBody + 1, 256 * Magic, 65535} :
    LET d == Feed(DecoderInit, <<Magic>> \o EmitEscaped(High(n)) \o EmitEscaped(Low(n)))
    IN  d.state = (IF n \in 2 .. MaxBody THEN "body" ELSE "hunt")

=============================================================================

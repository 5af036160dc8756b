-------------------------- MODULE ScpiTransport_proofs --------------------------
(***************************************************************************)
(* What holds of the SCPI transport for any number of queries, any payload *)
(* length and any chunking of the stream.                                  *)
(***************************************************************************)
EXTENDS ScpiTransport, TLAPS, SequenceTheorems

-----------------------------------------------------------------------------
(* The inductive invariant.                                                *)

\* No query up to the n-th may leave bytes behind on a connection in use.
Plain(n) == \A e \in 1 .. n : kind[e] \notin {"binary", "live"}

\* The stream between the instrument and the framing code holds the whole
\* response to the pending query: its first bytes are in the buffer, the others
\* on the wire.
HoldsResponse(toks) ==
  /\ Len(buffer) + Len(wire) = Len(toks)
  /\ \A i \in 1 .. Len(buffer) : buffer[i].tok = toks[i]
  /\ \A i \in 1 .. Len(wire) : wire[i].tok = toks[Len(buffer) + i]

\* What is in the stream: nothing on a closed connection, nothing between two
\* queries as long as none may leave bytes behind, and only the pending one's
\* response, whole, if none before it may.
StreamIsOwn ==
  /\ ~usable => wire = <<>>
  /\ pending # 0 => pending = sent
  /\ pending = 0 /\ Plain(sent) => wire = <<>>
  /\ pending # 0 /\ Plain(pending - 1) =>
       /\ \A i \in 1 .. Len(buffer) : buffer[i].tx = pending
       /\ \A i \in 1 .. Len(wire) : wire[i].tx = pending
  /\ pending # 0 /\ Plain(pending) => \E toks \in Response(kind[pending]) : HoldsResponse(toks)

\* A query that was not sent has no answer.
UnsentIsEmpty == \A q \in Queries : q > sent => taken[q] = <<>>

IInv == TypeOK /\ OwnAnswers /\ StreamIsOwn /\ UnsentIsEmpty

LEMMA InitIInv == Init => IInv
<1> SUFFICES ASSUME Init PROVE IInv
  OBVIOUS
<1>1. TypeOK
  <2>1. sent \in 0 .. MaxQueries /\ pending \in 0 .. MaxQueries
    BY TransportAssumption DEF Init
  <2>2. /\ buffer \in Seq(Byte) /\ wire \in Seq(Byte)
        /\ taken \in [Queries -> Seq(Byte)]
    BY EmptySeq DEF Init
  <2>3. /\ usable \in BOOLEAN /\ partialTimer \in BOOLEAN
        /\ kind \in [Queries -> AllKinds] /\ accept \in [Queries -> BOOLEAN]
        /\ status \in [Queries -> Statuses]
    BY DEF Init, AllKinds, Statuses
  <2> QED
    BY <2>1, <2>2, <2>3 DEF TypeOK
<1>2. OwnAnswers
  <2>1. IdleIsClean
    BY TransportAssumption DEF Init, IdleIsClean, Queries
  <2>2. ShortOnlyIfAccepted
    BY DEF Init, ShortOnlyIfAccepted
  <2>3. \A q \in Queries : taken[q] = <<>>
    BY DEF Init
  <2>4. ForeignIsKnown
    BY <2>3 DEF ForeignIsKnown, OwnBytes
  <2> QED
    BY <2>1, <2>2, <2>4 DEF OwnAnswers
<1>3. StreamIsOwn /\ UnsentIsEmpty
  BY DEF Init, StreamIsOwn, UnsentIsEmpty
<1> QED
  BY <1>1, <1>2, <1>3 DEF IInv

-----------------------------------------------------------------------------
(* What the instrument answers, and what the framing code makes of it.     *)

Tokens == {"x", "LF", "#", ";"}

LEMMA OneToken ==
  ASSUME NEW t \in Tokens
  PROVE  <<t>> \in Seq(Tokens) /\ Len(<<t>>) = 1 /\ <<t>>[1] = t
OBVIOUS

\* The header's lengths are natural numbers.
LEMMA Lengths ==
  /\ PayloadLength \in Nat /\ PayloadLength >= 1
  /\ BlockLength \in Nat /\ BlockLength >= 2 /\ BlockLength = PayloadLength + 1
BY TransportAssumption DEF BlockLength

LEMMA BlockTyped ==
  ASSUME NEW b \in Block
  PROVE  b \in Seq(Tokens) /\ Len(b) = BlockLength /\ b[1] = "#"
<1>1. PICK p \in [1 .. PayloadLength -> PayloadBytes] : b = <<"#">> \o p
  BY DEF Block
<1>2. p \in [1 .. PayloadLength -> Tokens]
  BY TransportAssumption DEF Tokens
<1>3. p \in Seq(Tokens)
  BY <1>2, Lengths, SeqDef
<1>4. Len(p) = PayloadLength
  BY <1>2, <1>3, Lengths, LenProperties
<1>5. <<"#">> \in Seq(Tokens) /\ Len(<<"#">>) = 1 /\ <<"#">>[1] = "#"
  BY OneToken DEF Tokens
<1>6. /\ <<"#">> \o p \in Seq(Tokens)
      /\ Len(<<"#">> \o p) = 1 + PayloadLength
      /\ (<<"#">> \o p)[1] = <<"#">>[1]
  BY <1>3, <1>4, <1>5, Lengths, ConcatProperties
<1> QED
  BY <1>1, <1>5, <1>6, Lengths

\* What the provers need to know of a concatenation.
IsCat(r, s, t) ==
  /\ Len(r) = Len(s) + Len(t)
  /\ \A i \in 1 .. Len(s) : r[i] = s[i]
  /\ \A i \in 1 .. Len(t) : r[Len(s) + i] = t[i]

LEMMA Cat ==
  ASSUME NEW S, NEW s \in Seq(S), NEW t \in Seq(S)
  PROVE  s \o t \in Seq(S) /\ IsCat(s \o t, s, t)
<1>1. Len(s) \in Nat /\ Len(t) \in Nat
  BY LenProperties
<1>2. /\ s \o t \in Seq(S) /\ Len(s \o t) = Len(s) + Len(t)
      /\ \A i \in 1 .. Len(s) + Len(t) : (s \o t)[i] = IF i <= Len(s) THEN s[i] ELSE t[i - Len(s)]
  BY ConcatProperties
<1>3. ASSUME NEW i \in 1 .. Len(s) PROVE (s \o t)[i] = s[i]
  BY <1>1, <1>2
<1>4. ASSUME NEW i \in 1 .. Len(t) PROVE (s \o t)[Len(s) + i] = t[i]
  <2>1. Len(s) + i \in 1 .. Len(s) + Len(t) /\ ~(Len(s) + i <= Len(s)) /\ (Len(s) + i) - Len(s) = i
    BY <1>1
  <2> QED
    BY <1>2, <2>1
<1> QED
  BY <1>2, <1>3, <1>4 DEF IsCat

LEMMA Offsets ==
  /\ 1 \in 1 .. 1
  /\ 1 \in 1 .. BlockLength
  /\ BlockLength + 1 \in 1 .. BlockLength + 1
  /\ BlockLength + 1 \in 1 .. 2 * BlockLength
  /\ BlockLength + 1 \in 1 .. 2 * BlockLength + 1
  /\ BlockLength + BlockLength = 2 * BlockLength
  /\ (BlockLength + 1) + BlockLength = 2 * BlockLength + 1
  /\ (2 * BlockLength + 1) + 1 = 2 * BlockLength + 2
BY Lengths

\* Two blocks end where their framing says: the second one starts right after
\* the first or after a separator.
LEMMA TwoBlocksTokens ==
  ASSUME NEW b, Len(b) = BlockLength, NEW c, Len(c) = BlockLength, c[1] = "#", NEW s,
         \/ Len(s) = 0
         \/ Len(s) = 1 /\ s[1] \in {";", "LF"},
         NEW lf, Len(lf) = 1,
         NEW bs, IsCat(bs, b, s), NEW bsc, IsCat(bsc, bs, c), NEW toks, IsCat(toks, bsc, lf)
  PROVE  \/ /\ Len(toks) = 2 * BlockLength + 1
            /\ toks[BlockLength + 1] = "#"
         \/ /\ Len(toks) = 2 * BlockLength + 2
            /\ toks[BlockLength + 1] \in {";", "LF"}
<1>1. Len(bs) = BlockLength + Len(s) /\ \A i \in 1 .. Len(s) : bs[BlockLength + i] = s[i]
  BY DEF IsCat
<1>2. /\ Len(bsc) = Len(bs) + BlockLength
      /\ \A i \in 1 .. Len(bs) : bsc[i] = bs[i]
      /\ \A i \in 1 .. BlockLength : bsc[Len(bs) + i] = c[i]
  BY DEF IsCat
<1>3. Len(toks) = Len(bsc) + 1 /\ \A i \in 1 .. Len(bsc) : toks[i] = bsc[i]
  BY DEF IsCat
<1>4. CASE Len(s) = 0
  <2>1. Len(bs) = BlockLength /\ Len(bsc) = 2 * BlockLength /\ Len(toks) = 2 * BlockLength + 1
    BY <1>1, <1>2, <1>3, <1>4, Lengths
  <2>2. 1 \in 1 .. BlockLength /\ BlockLength + 1 \in 1 .. Len(bsc)
    BY <2>1, Offsets, Zenon
  <2>3. toks[BlockLength + 1] = "#"
    BY <1>2, <1>3, <2>1, <2>2
  <2> QED
    BY <2>1, <2>3
<1>5. CASE Len(s) = 1 /\ s[1] \in {";", "LF"}
  <2>1. /\ Len(bs) = BlockLength + 1 /\ Len(bsc) = 2 * BlockLength + 1
        /\ Len(toks) = 2 * BlockLength + 2
    <3>1. Len(bs) = BlockLength + 1
      BY <1>1, <1>5, Zenon
    <3>2. Len(bsc) = 2 * BlockLength + 1
      BY <1>2, <3>1, Offsets, Zenon
    <3>3. Len(toks) = 2 * BlockLength + 2
      BY <1>3, <3>2, Offsets, Zenon
    <3> QED
      BY <3>1, <3>2, <3>3
  <2>2. /\ 1 \in 1 .. Len(s) /\ BlockLength + 1 \in 1 .. Len(bs)
        /\ BlockLength + 1 \in 1 .. Len(bsc)
    BY <1>5, <2>1, Offsets, Zenon
  <2>3. toks[BlockLength + 1] = s[1]
    BY <1>1, <1>2, <1>3, <2>2
  <2> QED
    BY <1>5, <2>1, <2>3
<1> QED
  BY <1>4, <1>5

LEMMA BlocksTokens ==
  ASSUME NEW toks \in Response("blocks")
  PROVE  /\ toks \in Seq(Tokens)
         /\ \/ /\ Len(toks) = 2 * BlockLength + 1
               /\ toks[BlockLength + 1] = "#"
            \/ /\ Len(toks) = 2 * BlockLength + 2
               /\ toks[BlockLength + 1] \in {";", "LF"}
<1>1. toks \in Pairs
  BY DEF Response
<1>2. PICK b \in Block, s \in Separators, c \in Block : toks = TwoBlocks(b, s, c)
  BY <1>1 DEF Pairs
<1>3. /\ s \in Seq(Tokens)
      /\ \/ Len(s) = 0
         \/ Len(s) = 1 /\ s[1] \in {";", "LF"}
  BY EmptySeq, OneToken DEF Separators, Tokens
<1>4. /\ b \in Seq(Tokens) /\ Len(b) = BlockLength
      /\ c \in Seq(Tokens) /\ Len(c) = BlockLength /\ c[1] = "#"
  BY BlockTyped
<1>5. <<"LF">> \in Seq(Tokens) /\ Len(<<"LF">>) = 1
  BY OneToken DEF Tokens
<1>6. b \o s \in Seq(Tokens) /\ IsCat(b \o s, b, s)
  BY <1>3, <1>4, Cat
<1>7. b \o s \o c \in Seq(Tokens) /\ IsCat(b \o s \o c, b \o s, c)
  BY <1>4, <1>6, Cat
<1>8. toks \in Seq(Tokens) /\ IsCat(toks, b \o s \o c, <<"LF">>)
  <2>1. (b \o s \o c) \o <<"LF">> \in Seq(Tokens) /\ IsCat((b \o s \o c) \o <<"LF">>, b \o s \o c, <<"LF">>)
    BY <1>5, <1>7, Cat
  <2> QED
    BY <1>2, <2>1 DEF TwoBlocks
<1> QED
  BY <1>3, <1>4, <1>5, <1>6, <1>7, <1>8, TwoBlocksTokens

\* A response is made of tokens.
LEMMA ResponseTyped ==
  ASSUME NEW k \in AllKinds, NEW toks \in Response(k)
  PROVE  toks \in Seq(Tokens)
<1>1. CASE k = "text"
  <2>1. toks = <<"x", "LF">>
    BY <1>1 DEF Response
  <2> QED
    BY <2>1 DEF Tokens
<1>2. CASE k = "blocks"
  BY <1>2, BlocksTokens
<1>3. CASE toks \in Whole
  <2>1. PICK b \in Block, e \in BlockEndings : toks = b \o e
    BY <1>3 DEF Whole
  <2>2. e = <<>> \/ e = <<"LF">>
    BY TransportAssumption
  <2>3. e \in Seq(Tokens)
    BY <2>2, EmptySeq, OneToken DEF Tokens
  <2> QED
    BY <2>1, <2>3, BlockTyped, Cat
<1>4. CASE toks \in Truncated
  <2>1. PICK b \in Block, n \in 1 .. PayloadLength : toks = SubSeq(b, 1, n)
    BY <1>4 DEF Truncated
  <2>2. b \in Seq(Tokens) /\ Len(b) = BlockLength
    BY BlockTyped
  <2>3. \A i \in 1 .. n : i \in 1 .. Len(b)
    BY <2>2, Lengths
  <2>4. \A i \in 1 .. n : b[i] \in Tokens
    BY <2>2, <2>3, ElementOfSeq
  <2> QED
    BY <2>1, <2>4, SubSeqProperties
<1>5. \/ k = "text"
      \/ k = "blocks"
      \/ toks \in Whole
      \/ toks \in Truncated
  BY DEF Response, AllKinds
<1> QED
  BY <1>1, <1>2, <1>3, <1>4, <1>5

\* The second of two blocks starts after the first or after a separator.
LEMMA SecondBlockIs ==
  ASSUME NEW b
  PROVE  SecondBlock(b) \in {BlockLength + 1, BlockLength + 2}
BY DEF SecondBlock

\* The verdict on two blocks is one of three, and a whole pair is followed by
\* its terminator and nothing else.
LEMMA BlocksVerdictIs ==
  ASSUME NEW b \in Seq(Byte)
  PROVE  /\ BlocksVerdict(b) \in {"wait", "bad", "binary"}
         /\ BlocksVerdict(b) = "binary" =>
              Len(b) = SecondBlock(b) + BlockLength /\ Len(b) > BlockLength
<1>1. Len(b) \in Nat
  BY LenProperties
<1>2. SecondBlock(b) \in Nat
  BY Lengths, SecondBlockIs
<1> QED
  BY <1>1, <1>2, Lengths DEF BlocksVerdict

\* The blocks a caller is given are whole.
LEMMA VerdictIsWhole ==
  ASSUME NEW k \in AllKinds, NEW b \in Seq(Byte), Verdict(k, b) = "binary"
  PROVE  Len(b) >= IF k = "blocks" THEN 2 * BlockLength ELSE BlockLength
<1>1. Len(b) \in Nat
  BY LenProperties
<1>2. CASE k = "blocks"
  <2>1. BlocksVerdict(b) = "binary"
    BY <1>2 DEF Verdict
  <2>2. Len(b) = SecondBlock(b) + BlockLength
    BY <2>1, BlocksVerdictIs
  <2>3. SecondBlock(b) \in {BlockLength + 1, BlockLength + 2}
    BY SecondBlockIs
  <2> QED
    BY <1>1, <1>2, <2>2, <2>3, Lengths
<1>3. CASE k # "blocks"
  <2>1. BlockVerdict(b) = "binary"
    BY <1>3 DEF Verdict, TextVerdict
  <2>2. ~(Len(b) < BlockLength)
    BY <2>1 DEF BlockVerdict
  <2> QED
    BY <1>1, <1>3, <2>2, Lengths
<1> QED
  BY <1>2, <1>3

\* Text, and blocks, are complete with their whole response only.
LEMMA CompleteIsWhole ==
  ASSUME NEW k \in {"text", "blocks"}, NEW toks \in Response(k), NEW b \in Seq(Byte),
         Len(b) <= Len(toks), \A i \in 1 .. Len(b) : b[i].tok = toks[i],
         Verdict(k, b) \in {"text", "binary"}
  PROVE  Len(b) = Len(toks)
<1>1. Len(b) \in Nat /\ DOMAIN b = 1 .. Len(b)
  BY LenProperties
<1>2. CASE k = "text"
  <2>0. toks = <<"x", "LF">>
    BY <1>2 DEF Response
  <2>1. Len(toks) = 2 /\ toks[1] = "x"
    BY <2>0
  <2>2. Tok(b, 1) # "#"
    BY <1>1, <2>1 DEF Tok
  <2>3. TextVerdict(b) \in {"text", "binary"}
    BY <1>2, <2>2 DEF Verdict
  <2>4. Len(b) \in DOMAIN b /\ b[Len(b)].tok = "LF"
    BY <2>3 DEF TextVerdict, LineFeeds
  <2> QED
    BY <1>1, <2>1, <2>4
<1>3. CASE k = "blocks"
  <2>1. Len(toks) \in Nat
    BY <1>3, BlocksTokens, LenProperties
  <2>2. BlocksVerdict(b) = "binary"
    BY <1>3, BlocksVerdictIs DEF Verdict
  <2>3. Len(b) = SecondBlock(b) + BlockLength /\ Len(b) > BlockLength
    BY <2>2, BlocksVerdictIs
  <2>4. Tok(b, BlockLength + 1) = toks[BlockLength + 1]
    BY <1>1, <2>1, <2>3, Lengths DEF Tok
  <2>5. \/ Len(toks) = 2 * BlockLength + 1 /\ SecondBlock(b) = BlockLength + 1
        \/ Len(toks) = 2 * BlockLength + 2 /\ SecondBlock(b) = BlockLength + 2
    BY <1>3, <2>4, BlocksTokens DEF SecondBlock
  <2> QED
    BY <1>1, <2>1, <2>3, <2>5, Lengths
<1> QED
  BY <1>2, <1>3

-----------------------------------------------------------------------------
(* The steps.                                                              *)

\* Who waits: the pending query, the last one issued.
LEMMA Waiting ==
  ASSUME IInv
  PROVE  /\ pending # 0 =>
              /\ usable /\ pending \in Queries /\ pending = sent /\ pending \in Nat
              /\ kind[pending] \in AllKinds
         /\ sent \in Nat /\ MaxQueries \in Nat
         /\ Len(wire) \in Nat /\ Len(buffer) \in Nat
<1>1. MaxQueries \in Nat
  BY TransportAssumption
<1>2. Len(wire) \in Nat /\ Len(buffer) \in Nat
  BY LenProperties DEF IInv, TypeOK
<1>3. pending # 0 => pending \in Queries
  BY <1>1 DEF IInv, TypeOK, Queries
<1> QED
  BY <1>1, <1>2, <1>3 DEF IInv, TypeOK, StreamIsOwn, OwnAnswers, IdleIsClean

\* The bytes of a response carry their query's number.
LEMMA BytesAre ==
  ASSUME NEW q \in Queries, NEW toks \in Seq(Tokens)
  PROVE  /\ Bytes(q, toks) \in Seq(Byte) /\ Len(Bytes(q, toks)) = Len(toks)
         /\ \A i \in 1 .. Len(toks) : /\ Bytes(q, toks)[i].tx = q
                                      /\ Bytes(q, toks)[i].tok = toks[i]
<1>1. Len(toks) \in Nat /\ DOMAIN toks = 1 .. Len(toks) /\ \A i \in 1 .. Len(toks) : toks[i] \in Tokens
  BY LenProperties, ElementOfSeq
<1>2. \A i \in 1 .. Len(toks) : [tx |-> q, tok |-> toks[i]] \in Byte
  BY <1>1 DEF Byte, Tokens
<1>3. Bytes(q, toks) \in [1 .. Len(toks) -> Byte]
  BY <1>1, <1>2 DEF Bytes
<1>4. Bytes(q, toks) \in Seq(Byte)
  BY <1>1, <1>3, SeqDef
<1>5. Len(Bytes(q, toks)) = Len(toks)
  BY <1>1, <1>3, <1>4, LenProperties
<1> QED
  BY <1>1, <1>4, <1>5 DEF Bytes

\* A chunk moves from the front of the wire to the end of the buffer.
LEMMA Chunk ==
  ASSUME TypeOK, NEW n \in 1 .. Len(wire)
  PROVE  /\ buffer \o SubSeq(wire, 1, n) \in Seq(Byte)
         /\ Len(buffer \o SubSeq(wire, 1, n)) = Len(buffer) + n
         /\ \A i \in 1 .. Len(buffer) : (buffer \o SubSeq(wire, 1, n))[i] = buffer[i]
         /\ \A i \in 1 .. n : (buffer \o SubSeq(wire, 1, n))[Len(buffer) + i] = wire[i]
         /\ SubSeq(wire, n + 1, Len(wire)) \in Seq(Byte)
         /\ Len(SubSeq(wire, n + 1, Len(wire))) = Len(wire) - n
         /\ \A i \in 1 .. Len(wire) - n : SubSeq(wire, n + 1, Len(wire))[i] = wire[n + i]
<1>1. buffer \in Seq(Byte) /\ wire \in Seq(Byte)
  BY DEF TypeOK
<1>2. Len(wire) \in Nat /\ \A i \in 1 .. Len(wire) : wire[i] \in Byte
  BY <1>1, LenProperties, ElementOfSeq
<1>3. n \in Nat /\ n >= 1 /\ n <= Len(wire)
  BY <1>2
<1> DEFINE front == SubSeq(wire, 1, n)
<1> DEFINE rest == SubSeq(wire, n + 1, Len(wire))
<1>4. front \in Seq(Byte) /\ Len(front) = n /\ \A i \in 1 .. n : front[i] = wire[i]
  <2>1. \A i \in 1 .. n : wire[i] \in Byte
    BY <1>2, <1>3
  <2>2. /\ front \in Seq(Byte) /\ Len(front) = (IF 1 <= n THEN n - 1 + 1 ELSE 0)
        /\ \A i \in 1 .. n - 1 + 1 : front[i] = wire[1 + i - 1]
    BY <1>3, <2>1, SubSeqProperties
  <2>3. n - 1 + 1 = n /\ \A i \in 1 .. n : 1 + i - 1 = i
    BY <1>3
  <2> HIDE DEF front
  <2> QED
    BY <1>3, <2>2, <2>3
<1>5. /\ rest \in Seq(Byte) /\ Len(rest) = Len(wire) - n
      /\ \A i \in 1 .. Len(wire) - n : rest[i] = wire[n + i]
  <2>1. \A i \in n + 1 .. Len(wire) : wire[i] \in Byte
    BY <1>2, <1>3
  <2>2. /\ rest \in Seq(Byte)
        /\ Len(rest) = (IF n + 1 <= Len(wire) THEN Len(wire) - (n + 1) + 1 ELSE 0)
        /\ \A i \in 1 .. Len(wire) - (n + 1) + 1 : rest[i] = wire[(n + 1) + i - 1]
    BY <1>2, <1>3, <2>1, SubSeqProperties
  <2>3. ASSUME ~(n + 1 <= Len(wire)) PROVE Len(wire) - n = 0
    BY <1>2, <1>3, <2>3
  <2>4. \A i \in 1 .. Len(wire) - n : (n + 1) + i - 1 = n + i
    BY <1>2, <1>3
  <2>5. Len(wire) - (n + 1) + 1 = Len(wire) - n
    BY <1>2, <1>3
  <2> HIDE DEF rest
  <2> QED
    BY <2>2, <2>3, <2>4, <2>5
<1> HIDE DEF front, rest
<1>6. buffer \o front \in Seq(Byte) /\ IsCat(buffer \o front, buffer, front)
  BY <1>1, <1>4, Cat
<1>7. /\ Len(buffer \o front) = Len(buffer) + n
      /\ \A i \in 1 .. Len(buffer) : (buffer \o front)[i] = buffer[i]
      /\ \A i \in 1 .. n : (buffer \o front)[Len(buffer) + i] = wire[i]
  BY <1>4, <1>6 DEF IsCat
<1> QED
  BY <1>5, <1>6, <1>7 DEF front, rest

\* The connection is given up and the waiting query rejected: nothing is left.
LEMMA InvalidateStep ==
  ASSUME IInv, Invalidate, UNCHANGED <<sent, kind, accept>>
  PROVE  IInv'
<1>1. TypeOK'
  <2>1. status' \in [Queries -> Statuses]
    BY DEF IInv, TypeOK, Invalidate, Statuses
  <2>2. pending' \in 0 .. MaxQueries
    BY TransportAssumption DEF Invalidate
  <2>3. buffer' \in Seq(Byte) /\ wire' \in Seq(Byte)
    BY EmptySeq DEF Invalidate
  <2> QED
    BY <2>1, <2>2, <2>3 DEF IInv, TypeOK, Invalidate
<1>2. \A q \in Queries : status'[q] = IF q = pending THEN "failed" ELSE status[q]
  BY DEF Invalidate
<1>3. IdleIsClean'
  <2>1. \A q \in Queries : status'[q] # "waiting"
    BY <1>2 DEF IInv, OwnAnswers, IdleIsClean
  <2>2. \A q \in Queries : q # 0
    BY TransportAssumption DEF Queries
  <2> QED
    BY <2>1, <2>2 DEF IdleIsClean, Invalidate
<1>4. ShortOnlyIfAccepted'
  BY <1>2 DEF IInv, OwnAnswers, ShortOnlyIfAccepted, Invalidate
<1>5. ForeignIsKnown' /\ UnsentIsEmpty'
  BY DEF IInv, OwnAnswers, ForeignIsKnown, OwnBytes, UnsentIsEmpty, Invalidate
<1>6. StreamIsOwn'
  BY DEF StreamIsOwn, Invalidate
<1> QED
  BY <1>1, <1>3, <1>4, <1>5, <1>6 DEF IInv, OwnAnswers

\* A query that is issued finds an empty receive side.
LEMMA QueryStep ==
  ASSUME IInv, NEW k \in AllKinds, NEW a \in BOOLEAN, Query(k, a)
  PROVE  IInv'
<1> DEFINE q == sent + 1
<1>1. /\ q \in Queries /\ q \in Nat /\ q # 0 /\ q > sent /\ pending = 0 /\ sent' = q
      /\ q - 1 = sent
  BY Waiting DEF Query, Queries
<1>2. /\ kind' = [kind EXCEPT ![q] = k] /\ accept' = [accept EXCEPT ![q] = a]
      /\ UNCHANGED <<usable, buffer, partialTimer, taken>>
  BY DEF Query
<1>3. /\ kind' \in [Queries -> AllKinds] /\ accept' \in [Queries -> BOOLEAN]
      /\ sent' \in 0 .. MaxQueries
  BY <1>1, <1>2, Waiting DEF IInv, TypeOK, Query
<1>4. kind'[q] = k /\ \A p \in Queries : p # q => kind'[p] = kind[p] /\ accept'[p] = accept[p]
  BY <1>1, <1>2 DEF IInv, TypeOK
<1>5. buffer = <<>> /\ ~partialTimer /\ \A p \in Queries : p # 0 /\ status[p] # "waiting"
  <2>1. \A p \in Queries : p # 0
    BY TransportAssumption DEF Queries
  <2> QED
    BY <1>1, <2>1 DEF IInv, OwnAnswers, IdleIsClean
<1>6. \E st \in {"waiting", "failed"} : status' = [status EXCEPT ![q] = st]
  BY <1>1 DEF Query
<1>7. /\ status' \in [Queries -> Statuses]
      /\ \A p \in Queries : p # q => status'[p] = status[p]
      /\ status'[q] \in {"waiting", "failed"}
  BY <1>1, <1>6 DEF IInv, TypeOK, Statuses
<1>8. ShortOnlyIfAccepted'
  <2> SUFFICES ASSUME NEW p \in Queries, status'[p] = "binary", ~accept'[p]
               PROVE  Len(taken'[p]) >= IF kind'[p] = "blocks" THEN 2 * BlockLength ELSE BlockLength
    BY DEF ShortOnlyIfAccepted, BlockLength
  <2>1. p # q
    BY <1>7
  <2>2. status[p] = "binary" /\ ~accept[p] /\ kind'[p] = kind[p] /\ taken'[p] = taken[p]
    BY <1>2, <1>4, <1>7, <2>1
  <2> HIDE DEF q
  <2> QED
    BY <2>2 DEF IInv, OwnAnswers, ShortOnlyIfAccepted
<1>9. UnsentIsEmpty'
  BY <1>1, <1>2, Waiting DEF IInv, UnsentIsEmpty, Queries
<1>10. ForeignIsKnown'
  <2> SUFFICES ASSUME NEW p \in Queries
               PROVE  OwnBytes(p)' \/ \E e \in 1 .. p - 1 : kind'[e] \in {"binary", "live"}
    BY DEF ForeignIsKnown
  <2>1. CASE OwnBytes(p)
    BY <1>2, <2>1 DEF OwnBytes
  <2>2. CASE \E e \in 1 .. p - 1 : kind[e] \in {"binary", "live"}
    <3>1. PICK e \in 1 .. p - 1 : kind[e] \in {"binary", "live"}
      BY <2>2
    <3>2. CASE p > sent
      <4>1. taken[p] = <<>>
        BY <3>2 DEF IInv, UnsentIsEmpty
      <4>2. DOMAIN taken[p] = {}
        BY <4>1
      <4> QED
        BY <1>2, <4>2 DEF OwnBytes
    <3>3. CASE p <= sent
      <4>1. e \in Queries /\ e # q
        BY <1>1, <3>3, Waiting DEF Queries
      <4> QED
        BY <1>4, <3>1, <4>1
    <3> QED
      BY <3>2, <3>3, Waiting DEF Queries
  <2> QED
    BY <2>1, <2>2 DEF IInv, OwnAnswers, ForeignIsKnown
<1>11. \A n \in Nat : n <= sent /\ Plain(n)' => Plain(n)
  BY <1>1, <1>4, Waiting DEF Plain, Queries
<1>12. CASE usable
  <2>1. /\ pending' = q /\ status'[q] = "waiting"
        /\ \E toks \in Response(k) : wire' = wire \o Bytes(q, toks)
    BY <1>1, <1>12 DEF Query, IInv, TypeOK
  <2>2. PICK toks \in Response(k) : wire' = wire \o Bytes(q, toks)
    BY <2>1
  <2>3. toks \in Seq(Tokens)
    BY ResponseTyped
  <2>4. wire \in Seq(Byte) /\ Bytes(q, toks) \in Seq(Byte)
    BY <1>1, <2>3, BytesAre DEF IInv, TypeOK
  <2>5. wire' \in Seq(Byte)
    BY <2>2, <2>4, Cat
  <2>6. TypeOK'
    BY <1>1, <1>2, <1>3, <1>7, <2>1, <2>5 DEF IInv, TypeOK, Queries
  <2>7. IdleIsClean'
    BY <1>1, <1>2, <1>5, <1>7, <1>12, <2>1 DEF IdleIsClean
  <2>8. ASSUME Plain(sent) PROVE wire' = Bytes(q, toks)
    <3>1. wire = <<>>
      BY <1>1, <2>8 DEF IInv, StreamIsOwn
    <3> QED
      BY <2>2, <2>4, <3>1, ConcatEmptySeq
  <2>9. Plain(pending - 1)' => Plain(sent)
    <3>2. \A n \in Nat : n <= sent /\ (\A e \in 1 .. n : kind'[e] \notin {"binary", "live"}) => Plain(n)
      BY <1>11 DEF Plain
    <3>1. Plain(pending - 1)' => \A e \in 1 .. sent : kind'[e] \notin {"binary", "live"}
      BY <1>1, <2>1 DEF Plain
    <3> QED
      BY <3>1, <3>2, Waiting
  <2>10. Plain(pending)' => Plain(pending - 1)'
    BY <1>1, <2>1, Waiting DEF Plain
  <2>11. ASSUME Plain(sent)
         PROVE  /\ \A i \in 1 .. Len(buffer') : buffer'[i].tx = pending'
                /\ \A i \in 1 .. Len(wire') : wire'[i].tx = pending'
    <3>1. Len(buffer') = 0
      BY <1>2, <1>5, EmptySeq
    <3>2. Len(wire') = Len(toks) /\ \A i \in 1 .. Len(toks) : wire'[i].tx = q
      BY <1>1, <2>3, <2>8, <2>11, BytesAre
    <3> HIDE DEF q
    <3> QED
      BY <2>1, <3>1, <3>2
  <2>12. ASSUME Plain(sent) PROVE \E t \in Response(kind'[pending']) : HoldsResponse(t)'
    <3>1. Len(buffer') = 0
      BY <1>2, <1>5, EmptySeq
    <3>2. Len(wire') = Len(toks) /\ \A i \in 1 .. Len(toks) : wire'[i].tok = toks[i]
      BY <1>1, <2>3, <2>8, <2>12, BytesAre
    <3>3. Len(toks) \in Nat
      BY <2>3, LenProperties
    <3>4. HoldsResponse(toks)'
      BY <3>1, <3>2, <3>3 DEF HoldsResponse
    <3> QED
      BY <1>4, <2>1, <3>4
  <2>13. StreamIsOwn'
    BY <1>1, <1>2, <1>12, <2>1, <2>9, <2>10, <2>11, <2>12 DEF StreamIsOwn
  <2> QED
    BY <1>8, <1>9, <1>10, <2>6, <2>7, <2>13 DEF IInv, OwnAnswers
<1>13. CASE ~usable
  <2>1. UNCHANGED <<pending, wire>> /\ status'[q] = "failed"
    BY <1>1, <1>13 DEF Query, IInv, TypeOK
  <2>2. TypeOK'
    BY <1>2, <1>3, <1>7, <2>1 DEF IInv, TypeOK
  <2>3. IdleIsClean'
    <3>1. \A p \in Queries : p # 0 /\ status'[p] # "waiting"
      BY <1>5, <1>7, <2>1
    <3> HIDE DEF q
    <3> QED
      BY <1>1, <1>2, <1>5, <2>1, <3>1 DEF IdleIsClean
  <2>4. StreamIsOwn'
    BY <1>1, <1>2, <1>13, <2>1 DEF IInv, StreamIsOwn
  <2> QED
    BY <1>8, <1>9, <1>10, <2>2, <2>3, <2>4 DEF IInv, OwnAnswers
<1> QED
  BY <1>12, <1>13

\* A settled query leaves a buffer and a timer that are clean, whoever asks next.
LEMMA SettleStep ==
  ASSUME IInv, pending # 0, NEW outcome \in {"text", "binary", "failed"}, NEW bytes \in Seq(Byte),
         Settle(outcome, bytes), partialTimer' = FALSE, UNCHANGED <<sent, kind, accept>>,
         wire' \in Seq(Byte), ~usable => wire' = <<>>, Plain(sent) => wire' = <<>>,
         outcome = "binary" /\ ~accept[pending] =>
           Len(bytes) >= IF kind[pending] = "blocks" THEN 2 * BlockLength ELSE BlockLength,
         Plain(pending - 1) => \A i \in DOMAIN bytes : bytes[i].tx = pending
  PROVE  IInv'
<1>1. pending \in Queries /\ pending = sent /\ pending \in Nat /\ sent \in Nat
  BY Waiting
<1>2. /\ status' = [status EXCEPT ![pending] = outcome]
      /\ taken' = [taken EXCEPT ![pending] = bytes]
      /\ pending' = 0 /\ buffer' = <<>> /\ usable' = usable
  BY DEF Settle
<1>3. /\ status'[pending] = outcome /\ taken'[pending] = bytes
      /\ \A q \in Queries : q # pending => status'[q] = status[q] /\ taken'[q] = taken[q]
  BY <1>1, <1>2 DEF IInv, TypeOK
<1>4. TypeOK'
  <2>1. status' \in [Queries -> Statuses] /\ taken' \in [Queries -> Seq(Byte)]
    BY <1>2 DEF IInv, TypeOK, Statuses
  <2>2. buffer' \in Seq(Byte) /\ pending' \in 0 .. MaxQueries
    BY <1>2, EmptySeq, Waiting
  <2> QED
    BY <1>2, <2>1, <2>2 DEF IInv, TypeOK
<1>5. IdleIsClean'
  <2>1. \A q \in Queries : q # 0
    BY TransportAssumption DEF Queries
  <2>2. \A q \in Queries : status'[q] # "waiting"
    BY <1>3 DEF IInv, OwnAnswers, IdleIsClean
  <2> QED
    BY <1>2, <2>1, <2>2 DEF IdleIsClean
<1>6. ShortOnlyIfAccepted'
  <2> SUFFICES ASSUME NEW q \in Queries, status'[q] = "binary", ~accept[q]
               PROVE  Len(taken'[q]) >= IF kind[q] = "blocks" THEN 2 * BlockLength ELSE BlockLength
    BY DEF ShortOnlyIfAccepted, BlockLength
  <2>1. CASE q = pending
    BY <1>3, <2>1
  <2>2. CASE q # pending
    <3>1. status[q] = "binary" /\ taken'[q] = taken[q]
      BY <1>3, <2>2
    <3> QED
      BY <3>1 DEF IInv, OwnAnswers, ShortOnlyIfAccepted
  <2> QED
    BY <2>1, <2>2
<1>7. ForeignIsKnown'
  <2> SUFFICES ASSUME NEW q \in Queries
               PROVE  OwnBytes(q)' \/ \E e \in 1 .. q - 1 : kind[e] \in {"binary", "live"}
    BY DEF ForeignIsKnown
  <2>1. CASE q = pending
    BY <1>3, <2>1 DEF Plain, OwnBytes
  <2>2. CASE q # pending
    <3>1. OwnBytes(q)' <=> OwnBytes(q)
      BY <1>3, <2>2 DEF OwnBytes
    <3> QED
      BY <3>1 DEF IInv, OwnAnswers, ForeignIsKnown
  <2> QED
    BY <2>1, <2>2
<1>8. StreamIsOwn'
  <2>1. Plain(sent)' <=> Plain(sent)
    BY DEF Plain
  <2> QED
    BY <1>2, <2>1 DEF StreamIsOwn
<1>9. UnsentIsEmpty'
  BY <1>1, <1>3 DEF IInv, UnsentIsEmpty, Queries
<1> QED
  BY <1>4, <1>5, <1>6, <1>7, <1>8, <1>9 DEF IInv, OwnAnswers

\* The idle timer settles a live read, after which Plain promises nothing.
LEMMA RecoveryStep ==
  ASSUME IInv, PartialRecovery
  PROVE  IInv'
<1>1. partialTimer /\ pending # 0 /\ kind[pending] = "live"
  BY DEF PartialRecovery, IInv, OwnAnswers, IdleIsClean
<1>2. pending \in Queries /\ pending = sent /\ pending \in Nat /\ usable
  BY <1>1, Waiting
<1>3. pending \in 1 .. sent
  BY <1>2 DEF Queries
<1>4. ~Plain(sent)
  BY <1>1, <1>3 DEF Plain
<1>5. partialTimer' = FALSE /\ UNCHANGED <<wire, sent, kind, accept>>
  BY DEF PartialRecovery
<1>6. buffer \in Seq(Byte) /\ wire' \in Seq(Byte)
  BY <1>5 DEF IInv, TypeOK
<1>7. CASE accept[pending]
  <2>1. Settle("binary", buffer)
    BY <1>7 DEF PartialRecovery
  <2>2. Plain(pending - 1) => \A i \in DOMAIN buffer : buffer[i].tx = pending
    BY <1>1, <1>6, LenProperties DEF IInv, StreamIsOwn
  <2> QED
    BY <1>1, <1>2, <1>4, <1>5, <1>6, <1>7, <2>1, <2>2, SettleStep
<1>8. CASE ~accept[pending]
  <2>1. Settle("failed", <<>>)
    BY <1>8 DEF PartialRecovery
  <2>2. <<>> \in Seq(Byte) /\ DOMAIN <<>> = {}
    BY EmptySeq
  <2> QED
    BY <1>1, <1>2, <1>4, <1>5, <1>6, <2>1, <2>2, SettleStep
<1> QED
  BY <1>7, <1>8

\* The framing code keeps the stream's bytes in their order, takes a response
\* only when it is whole and gives the connection up otherwise.
LEMMA OnDataStep ==
  ASSUME IInv, OnData
  PROVE  IInv'
<1>1. PICK n \in 1 .. Len(wire) :
        LET b    == buffer \o SubSeq(wire, 1, n)
            v    == IF pending = 0 THEN "bad" ELSE Verdict(kind[pending], b)
            rest == SubSeq(wire, n + 1, Len(wire))
        IN  \/ /\ v = "wait"
               /\ buffer' = b
               /\ wire' = rest
               /\ partialTimer' = Recoverable(b)
               /\ UNCHANGED <<usable, pending, status, taken>>
            \/ /\ v \in {"text", "binary"}
               /\ wire' = rest
               /\ Complete(v, b)
            \/ /\ v = "bad"
               /\ Invalidate
  BY DEF OnData
<1> DEFINE b == buffer \o SubSeq(wire, 1, n)
<1> DEFINE rest == SubSeq(wire, n + 1, Len(wire))
<1>2. UNCHANGED <<sent, kind, accept>> /\ usable
  BY DEF OnData
<1>3. /\ b \in Seq(Byte) /\ Len(b) = Len(buffer) + n
      /\ \A i \in 1 .. Len(buffer) : b[i] = buffer[i]
      /\ \A i \in 1 .. n : b[Len(buffer) + i] = wire[i]
      /\ rest \in Seq(Byte) /\ Len(rest) = Len(wire) - n
      /\ \A i \in 1 .. Len(wire) - n : rest[i] = wire[n + i]
  BY Chunk DEF IInv
<1>4. \/ Invalidate
      \/ /\ pending # 0 /\ Verdict(kind[pending], b) = "wait"
         /\ buffer' = b /\ wire' = rest /\ partialTimer' = Recoverable(b)
         /\ UNCHANGED <<usable, pending, status, taken>>
      \/ /\ pending # 0 /\ Verdict(kind[pending], b) \in {"text", "binary"}
         /\ wire' = rest /\ Complete(Verdict(kind[pending], b), b)
  BY <1>1
<1> HIDE DEF b, rest
<1>5. Len(buffer) \in Nat /\ Len(wire) \in Nat /\ n \in Nat /\ n >= 1 /\ n <= Len(wire)
  BY Waiting
<1>6. CASE Invalidate
  BY <1>2, <1>6, InvalidateStep
<1> SUFFICES ASSUME pending # 0 PROVE IInv'
  BY <1>4, <1>6
<1>7. pending \in Queries /\ pending = sent /\ pending \in Nat /\ kind[pending] \in AllKinds
  BY Waiting
<1>8. DOMAIN b = 1 .. Len(b) /\ Len(b) \in Nat /\ DOMAIN rest = 1 .. Len(rest)
  BY <1>3, LenProperties
<1>9. ASSUME NEW i \in 1 .. Len(b)
      PROVE  \/ i \in 1 .. Len(buffer) /\ b[i] = buffer[i]
             \/ \E j \in 1 .. n : i = Len(buffer) + j /\ b[i] = wire[j]
  <2>1. CASE i <= Len(buffer)
    BY <1>3, <1>5, <1>8, <2>1
  <2>2. CASE i > Len(buffer)
    <3>1. i - Len(buffer) \in 1 .. n /\ Len(buffer) + (i - Len(buffer)) = i
      BY <1>3, <1>5, <1>8, <2>2
    <3> QED
      BY <1>3, <3>1
  <2> QED
    BY <1>5, <1>8, <2>1, <2>2
<1>10. ASSUME Plain(pending - 1)
       PROVE  /\ \A i \in 1 .. Len(b) : b[i].tx = pending
              /\ \A i \in 1 .. Len(rest) : rest[i].tx = pending
  <2>1. /\ \A i \in 1 .. Len(buffer) : buffer[i].tx = pending
        /\ \A i \in 1 .. Len(wire) : wire[i].tx = pending
    BY <1>10 DEF IInv, StreamIsOwn
  <2>2. \A j \in 1 .. n : j \in 1 .. Len(wire)
    BY <1>5
  <2>3. \A i \in 1 .. Len(rest) : n + i \in 1 .. Len(wire)
    BY <1>3, <1>5
  <2>4. \A i \in 1 .. Len(b) : b[i].tx = pending
    BY <1>9, <2>1, <2>2
  <2> QED
    BY <1>3, <2>1, <2>3, <2>4
<1>11. ASSUME Plain(pending)
       PROVE  \E toks \in Response(kind[pending]) :
                /\ toks \in Seq(Tokens)
                /\ Len(b) + Len(rest) = Len(toks)
                /\ \A i \in 1 .. Len(b) : b[i].tok = toks[i]
                /\ \A i \in 1 .. Len(rest) : rest[i].tok = toks[Len(b) + i]
  <2>1. PICK toks \in Response(kind[pending]) : HoldsResponse(toks)
    BY <1>11 DEF IInv, StreamIsOwn
  <2>2. /\ Len(buffer) + Len(wire) = Len(toks)
        /\ \A i \in 1 .. Len(buffer) : buffer[i].tok = toks[i]
        /\ \A i \in 1 .. Len(wire) : wire[i].tok = toks[Len(buffer) + i]
    BY <2>1 DEF HoldsResponse
  <2>3. Len(b) + Len(rest) = Len(toks)
    <3>1. (Len(buffer) + n) + (Len(wire) - n) = Len(buffer) + Len(wire)
      BY <1>5
    <3> QED
      BY <1>3, <2>2, <3>1, Zenon
  <2>4. \A j \in 1 .. n : j \in 1 .. Len(wire)
    BY <1>5
  <2>5. \A i \in 1 .. Len(b) : b[i].tok = toks[i]
    BY <1>9, <2>2, <2>4
  <2>6. ASSUME NEW i \in 1 .. Len(rest) PROVE rest[i].tok = toks[Len(b) + i]
    <3>1. n + i \in 1 .. Len(wire) /\ Len(buffer) + (n + i) = Len(b) + i /\ i \in 1 .. Len(wire) - n
      BY <1>3, <1>5
    <3> QED
      BY <1>3, <2>2, <3>1
  <2> QED
    BY <1>7, <2>3, <2>5, <2>6, ResponseTyped
<1>12. CASE /\ Verdict(kind[pending], b) = "wait"
            /\ buffer' = b /\ wire' = rest /\ partialTimer' = Recoverable(b)
            /\ UNCHANGED <<usable, pending, status, taken>>
  <2>1. TypeOK'
    BY <1>2, <1>3, <1>12 DEF IInv, TypeOK, Recoverable
  <2>2. IdleIsClean'
    <3>1. Recoverable(b) => kind[pending] = "live" /\ Tok(b, 1) = "#" /\ Len(b) > 1 /\ Len(b) < BlockLength
      BY DEF Recoverable
    <3>2. Recoverable(b) => Len(b) \in 2 .. PayloadLength
      BY <1>8, <3>1, Lengths
    <3>3. pending' # 0 /\ usable' /\ \A q \in Queries : status'[q] = "waiting" <=> q = pending'
      BY <1>2, <1>12 DEF IInv, OwnAnswers, IdleIsClean
    <3>4. partialTimer' =>
            kind'[pending'] = "live" /\ Tok(buffer', 1) = "#" /\ Len(buffer') \in 2 .. PayloadLength
      BY <1>2, <1>12, <3>1, <3>2
    <3> QED
      BY <3>3, <3>4 DEF IdleIsClean, Tok
  <2>3. ShortOnlyIfAccepted' /\ ForeignIsKnown' /\ UnsentIsEmpty'
    BY <1>2, <1>12 DEF IInv, OwnAnswers, ShortOnlyIfAccepted, ForeignIsKnown, OwnBytes, UnsentIsEmpty
  <2>4. StreamIsOwn'
    <3>1. (Plain(pending)' <=> Plain(pending)) /\ (Plain(pending - 1)' <=> Plain(pending - 1))
      BY <1>2, <1>12 DEF Plain
    <3>2. Plain(pending)' => \E toks \in Response(kind[pending]) : HoldsResponse(toks)'
      BY <1>11, <1>12, <3>1 DEF HoldsResponse
    <3>3. Plain(pending - 1)' =>
            /\ \A i \in 1 .. Len(buffer') : buffer'[i].tx = pending'
            /\ \A i \in 1 .. Len(wire') : wire'[i].tx = pending'
      BY <1>10, <1>12, <3>1
    <3> QED
      BY <1>2, <1>7, <1>12, <3>2, <3>3 DEF StreamIsOwn
  <2> QED
    BY <2>1, <2>2, <2>3, <2>4 DEF IInv, OwnAnswers
<1>13. CASE /\ Verdict(kind[pending], b) \in {"text", "binary"}
            /\ wire' = rest /\ Complete(Verdict(kind[pending], b), b)
  <2>1. Settle(Verdict(kind[pending], b), b) /\ partialTimer' = FALSE
    BY <1>13 DEF Complete
  <2>2. Plain(sent) => wire' = <<>>
    <3> SUFFICES ASSUME Plain(pending) PROVE rest = <<>>
      BY <1>7, <1>13
    <3>1. PICK toks \in Response(kind[pending]) :
            /\ toks \in Seq(Tokens)
            /\ Len(b) + Len(rest) = Len(toks)
            /\ \A i \in 1 .. Len(b) : b[i].tok = toks[i]
      BY <1>11
    <3>2. Len(rest) \in Nat
      BY <1>3, LenProperties
    <3>3. kind[pending] \in {"text", "blocks"}
      <4>1. pending \in 1 .. pending
        BY <1>7 DEF Queries
      <4> QED
        BY <1>7, <4>1 DEF Plain, AllKinds
    <3>4. Len(b) <= Len(toks)
      BY <1>8, <3>1, <3>2
    <3>5. Len(b) = Len(toks)
      BY <1>3, <1>13, <3>1, <3>3, <3>4, CompleteIsWhole
    <3>6. Len(rest) = 0
      BY <1>8, <3>1, <3>2, <3>5
    <3> QED
      BY <1>3, <3>6, EmptySeq
  <2>3. Verdict(kind[pending], b) = "binary" =>
          Len(b) >= IF kind[pending] = "blocks" THEN 2 * BlockLength ELSE BlockLength
    BY <1>3, <1>7, VerdictIsWhole
  <2>4. Plain(pending - 1) => \A i \in DOMAIN b : b[i].tx = pending
    BY <1>8, <1>10
  <2>5. wire' \in Seq(Byte)
    BY <1>3, <1>13
  <2>6. Verdict(kind[pending], b) \in {"text", "binary", "failed"}
    BY <1>13
  <2> QED
    BY <1>2, <1>3, <2>1, <2>2, <2>3, <2>4, <2>5, <2>6, SettleStep
<1> QED
  BY <1>4, <1>6, <1>12, <1>13

LEMMA Invariance == Spec => []IInv
<1>1. ASSUME IInv, [Next]_vars PROVE IInv'
  <2>1. CASE \E k \in Kinds : \E a \in IF k = "live" THEN BOOLEAN ELSE {FALSE} : Query(k, a)
    <3>1. PICK k \in Kinds : \E a \in IF k = "live" THEN BOOLEAN ELSE {FALSE} : Query(k, a)
      BY <2>1
    <3>2. PICK a \in BOOLEAN : Query(k, a)
      BY <3>1
    <3> QED
      BY <1>1, <3>2, QueryStep, TransportAssumption
  <2>2. CASE OnData
    BY <1>1, <2>2, OnDataStep
  <2>3. CASE PartialRecovery
    BY <1>1, <2>3, RecoveryStep
  <2>4. CASE ResponseTimeout \/ SocketLost
    BY <1>1, <2>4, InvalidateStep DEF ResponseTimeout, SocketLost
  <2>5. CASE UNCHANGED vars
    <3>1. TypeOK' /\ OwnAnswers'
      BY <1>1, <2>5 DEF vars, IInv, TypeOK, OwnAnswers, IdleIsClean, ShortOnlyIfAccepted,
           ForeignIsKnown, OwnBytes, Tok
    <3>2. StreamIsOwn' /\ UnsentIsEmpty'
      BY <1>1, <2>5 DEF vars, IInv, StreamIsOwn, UnsentIsEmpty, HoldsResponse, Plain
    <3> QED
      BY <3>1, <3>2 DEF IInv
  <2> QED
    BY <1>1, <2>1, <2>2, <2>3, <2>4, <2>5 DEF Next
<1> QED
  BY <1>1, InitIInv, PTL DEF Spec

-----------------------------------------------------------------------------
(* The theorems.                                                           *)

\* The framing code never gets outside its types: no index of a chunk, a buffer
\* or a response is out of range, however the stream is cut.
THEOREM TypeCorrect == Spec => []TypeOK
BY Invariance, PTL DEF IInv

\* Between transactions the receive side is clean; a caller that did not ask for
\* short blocks gets the declared payload or an error; and until a query of a
\* kind that may leave bytes behind was issued, every answer is made of the
\* query's own bytes (onData, tryParseResponse, invalidate).
THEOREM AnswersAreOwn == Spec => []OwnAnswers
BY Invariance, PTL DEF IInv
=============================================================================

---------------------------- MODULE ScpiTransport ----------------------------
(***************************************************************************)
(* The SCPI socket transport: one query at a time, its response framed out *)
(* of a TCP byte stream (src/server/scpi/scpi-transport.ts).               *)
(*                                                                         *)
(* A byte is a record: the query whose response it belongs to (tx) and     *)
(* what the framing code can tell about it (tok).  Digits and length       *)
(* of a block header are one token "#"; "LF" stands for LF or CR LF.       *)
(* The instrument is external: a query puts its whole response on the      *)
(* wire, and the wire delivers it in chunks of any size at any time.       *)
(***************************************************************************)
EXTENDS Integers, Sequences

CONSTANTS
  MaxQueries,      \* bound: queries issued on the connection
  PayloadLength,   \* bytes a block header declares (999 in a live read)
  PayloadBytes,    \* byte values a payload can hold: subset of {"x", "LF"}
  Kinds,           \* kinds of query issued: subset of AllKinds
  BlockEndings     \* what the instrument sends after a block: a subset of
                   \* {<<>>, <<"LF">>}

AllKinds == {"text", "binary", "live", "blocks"}

ASSUME TransportAssumption ==
  /\ MaxQueries \in Nat
  /\ PayloadLength \in Nat \ {0}
  /\ PayloadBytes \subseteq {"x", "LF"}
  /\ Kinds \subseteq AllKinds
  /\ BlockEndings \subseteq {<<>>, <<"LF">>}

Queries == 1 .. MaxQueries
Byte    == [tx : Queries, tok : {"x", "LF", "#", ";"}]

VARIABLES
  usable,        \* isUsable(): connected and not invalidated
  pending,       \* the query that awaits its response; 0: none
  buffer,        \* receiveBuffer
  wire,          \* bytes the instrument sent and the socket has not delivered
  partialTimer,  \* partialBinaryTimer is armed
  sent,          \* number of queries issued
  kind,          \* the kind of each query
  accept,        \* acceptPartialBinary of each query
  status,        \* the promise of each query
  taken          \* the bytes each answered query was given

vars == <<usable, pending, buffer, wire, partialTimer, sent, kind, accept,
          status, taken>>

Statuses == {"unsent", "waiting", "text", "binary", "failed"}

TypeOK ==
  /\ usable \in BOOLEAN
  /\ pending \in 0 .. MaxQueries
  /\ buffer \in Seq(Byte)
  /\ wire \in Seq(Byte)
  /\ partialTimer \in BOOLEAN
  /\ sent \in 0 .. MaxQueries
  /\ kind \in [Queries -> AllKinds]
  /\ accept \in [Queries -> BOOLEAN]
  /\ status \in [Queries -> Statuses]
  /\ taken \in [Queries -> Seq(Byte)]

Init ==
  /\ usable = TRUE
  /\ pending = 0
  /\ buffer = <<>>
  /\ wire = <<>>
  /\ partialTimer = FALSE
  /\ sent = 0
  /\ kind = [q \in Queries |-> "text"]
  /\ accept = [q \in Queries |-> FALSE]
  /\ status = [q \in Queries |-> "unsent"]
  /\ taken = [q \in Queries |-> <<>>]

-----------------------------------------------------------------------------
(* What the instrument answers.                                            *)

Block == {<<"#">> \o p : p \in [1 .. PayloadLength -> PayloadBytes]}

(* A live read may stop after part of its payload.                         *)
Truncated == {SubSeq(b, 1, n) : b \in Block, n \in 1 .. PayloadLength}

Whole == {b \o e : b \in Block, e \in BlockEndings}

\* Two channels' blocks, with or without a separator.
Separators == {<<>>, <<";">>, <<"LF">>}
TwoBlocks(b, s, c) == b \o s \o c \o <<"LF">>
Pairs == {TwoBlocks(b, s, c) : b \in Block, s \in Separators, c \in Block}

Response(k) ==
  CASE k = "text"   -> {<<"x", "LF">>}
    [] k = "binary" -> Whole
    [] k = "live"   -> Whole \cup Truncated
    [] k = "blocks" -> Pairs

Bytes(q, toks) == [i \in DOMAIN toks |-> [tx |-> q, tok |-> toks[i]]]

-----------------------------------------------------------------------------
(* Framing.  A verdict on the buffer is "wait", "bad", "text" or "binary". *)

Tok(b, i) == IF i \in DOMAIN b THEN b[i].tok ELSE "none"

LineFeeds(b) == {i \in DOMAIN b : b[i].tok = "LF"}

(* tryParseTextResponse: up to the first LF, nothing may follow.           *)
TextVerdict(b) ==
  IF LineFeeds(b) = {} THEN "wait"
  ELSE IF Len(b) \in LineFeeds(b) /\ LineFeeds(b) = {Len(b)} THEN "text"
  ELSE "bad"

BlockLength == PayloadLength + 1

(* Mutant: a block is complete one byte early.                             *)
BlockVerdictShort(b) ==
  IF Len(b) < BlockLength - 1 THEN "wait"
  ELSE IF Len(b) = BlockLength - 1 THEN "binary"
  ELSE IF Len(b) = BlockLength THEN "binary"
  ELSE IF Len(b) = BlockLength + 1 /\ Tok(b, Len(b)) = "LF" THEN "binary"
  ELSE "bad"

(* tryParseBinaryResponse: a block that ends the buffer is taken as the    *)
(* whole response, with or without its terminator.                         *)
BlockVerdict(b) ==
  IF Len(b) < BlockLength THEN "wait"
  ELSE IF Len(b) = BlockLength THEN "binary"
  ELSE IF Len(b) = BlockLength + 1 /\ Tok(b, Len(b)) = "LF" THEN "binary"
  ELSE "bad"

(* tryConsumeBinaryBlockSeparator, after the first of two blocks.          *)
SecondBlock(b) ==
  IF Tok(b, BlockLength + 1) \in {";", "LF"} THEN BlockLength + 2
  ELSE BlockLength + 1

(* tryParseBinaryBlocks for two blocks: the terminator is required.        *)
BlocksVerdict(b) ==
  LET start == SecondBlock(b)
      end   == start + PayloadLength
  IN  IF Tok(b, 1) # "#" THEN IF Len(b) < 2 THEN "wait" ELSE "bad"
      ELSE IF Len(b) <= BlockLength THEN "wait"
      ELSE IF Tok(b, BlockLength + 1) = "x" THEN "bad"
      ELSE IF Len(b) < start THEN "wait"
      ELSE IF Tok(b, start) # "#"
           THEN IF Len(b) = start THEN "wait" ELSE "bad"
      ELSE IF Len(b) <= end THEN "wait"
      ELSE IF Tok(b, end + 1) = "LF" /\ Len(b) = end + 1 THEN "binary"
      ELSE "bad"

(* tryParseResponse.  Text that waits for its end under a live read is     *)
(* refused by the header parse of schedulePartialBinaryRecovery.           *)
Verdict(k, b) ==
  IF k = "blocks" THEN BlocksVerdict(b)
  ELSE IF Tok(b, 1) = "#" THEN BlockVerdict(b)
  ELSE IF k = "live" /\ Len(b) > 1 /\ LineFeeds(b) = {} THEN "bad"
  ELSE TextVerdict(b)

-----------------------------------------------------------------------------

(* Mutant: the waiting query is forgotten instead of rejected.             *)
InvalidateSilently ==
  /\ usable' = FALSE
  /\ pending' = 0
  /\ buffer' = <<>>
  /\ wire' = <<>>
  /\ partialTimer' = FALSE
  /\ UNCHANGED <<status, taken>>

(* invalidate and disconnect: the socket is destroyed and the waiting      *)
(* query rejected.                                                         *)
Invalidate ==
  /\ usable' = FALSE
  /\ pending' = 0
  /\ buffer' = <<>>
  /\ wire' = <<>>
  /\ partialTimer' = FALSE
  /\ status' = [q \in Queries |->
                  IF q = pending THEN "failed" ELSE status[q]]
  /\ UNCHANGED taken

(* query, queryText, queryBinary, queryBinaryBlocks.  The scheduler issues *)
(* one at a time.  On an unusable transport the call is rejected.          *)
Query(k, a) ==
  LET q == sent + 1
  IN  /\ sent < MaxQueries
      /\ pending = 0
      /\ sent' = q
      /\ kind' = [kind EXCEPT ![q] = k]
      /\ accept' = [accept EXCEPT ![q] = a]
      /\ IF usable
         THEN /\ pending' = q
              /\ status' = [status EXCEPT ![q] = "waiting"]
              /\ \E toks \in Response(k) : wire' = wire \o Bytes(q, toks)
         ELSE /\ status' = [status EXCEPT ![q] = "failed"]
              /\ UNCHANGED <<pending, wire>>
      /\ UNCHANGED <<usable, buffer, partialTimer, taken>>

(* The pending query is settled and the receive side made ready for the    *)
(* next one.                                                               *)
Settle(outcome, bytes) ==
  /\ status' = [status EXCEPT ![pending] = outcome]
  /\ taken' = [taken EXCEPT ![pending] = bytes]
  /\ pending' = 0
  /\ buffer' = <<>>
  /\ UNCHANGED usable

Complete(v, b) ==
  /\ Settle(v, b)
  /\ partialTimer' = FALSE

(* schedulePartialBinaryRecovery: only a live read whose payload has begun.*)
Recoverable(b) ==
  /\ kind[pending] = "live"
  /\ Tok(b, 1) = "#"
  /\ Len(b) > 1
  /\ Len(b) < BlockLength

(* onData: the next chunk of the stream.                                   *)
OnData ==
  /\ usable
  /\ \E n \in 1 .. Len(wire) :
       LET b    == buffer \o SubSeq(wire, 1, n)
           v    == IF pending = 0 THEN "bad" ELSE Verdict(kind[pending], b)
           rest == SubSeq(wire, n + 1, Len(wire))
       IN  \/ /\ v = "wait"
              /\ buffer' = b
              /\ wire' = rest
              /\ partialTimer' = Recoverable(b)
              /\ UNCHANGED <<usable, pending, status, taken>>
           \/ /\ v \in {"text", "binary"}
              /\ wire' = rest
              /\ Complete(v, b)
           \/ /\ v = "bad"
              /\ Invalidate
  /\ UNCHANGED <<sent, kind, accept>>

(* The idle timer of a partial live block: the payload so far is the       *)
(* answer if the caller accepts it.  The socket stays in use.              *)
PartialRecovery ==
  /\ partialTimer
  /\ partialTimer' = FALSE
  /\ Settle(IF accept[pending] THEN "binary" ELSE "failed",
            IF accept[pending] THEN buffer ELSE <<>>)
  /\ UNCHANGED <<wire, sent, kind, accept>>

(* Mutant: a timed-out query is rejected but the socket stays in use.      *)
ResponseTimeoutKeepsSocket ==
  /\ pending # 0
  /\ Settle("failed", <<>>)
  /\ partialTimer' = FALSE
  /\ UNCHANGED <<wire, sent, kind, accept>>

(* createResponseTimer expires.                                            *)
ResponseTimeout ==
  /\ pending # 0
  /\ Invalidate
  /\ UNCHANGED <<sent, kind, accept>>

(* The socket fails or closes, or the session calls disconnect.            *)
SocketLost ==
  /\ usable
  /\ Invalidate
  /\ UNCHANGED <<sent, kind, accept>>

Next ==
  \/ \E k \in Kinds : \E a \in IF k = "live" THEN BOOLEAN ELSE {FALSE} :
       Query(k, a)
  \/ OnData
  \/ PartialRecovery
  \/ ResponseTimeout
  \/ SocketLost

Spec == Init /\ [][Next]_vars

(* Node runs timers that are due; nothing else is assumed of the network.  *)
FairSpec == Spec /\ WF_vars(ResponseTimeout)

-----------------------------------------------------------------------------
(* Properties.                                                             *)

(* Between transactions the receive side holds nothing: no bytes that a    *)
(* later query would find in front of its own, and no idle timer that      *)
(* would end it; the timer only runs over an unfinished block of the live  *)
(* read that armed it; an unusable transport has nobody waiting.           *)
IdleIsClean ==
  /\ pending = 0 => buffer = <<>> /\ ~partialTimer
  /\ \A q \in Queries : status[q] = "waiting" <=> q = pending
  /\ ~usable => pending = 0
  /\ partialTimer =>
       /\ kind[pending] = "live"
       /\ Tok(buffer, 1) = "#"
       /\ Len(buffer) \in 2 .. PayloadLength

(* A caller that did not ask for short blocks gets the declared payload or *)
(* an error, whatever the chunking, idle times and left-over bytes.        *)
ShortOnlyIfAccepted ==
  \A q \in Queries :
    status[q] = "binary" /\ ~accept[q] =>
      Len(taken[q]) >= IF kind[q] = "blocks" THEN 2 * BlockLength
                                             ELSE BlockLength

(* No answer holds bytes of another query's response.                      *)
OwnBytes(q) == \A i \in DOMAIN taken[q] : taken[q][i].tx = q

(* Only a block that ended a chunk before its LF, or a live read that      *)
(* idled, leaves bytes behind on a connection that stays in use: before    *)
(* the first query of those kinds every answer is the query's own,         *)
(* whatever timed out or failed to parse before it.                        *)
ForeignIsKnown ==
  \A q \in Queries : OwnBytes(q) \/ \E e \in 1 .. q - 1 : kind[e] \in {"binary", "live"}

(* A query is answered with its own response, whole, and leaves nothing to *)
(* the next one; what else may happen is said by the three.                *)
OwnAnswers == IdleIsClean /\ ShortOnlyIfAccepted /\ ForeignIsKnown

(* Every query settles, however little the instrument sends.               *)
EveryQuerySettles ==
  \A q \in Queries : status[q] = "waiting" ~> status[q] # "waiting"
=============================================================================

------------------------------- MODULE Parser -------------------------------
(***************************************************************************)
(* The command parser of a connection thread (network.c): what it does     *)
(* with the bytes of its ring buffer, however read(2) cuts the stream.     *)
(*                                                                         *)
(* The ring appears as what module Ring proves it to be, the sequence of   *)
(* its unread bytes.  A position in it stands for a read pointer; "goto    *)
(* recv_more" puts ptr_read back to the start of the command, and since    *)
(* nothing is written to the ring meanwhile, that leaves unread as it was  *)
(* (Rewind of Ring, which IsByteQueue covers).                             *)
(* One iteration of the command loop is one step.                          *)
(***************************************************************************)
EXTENDS Integers, SequencesExt

CONSTANTS Byte, Blank, NewLine,   \* the chars, and those that are white space
          PX, SIZE, OFFSET,       \* the command verbs
          Digit, HexDigit,        \* the value of a char as a digit
          ColorDigits,            \* 6: more digits than these include alpha
          Channel, Word,          \* 2^8 and 2^32: the unsigned arithmetic
          Threshold,              \* WHITESPACE_SEARCH_GARBAGE_THRESHOLD
          Capacity,               \* the bytes that the ring holds
          Width, Height,          \* the size of the node's framebuffer
          Streams    \* what clients send: its text, its meaning, and whether
                     \*   it is good: commands and unknown words that fit

WhiteSpace == Blank \cup NewLine

ASSUME ByteAssumption    == WhiteSpace \subseteq Byte /\ Blank \cap NewLine = {}
ASSUME VerbAssumption    == /\ \A verb \in {PX, SIZE, OFFSET} :
                                 verb \in Seq(Byte \ WhiteSpace) /\ Len(verb) \in 1 .. Threshold
                            /\ PX[1] # SIZE[1] /\ SIZE[1] # OFFSET[1] /\ OFFSET[1] # PX[1]
ASSUME DigitAssumption   == Digit \in [Byte -> Int] /\ HexDigit \in [Byte -> Int]
ASSUME NumberAssumption  == /\ Channel \in Nat \ {0} /\ Word \in Nat \ {0}
                            /\ ColorDigits \in Nat /\ Threshold \in Nat
                            /\ Capacity \in Nat \ {0}
                            /\ Width \in Nat /\ Height \in Nat

VARIABLES stream,    \* all that the client sends
          received,  \* how many bytes of it have been read
          unread,    \* the bytes in the ring
          mode,      \* "recv", "parse", or why the thread has left its loop
          offset,    \* thread->offset
          done       \* what has been executed: pixels set, answers, offsets

vars == <<stream, received, unread, mode, offset, done>>

NoOffset == [x |-> 0, y |-> 0]

Init == /\ stream \in Streams /\ received = 0 /\ unread = << >>
        /\ mode = "recv" /\ offset = NoOffset /\ done = << >>

-----------------------------------------------------------------------------
(* Scanning s, the bytes of a ring *)

(* Where net_skip_whitespace stops. *)
SkipWhiteSpace(s, p) ==
  CHOOSE q \in p .. Len(s) + 1 :
    /\ \A k \in p .. q - 1 : s[k] \in WhiteSpace
    /\ q <= Len(s) => s[q] \notin WhiteSpace

(* net_next_whitespace: the length of the token at p, or why it has none. *)
Missing == -1
Garbage == -22

WhiteSpaceFrom(s, p) == {q \in p .. Len(s) : s[q] \in WhiteSpace}

TokenLength(s, p) ==
  IF WhiteSpaceFrom(s, p) # {} /\ Min(WhiteSpaceFrom(s, p)) - p <= Threshold
  THEN Min(WhiteSpaceFrom(s, p)) - p
  ELSE IF Len(s) - p >= Threshold THEN Garbage ELSE Missing

(* An argument: white space, then a token that white space ends. *)
ArgAt(s, p)  == SkipWhiteSpace(s, p)
ArgEnd(s, p) == ArgAt(s, p) + TokenLength(s, ArgAt(s, p))
HasArg(s, p) == ArgAt(s, p) # p /\ TokenLength(s, ArgAt(s, p)) >= 0

(* net_str_to_uint32_10 and _16 on s[p .. q-1]. *)
Number(s, p, q, radix, digit) ==
  LET val[k \in p - 1 .. q - 1] ==
        IF k < p THEN 0 ELSE (val[k - 1] * radix + digit[s[k]]) % Word
  IN  val[q - 1]

Decimal(s, p) == Number(s, ArgAt(s, p), ArgEnd(s, p), 10, Digit)

(* A color of up to ColorDigits digits is opaque. *)
Pixel(s, p, q) ==
  LET hex == Number(s, p, q, 16, HexDigit)
  IN  IF q - p > ColorDigits
      THEN [bgr |-> hex \div Channel, alpha |-> hex % Channel]
      ELSE [bgr |-> ((hex * Channel) % Word) \div Channel, alpha |-> Channel - 1]

-----------------------------------------------------------------------------
(* The first command of s *)

(* ring_memcmp: the verb is there, in full. *)
Begins(verb, s) == Len(verb) <= Len(s) /\ SubSeq(s, 1, Len(verb)) = verb

Unknown(s) == \A verb \in {PX, SIZE, OFFSET} : ~Begins(verb, s)

After(verb) == Len(verb) + 1

(* Two arguments from p on, and the position behind them. *)
HasXY(s, p) == HasArg(s, p) /\ HasArg(s, ArgEnd(s, p))
XYEnd(s, p) == ArgEnd(s, ArgEnd(s, p))
XY(s, p)    == [x |-> Decimal(s, p), y |-> Decimal(s, ArgEnd(s, p))]

(* What they mean under the offset o. *)
Moved(xy, o) == [x |-> (xy.x + o.x) % Word, y |-> (xy.y + o.y) % Word]

OnScreen(at) == at.x < Width /\ at.y < Height

(* The white space behind y ends in a newline: the client wants the pixel. *)
AsksForPixel(s) == s[SkipWhiteSpace(s, XYEnd(s, After(PX))) - 1] \in NewLine

(* The color begins where the white space behind y ends. *)
ColorAt(s)  == SkipWhiteSpace(s, XYEnd(s, After(PX)))
ColorEnd(s) == ColorAt(s) + TokenLength(s, ColorAt(s))
HasColor(s) == TokenLength(s, ColorAt(s)) >= 0

LacksArgument(s) == HasXY(s, After(PX)) => ~AsksForPixel(s) /\ ~HasColor(s)

(* What the client asks for, wants drawn or wants added to its offset. *)
Get(at)      == [op |-> "get", x |-> at.x, y |-> at.y]
Set(at, pix) == [op |-> "set", x |-> at.x, y |-> at.y, pixel |-> pix]
Offset(xy)   == [op |-> "offset", x |-> xy.x, y |-> xy.y]

-----------------------------------------------------------------------------
(* The command loop *)

Parsing      == mode = "parse" /\ unread # << >>
Starts(verb) == Parsing /\ Begins(verb, unread)

(* The command ends before p; the loop skips the white space behind it. *)
ConsumeTo(p) == unread' = SubSeq(unread, SkipWhiteSpace(unread, p), Len(unread))

Execute(cmd) == done' = Append(done, cmd)

RecvMore == mode' = "recv" /\ UNCHANGED unread

(* The answer is written, or writing fails and the connection ends. *)
Answer(cmd) ==
  \/ Execute(cmd) /\ UNCHANGED mode
  \/ mode' = "write_failed" /\ UNCHANGED done

Target == Moved(XY(unread, After(PX)), offset)

GetPixel ==
  /\ Starts(PX) /\ HasXY(unread, After(PX)) /\ AsksForPixel(unread)
  /\ IF OnScreen(Target) THEN Answer(Get(Target)) ELSE UNCHANGED <<mode, done>>
  /\ ConsumeTo(XYEnd(unread, After(PX)))
  /\ UNCHANGED <<stream, received, offset>>

SetPixel ==
  /\ Starts(PX) /\ HasXY(unread, After(PX))
  /\ ~AsksForPixel(unread) /\ HasColor(unread)
  /\ IF OnScreen(Target)
     THEN Execute(Set(Target, Pixel(unread, ColorAt(unread), ColorEnd(unread))))
     ELSE UNCHANGED done
  /\ ConsumeTo(ColorEnd(unread))
  /\ UNCHANGED <<stream, received, mode, offset>>

(* Wrong variants of an operator, each named for its error, stand before   *)
(* it: what the properties must be able to tell apart.                     *)
IncompletePXLosesVerb ==
  /\ Starts(PX) /\ LacksArgument(unread)
  /\ mode' = "recv" /\ unread' = SubSeq(unread, After(PX), Len(unread))
  /\ UNCHANGED <<stream, received, offset, done>>

IncompletePX ==
  /\ Starts(PX) /\ LacksArgument(unread)
  /\ RecvMore
  /\ UNCHANGED <<stream, received, offset, done>>

Size ==
  /\ Starts(SIZE)
  /\ Answer([op |-> "size"])
  /\ ConsumeTo(After(SIZE))
  /\ UNCHANGED <<stream, received, offset>>

SetOffset ==
  /\ Starts(OFFSET) /\ HasXY(unread, After(OFFSET))
  /\ offset' = XY(unread, After(OFFSET))
  /\ Execute(Offset(offset'))
  /\ ConsumeTo(XYEnd(unread, After(OFFSET)))
  /\ UNCHANGED <<stream, received, mode>>

IncompleteOffset ==
  /\ Starts(OFFSET) /\ ~HasXY(unread, After(OFFSET))
  /\ RecvMore
  /\ UNCHANGED <<stream, received, offset, done>>

NoVerb == Parsing /\ Unknown(unread)

UnknownAwaitsMore ==
  /\ NoVerb /\ TokenLength(unread, 1) >= 0
  /\ RecvMore
  /\ UNCHANGED <<stream, received, offset, done>>

SkipUnknown ==
  /\ NoVerb /\ TokenLength(unread, 1) >= 0
  /\ ConsumeTo(1 + TokenLength(unread, 1))
  /\ UNCHANGED <<stream, received, mode, offset, done>>

MisbehavingIfIncomplete ==
  /\ NoVerb /\ TokenLength(unread, 1) < 0
  /\ mode' = "garbage"
  /\ UNCHANGED <<stream, received, unread, offset, done>>

Misbehaving ==
  /\ NoVerb /\ TokenLength(unread, 1) = Garbage
  /\ mode' = "garbage"
  /\ UNCHANGED <<stream, received, unread, offset, done>>

IncompleteTokenDropped ==
  /\ NoVerb /\ TokenLength(unread, 1) = Missing
  /\ mode' = "recv" /\ unread' = << >>
  /\ UNCHANGED <<stream, received, offset, done>>

(* A token without an end may be the beginning of a verb. *)
IncompleteToken ==
  /\ NoVerb /\ TokenLength(unread, 1) = Missing
  /\ RecvMore
  /\ UNCHANGED <<stream, received, offset, done>>

AllParsed ==
  /\ mode = "parse" /\ unread = << >>
  /\ RecvMore
  /\ UNCHANGED <<stream, received, offset, done>>

-----------------------------------------------------------------------------
(* Receiving *)

ReceiveIntoTheLastSlot(n) ==
  /\ mode = "recv"
  /\ Len(unread) + n <= Capacity + 1 /\ received + n <= Len(stream.text)
  /\ unread' = unread \o SubSeq(stream.text, received + 1, received + n)
  /\ received' = received + n /\ mode' = "parse"
  /\ UNCHANGED <<stream, offset, done>>

(* read(2) returns as much as it likes, but at least a byte if it was      *)
(* asked for one; it is asked for none only when the ring is full          *)
(* (OnlyAFullRingLooksLikeEOF of module Ring).                             *)
Receive(n) ==
  /\ mode = "recv"
  /\ Len(unread) + n <= Capacity /\ received + n <= Len(stream.text)
  /\ unread' = unread \o SubSeq(stream.text, received + 1, received + n)
  /\ received' = received + n /\ mode' = "parse"
  /\ UNCHANGED <<stream, offset, done>>

RingIsFull ==
  /\ mode = "recv" /\ Len(unread) = Capacity
  /\ mode' = "full"
  /\ UNCHANGED <<stream, received, unread, offset, done>>

(* The client closes, or the connection breaks. *)
ClientGone ==
  /\ mode = "recv" /\ Len(unread) < Capacity
  /\ mode' = "gone"
  /\ UNCHANGED <<stream, received, unread, offset, done>>

Ended == mode \in {"write_failed", "garbage", "full", "gone"}

Next == \/ GetPixel \/ SetPixel \/ IncompletePX \/ Size
        \/ SetOffset \/ IncompleteOffset
        \/ SkipUnknown \/ Misbehaving \/ IncompleteToken \/ AllParsed
        \/ \E n \in 1 .. Capacity : Receive(n)
        \/ RingIsFull \/ ClientGone
        \/ Ended /\ UNCHANGED vars

Spec == Init /\ [][Next]_vars

-----------------------------------------------------------------------------
(* What a text means: what the command loop makes of it when all of it is  *)
(* in the ring from the beginning, whatever the ring holds.                *)

Coordinate == 0 .. Word - 1
Point == [x : Coordinate, y : Coordinate]
Command == [op : {"get", "offset"}, x : Coordinate, y : Coordinate]
      \cup [op : {"set"}, x : Coordinate, y : Coordinate,
            pixel : [bgr : Coordinate, alpha : 0 .. Channel - 1]]
      \cup [op : {"size"}]

(* The first command of s is there, or a word that is none. *)
Complete(s) ==
  \/ Begins(PX, s) /\ ~LacksArgument(s)
  \/ Begins(SIZE, s)
  \/ Begins(OFFSET, s) /\ HasXY(s, After(OFFSET))
  \/ s # << >> /\ Unknown(s) /\ TokenLength(s, 1) >= 0

FirstEnd(s) ==
  IF Begins(PX, s)
  THEN IF AsksForPixel(s) THEN XYEnd(s, After(PX)) ELSE ColorEnd(s)
  ELSE IF Begins(SIZE, s) THEN After(SIZE)
  ELSE IF Begins(OFFSET, s) THEN XYEnd(s, After(OFFSET))
  ELSE 1 + TokenLength(s, 1)

Behind(s) == SubSeq(s, SkipWhiteSpace(s, FirstEnd(s)), Len(s))

Executed(s, o) ==
  LET at == Moved(XY(s, After(PX)), o)
  IN  IF Begins(PX, s)
      THEN IF ~OnScreen(at) THEN << >>
           ELSE IF AsksForPixel(s) THEN << Get(at) >>
           ELSE << Set(at, Pixel(s, ColorAt(s), ColorEnd(s))) >>
      ELSE IF Begins(SIZE, s) THEN << [op |-> "size"] >>
      ELSE IF Begins(OFFSET, s) THEN << Offset(XY(s, After(OFFSET))) >>
      ELSE << >>

OffsetBehind(s, o) == IF Begins(OFFSET, s) THEN XY(s, After(OFFSET)) ELSE o

(* The last k bytes of a text. *)
Suffix(text, k) == SubSeq(text, Len(text) - k + 1, Len(text))

(* Of each suffix, under each offset: what is executed, and whether each   *)
(* command is complete and fits the ring, with the white space behind it.  *)
Meanings(text) ==
  LET means[k \in 0 .. Len(text)] ==
        [o \in Point |->
           LET s    == Suffix(text, k)
               next == means[Len(Behind(s))][OffsetBehind(s, o)]
           IN  IF Complete(s)
               THEN [done |-> Executed(s, o) \o next.done,
                     good |-> next.good /\ Len(s) - Len(Behind(s)) <= Capacity]
               ELSE [done |-> << >>, good |-> s = << >>]]
  IN  means

Meaning(text) == Meanings(text)[Len(text)][NoOffset]

(* No line of text begins with a blank.  One that does moves the last      *)
(* newline of the white space in front of it out of sight: whether the PX  *)
(* x y before it asks for the pixel (network.c:360) then depends on        *)
(* whether the blank has been received yet.                                *)
IsLines(text) ==
  \A k \in 1 .. Len(text) - 1 : text[k] \in NewLine => text[k + 1] \notin Blank

(* What clients mean by their lines is at least what the parser can make   *)
(* of the text, and just that if they are good.                            *)
ASSUME StreamsAssumption ==
  \A s \in Streams :
    /\ s.text \in Seq(Byte) /\ s.meaning \in Seq(Command)
    /\ IsLines(s.text) => IsPrefix(Meaning(s.text).done, s.meaning)
    /\ s.good => /\ IsLines(s.text)
                 /\ Meaning(s.text).good /\ s.meaning = Meaning(s.text).done

-----------------------------------------------------------------------------
(* Properties *)

TypeOK ==
  /\ stream \in Streams /\ received \in 0 .. Len(stream.text)
  /\ unread \in Seq(Byte) /\ Len(unread) <= Capacity
  /\ mode \in {"recv", "parse"} \/ Ended
  /\ offset \in Point
  /\ done \in Seq(Command)

(* What has been executed so far is the beginning of what the client meant *)
(* (network.c:332-445): no cut of the stream by read(2), inside a verb, an *)
(* argument or behind white space, makes the parser execute a command      *)
(* twice, leave one out, or take one for another, unless a line begins     *)
(* with a blank.                                                           *)
InOrder == IsLines(stream.text) => IsPrefix(done, stream.meaning)

(* A parser that waits for more (network.c:318) has executed every command *)
(* that it has received in full: with the whole stream received, all.      *)
NothingLeftBehind ==
  stream.good /\ mode = "recv" /\ received = Len(stream.text)
    => done = stream.meaning

(* As long as the ring holds the longest command, with the white space     *)
(* that ends it, no client that sends what README.md:59-62 lists is taken  *)
(* for one that has closed (network.c:319, read of 0 bytes into a full     *)
(* ring) or misbehaves (network.c:436).                                    *)
KeepsGoodClients == stream.good => mode \notin {"full", "garbage"}

(* network.c:52-54: "If that fails the thread tries to skip to the next    *)
(* whitespace-separated token and tries to parse it as a command verb."    *)
(* A parser that waits for more has no complete token before it that is    *)
(* not a verb, but for one that begins with a verb and goes on without     *)
(* white space (PX0): it is taken for an incomplete command                *)
(* (network.c:336-339) and stays until the ring is full.                   *)
FirstToken == SubSeq(unread, 1, TokenLength(unread, 1))

SkipsWhatIsNoVerb ==
  mode = "recv" /\ unread # << >> /\ TokenLength(unread, 1) >= 0
    => \E verb \in {PX, SIZE, OFFSET} : IsPrefix(verb, FirstToken)
=============================================================================

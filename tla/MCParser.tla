------------------------------ MODULE MCParser ------------------------------
(* Short verbs, decimal digits 0 and 1, one hexadecimal digit of color and  *)
(* one of alpha, and clients that send up to three lines.                   *)
EXTENDS Parser

MCBlank   == {" "}
MCNewLine == {"n"}
MCByte    == {"P", "X", "S", "Z", "O", "F", "0", "1", " ", "n"}
MCPX      == << "P", "X" >>
MCSIZE    == << "S", "Z" >>
MCOFFSET  == << "O", "F" >>

(* c - '0', and what net_str_to_uint32_16 makes of c: the letters wrap. *)
MCDigit == [P |-> 32, X |-> 40, S |-> 35, Z |-> 42, O |-> 31, F |-> 22] @@
           ("0" :> 0 @@ "1" :> 1 @@ " " :> -16 @@ "n" :> -38)
MCHexDigit == [P |-> 25, X |-> 33, S |-> 28, Z |-> 35, O |-> 24, F |-> 15] @@
              ("0" :> 0 @@ "1" :> 1 @@ " " :> -16 @@ "n" :> -6)

(* The lines of README.md:59-62 and an unknown word, with what each means   *)
(* under the offset o; pixels off the screen mean nothing.                  *)
Pix(alpha, bgr) == [bgr |-> bgr, alpha |-> alpha]
Seen(cmd) == IF OnScreen(cmd) THEN << cmd >> ELSE << >>

Draw(t, x, y, p) ==
  [text |-> << "P", "X", " " >> \o t, op |-> "set", x |-> x, y |-> y, pixel |-> p]

Lines ==
  { Draw(<< "1", " ", "0", " ", "1", "n" >>, 1, 0, Pix(15, 1)),
    Draw(<< "0", " ", "0", " ", "1", "0", "n" >>, 0, 0, Pix(0, 1)),
    [text |-> << "P", "X", " ", "0", " ", "1", "n" >>, op |-> "get", x |-> 0, y |-> 1],
    [text |-> << "S", "Z", "n" >>, op |-> "size"],
    [text |-> << "O", "F", " ", "1", " ", "0", "n" >>, op |-> "offset", x |-> 1, y |-> 0],
    [text |-> << "0", "1", "n" >>, op |-> "none"] }

(* Lines that break the rules: no white space after the verb, a token or    *)
(* a command that is too long, a blank at the beginning of a line.          *)
BadLines ==
  { [text |-> << "P", "X", "0", "n" >>, op |-> "none"],
    [text |-> << "P", "X", " ", "0", " ", "1", "n", " ", "1", "n" >>, op |-> "none"],
    [text |-> << "0", "1", "1", "1", "1", "n" >>, op |-> "none"],
    [text |-> << "P", "X", " ", "0", " ", "0", " ", "0", "0", "0", "0", "n" >>,
     op |-> "none"] }

OffsetBefore(script, k) ==
  LET set == {j \in 1 .. k - 1 : script[j].op = "offset"}
  IN  IF set = {} THEN [x |-> 0, y |-> 0]
      ELSE [x |-> script[Max(set)].x, y |-> script[Max(set)].y]

Under(line, o) ==
  LET x == (line.x + o.x) % Word
      y == (line.y + o.y) % Word
  IN  IF line.op = "set"
      THEN [op |-> "set", x |-> x, y |-> y, pixel |-> line.pixel]
      ELSE [op |-> line.op, x |-> x, y |-> y]

MeaningOf(script, k) ==
  CASE script[k].op = "none"   -> << >>
    [] script[k].op = "size"   -> << [op |-> "size"] >>
    [] script[k].op = "offset" -> << [op |-> "offset", x |-> script[k].x, y |-> script[k].y] >>
    [] OTHER                   -> Seen(Under(script[k], OffsetBefore(script, k)))

StreamOf(script) ==
  [text    |-> FlattenSeq([k \in DOMAIN script |-> script[k].text]),
   meaning |-> FlattenSeq([k \in DOMAIN script |-> MeaningOf(script, k)]),
   good    |-> \A k \in DOMAIN script : script[k] \notin BadLines]

Scripts(lines, n) == UNION {[1 .. m -> lines] : m \in 0 .. n}

MCStreams == {StreamOf(s) : s \in Scripts(Lines, 3)} \cup
             {StreamOf(s) : s \in Scripts(Lines \cup BadLines, 2)}
=============================================================================

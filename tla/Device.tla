------------------------------- MODULE Device -------------------------------
(***************************************************************************)
(* device.sv: the serial transmitter of the board.  It runs at 100 MHz and *)
(* is asked by a processor at 25 MHz, which holds a request until ready.   *)
(* The counter, the switches and the LEDs only answer loads or only show   *)
(* that the program has ended, and are left out.                           *)
(***************************************************************************)
EXTENDS Integers, Sequences

CONSTANTS
    Char,            \* the values of a data bit: characters have one bit here
    BIT_TMR_MAX,     \* last count of a bit on the line (10416 in the code)
    Greeting         \* bound: last index of the text sent after FINISH (14 in the code)

ASSUME DeviceAssumption ==
    BIT_TMR_MAX \in Nat \ {0} /\ Greeting \in Nat \ {0} /\ Char = {0, 1}

\* The start bit, the data and the stop bit of a character.
Frame(c) == <<0, c, 1>>
BIT_INDEX_MAX == Len(Frame(0))

\* line and sent are not in the code: the bits of the frame under way, and the
\* frames sent since the request lines were last quiet, two at most.  idx is an int;
\* -1 stands for every negative value.
DeviceReg == [txState: {"RDY", "LOAD_BIT", "SEND_BIT"}, bitTmr: 0..BIT_TMR_MAX,
              bitIndex: 0..BIT_INDEX_MAX, txData: {Frame(c) : c \in Char}, putchar: BOOLEAN,
              finish: BOOLEAN, idx: -1..Greeting, line: Seq(Char), sent: Seq(Seq(Char))]

DeviceReset ==
    [txState |-> "RDY", bitTmr |-> 0, bitIndex |-> 0, txData |-> Frame(0), putchar |-> TRUE,
     finish |-> FALSE, idx |-> Greeting, line |-> << >>, sent |-> << >>]

----------------------------------------------------------------------------
\* A request a is its valid line, what it stores ("tx": to TX_DATA, "finish": to
\* FINISH_ADDR, "none" for a load), and the character it stores.
tx_ready(d) == d.txState = "RDY"

stores_char(a) == a.valid /\ a.store = "tx"

send(d, a) == (d.idx # 0 /\ d.finish) \/ stores_char(a)

\* Mutant: a bit is one count too long.
BitDoneLate(d) == d.bitTmr > BIT_TMR_MAX

bitDone(d) == d.bitTmr = BIT_TMR_MAX

\* The text of the greeting is all zeros here.
char_data(d, a) == IF d.finish THEN 0 ELSE a.char

\* Mutant: putchar stays up, so that a character still on the request lines when its
\* frame ends is sent again.
PutcharStays(d, a) == TRUE

\* One character for each request: putchar falls when its frame is under way and
\* rises when the request lines are quiet.
putchar_next(d, a) == IF ~a.valid THEN TRUE
                      ELSE IF stores_char(a) /\ ~tx_ready(d) THEN FALSE
                      ELSE d.putchar

txState_next(d, a) ==
    CASE d.txState = "RDY"      -> IF send(d, a) /\ d.putchar THEN "LOAD_BIT" ELSE "RDY"
      [] d.txState = "LOAD_BIT" -> "SEND_BIT"
      [] d.txState = "SEND_BIT" -> IF ~bitDone(d) THEN "SEND_BIT"
                                   ELSE IF d.bitIndex = BIT_INDEX_MAX THEN "RDY" ELSE "LOAD_BIT"

\* One edge of the 100 MHz clock.  LOAD_BIT puts a bit on the line (txBit).
DeviceEdge(d, a) ==
    [txState  |-> txState_next(d, a),
     bitTmr   |-> IF tx_ready(d) \/ bitDone(d) THEN 0 ELSE d.bitTmr + 1,
     bitIndex |-> IF tx_ready(d) THEN 0
                  ELSE IF d.txState = "LOAD_BIT" THEN d.bitIndex + 1 ELSE d.bitIndex,
     txData   |-> IF send(d, a) THEN Frame(char_data(d, a)) ELSE d.txData,
     putchar  |-> putchar_next(d, a),
     finish   |-> d.finish \/ (a.valid /\ a.store = "finish"),
     idx      |-> IF send(d, a) /\ d.finish /\ tx_ready(d) /\ d.idx # -1 THEN d.idx - 1
                  ELSE d.idx,
     line     |-> IF tx_ready(d) THEN << >>
                  ELSE IF d.txState = "LOAD_BIT" THEN Append(d.line, d.txData[d.bitIndex + 1])
                  ELSE d.line,
     sent     |-> IF ~a.valid THEN << >>
                  ELSE IF ~tx_ready(d) /\ txState_next(d, a) = "RDY" /\ Len(d.sent) < 2
                  THEN Append(d.sent, d.line) ELSE d.sent]

=============================================================================

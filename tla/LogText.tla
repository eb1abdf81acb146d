------------------------------- MODULE LogText -------------------------------
(***************************************************************************)
(* The text of a log entry: jalog's streams write it into an               *)
(* astl::mem_ostreambuf over a small_vector, with pointers of the standard *)
(* stream buffer into the vector; printf-style calls format it into a      *)
(* buffer on the stack while it fits.                                      *)
(*                                                                         *)
(* The characters are digits, and the few others that decide something.    *)
(* A pointer is an offset and the buffer it points into, so that a pointer *)
(* left behind by a reallocation shows.  Of the vector, which SmallVector  *)
(* shows to keep its elements, there is where they are and how many fit.   *)
(***************************************************************************)
EXTENDS SmallVector

CONSTANTS
  LtLevels,      \* levels of entries
  LtEnabled,     \* those the scope lets through
  LtMaxText,     \* bound: characters of an entry
  LtBits,        \* width of the integers
  LtBases,       \* number bases
  LtPads,        \* paddings: [size, type]
  PrintfBuffer,  \* size of the buffer printf-style calls try first
  LtEdges        \* edge cases the program meets

ASSUME LtAssumption ==
  /\ LtEnabled \subseteq LtLevels /\ LtMaxText \in Nat /\ LtBits \in Nat \ {0, 1}
  /\ LtBases \subseteq 2..36 /\ PrintfBuffer \in Nat \ {0}
  /\ LtPads \subseteq [size : Int, type : {"left", "right", "inner"}]
  /\ LtEdges \subseteq {"smallest integer in base 2", "full printf buffer"}

VARIABLES
  lt,            \* the stream: its vector, its pointers, its level
  ltRef,         \* history: the text written since the last entry
  ltEntry        \* history: the entry the last call recorded, and the one it should have

ltVars == <<lt, ltRef, ltEntry>>

Digit(d) == d + 1
Minus == 100
Space == 101
Nul == 102
Letter == 103
Letters(n) == [i \in 1..n |-> Letter + i]
Spaces(n) == [i \in 1..n |-> Space]
NoEntry == [recorded |-> <<>>, expected |-> <<>>]

-----------------------------------------------------------------------------
(* mem_ostreambuf                                                            *)

\* small_vector(), resize() and clear() of a vector of characters that is never made
\* to go back to its static buffer.
NoChars == [dyn |-> FALSE, cap |-> StaticCapacity, revert |-> 0, chars |-> <<>>]

CharsResized(x, n) ==
  [x EXCEPT !.dyn = @ \/ n > x.cap,
            !.cap = IF n > @ THEN ChooseData(x, n).cap ELSE @,
            !.chars = [i \in 1..n |-> IF i \in DOMAIN @ THEN @[i] ELSE Nul]]

\* data(): it changes with every reallocation, and only then.
Data(x) == <<x.dyn, x.cap>>

\* setp(data() + off, data() + end)
SetP(b, off, end) == [b EXCEPT !.base = Data(b.data), !.pptr = off, !.epptr = end]

\* Two resizes, to take all of what the vector grew to.
ResizedTwice(x, by) ==
  LET once == CharsResized(x, Len(x.chars) + by) IN CharsResized(once, once.cap)

\* Faulty variant of CapResizeBy: the pointers are set before the vector grows.
CapResizeEarly(b, by) ==
  [SetP(b, b.pptr, b.data.cap) EXCEPT !.data = ResizedTwice(b.data, by)]

CapResizeBy(b, by) ==
  LET data == ResizedTwice(b.data, by)
  IN SetP([b EXCEPT !.data = data], b.pptr, data.cap)

StreamBuf == CapResizeBy([data |-> NoChars, base |-> Data(NoChars),
                          pptr |-> 0, epptr |-> 0, sound |-> TRUE], 0)

\* memcpy to pptr and pbump: only within the elements of the vector.
Store(b, text) ==
  [b EXCEPT !.pptr = @ + Len(text),
            !.sound = @ /\ b.base = Data(b.data) /\ b.pptr + Len(text) <= Len(b.data.chars),
            !.data.chars = [i \in DOMAIN @ |->
                              IF i - b.pptr \in DOMAIN text THEN text[i - b.pptr] ELSE @[i]]]

\* xsputn; and sputc, which calls overflow when there is no room.
Sputn(b, text) ==
  LET rem == b.epptr - b.pptr
  IN Store(IF rem < Len(text) THEN CapResizeBy(b, Len(text) - rem) ELSE b, text)

Sputc(b, ch) == Sputn(b, <<ch>>)

ClearBuf(b) == SetP([b EXCEPT !.data.chars = <<>>], 0, 0)

\* seekpos, and seekoff from the beginning.  What is behind pptr must not matter any
\* more; the model makes zeroes of it.
Seek(b, pos) ==
  SetP([b EXCEPT !.data.chars = [i \in DOMAIN @ |-> IF i > pos THEN Nul ELSE @[i]]],
       pos, Len(b.data.chars))

\* The text between data() and pptr.
Text(b) == SubSeq(b.data.chars, 1, b.pptr)

-----------------------------------------------------------------------------
(* write_integer and write_padded                                            *)

\* Powers by their recursion, not by ^, of which provers know nothing.
Power(b, n) == LET power[k \in 0..n] == IF k = 0 THEN 1 ELSE b * power[k - 1] IN power[n]

Unsigned(i) == (IF i < 0 THEN 0 - i ELSE i) % Power(2, LtBits)

\* Digits are written from the back of a buffer of LtBits characters.
DigitsOf(i, base) ==
  LET of[u \in 0..Power(2, LtBits) - 1] ==
        IF u < base THEN <<Digit(u)>> ELSE Append(of[u \div base], Digit(u % base))
  IN (IF i < 0 THEN <<Minus>> ELSE <<>>) \o of[Unsigned(i)]

\* What write_padded writes with one call each: the number or its two parts, and the
\* spaces one by one.
Pieces(num, pad) ==
  LET fill == [n \in 1..pad.size - Len(num) |-> <<Space>>]
  IN CASE pad.size <= Len(num) -> <<num>>
       [] pad.size > Len(num) /\ pad.type = "right" -> <<num>> \o fill
       [] pad.size > Len(num) /\ pad.type = "inner" /\ Head(num) = Minus ->
            <<<<Minus>>>> \o fill \o <<Tail(num)>>
       [] OTHER -> fill \o <<num>>

\* sputc of a character is xsputn of one.
WritePadded(b, num, pad) ==
  LET pieces == Pieces(num, pad)
      after[n \in 0..Len(pieces)] == IF n = 0 THEN b ELSE Sputn(after[n - 1], pieces[n])
  IN after[Len(pieces)]

WriteInteger(b, i, base, pad) ==
  LET num == DigitsOf(i, base) IN WritePadded(b, num, pad)

\* What an integer should look like, digit by digit from its value.
Written(i, base, pad) ==
  LET u == IF i < 0 THEN -i ELSE i
      places == CHOOSE n \in 1..LtBits :
                  u < Power(base, n) /\ (n = 1 \/ u >= Power(base, n - 1))
      digits == [p \in 1..places |-> Digit((u \div Power(base, places - p)) % base)]
      sign == IF i < 0 THEN <<Minus>> ELSE <<>>
      fill == Spaces(pad.size - Len(sign \o digits))
  IN CASE pad.type = "right" -> sign \o digits \o fill
       [] pad.type = "inner" -> sign \o fill \o digits
       [] pad.type = "left" -> fill \o sign \o digits

-----------------------------------------------------------------------------
(* The streams.                                                              *)

LtInit ==
  /\ lt = [buf |-> StreamBuf, level |-> "none", enabled |-> FALSE, fits |-> TRUE]
  /\ ltRef = <<>> /\ ltEntry = NoEntry

Open == lt.level # "none"

\* A stream at a level of the scope.
LtOpen(lvl) ==
  /\ ~Open
  /\ lt' = [lt EXCEPT !.level = lvl, !.enabled = lvl \in LtEnabled]
  /\ ltEntry' = NoEntry /\ UNCHANGED ltRef

\* An operator<< or an operator, for a value: nothing happens when the level is off.
Streamed(b, text, fits) ==
  /\ Open
  /\ lt' = IF lt.enabled THEN [lt EXCEPT !.buf = b, !.fits = @ /\ fits] ELSE lt
  /\ ltRef' = IF lt.enabled THEN text ELSE ltRef
  /\ ltEntry' = NoEntry

LtString(n) ==
  /\ Len(ltRef) + n <= LtMaxText
  /\ Streamed(Sputn(lt.buf, Letters(n)), ltRef \o Letters(n), TRUE)

LtChar ==
  /\ Len(ltRef) < LtMaxText
  /\ Streamed(Sputc(lt.buf, Letter), Append(ltRef, Letter), TRUE)

LtInteger(i, base, pad) ==
  /\ Len(ltRef) + Len(Written(i, base, pad)) <= LtMaxText
  /\ i = -Power(2, LtBits - 1) /\ base = 2 => "smallest integer in base 2" \in LtEdges
  /\ Streamed(WriteInteger(lt.buf, i, base, pad), ltRef \o Written(i, base, pad),
              Len(DigitsOf(i, base)) <= LtBits)

\* A value with an operator<< of its own may go back over what is there.
LtSeek(pos) ==
  /\ pos <= Len(ltRef)
  /\ Streamed(Seek(lt.buf, pos), SubSeq(ltRef, 1, pos), TRUE)

\* flush: a zero is put behind the text, and the text becomes an entry.
Flushed(b) == ClearBuf(Sputc(b, Nul))
FlushedText(b) == SubSeq(Sputc(b, Nul).data.chars, 1, b.pptr)

LtFlush(lvl) ==
  /\ lt' = [lt EXCEPT !.buf = Flushed(@), !.level = lvl, !.enabled = lvl \in LtEnabled]
  /\ ltRef' = <<>>
  /\ ltEntry' = [recorded |-> <<lt.level, FlushedText(lt.buf)>>, expected |-> <<lt.level, ltRef>>]

\* flushIfNotEmpty, before the level changes or, with "none", the stream ends.
LtLevel(lvl) ==
  /\ Open
  /\ IF lt.buf.pptr # 0 THEN LtFlush(lvl)
     ELSE /\ lt' = [lt EXCEPT !.level = lvl, !.enabled = lvl \in LtEnabled]
          /\ ltEntry' = [recorded |-> <<>>,
                         expected |-> IF ltRef = <<>> THEN <<>> ELSE <<lt.level, ltRef>>]
          /\ UNCHANGED ltRef

\* endl
LtEndl == Open /\ lt.enabled /\ LtFlush(lt.level)

\* VPrintf: vsnprintf writes at most PrintfBuffer - 1 characters and a zero, and
\* returns the length it wanted; a text that does not fit is formatted again.
PrintfText(n) ==
  IF n <= PrintfBuffer
  THEN [i \in 1..n |-> IF i < PrintfBuffer THEN Letters(n)[i] ELSE Nul]
  ELSE Letters(n)

LtPrintf(lvl, n) ==
  /\ n = PrintfBuffer => "full printf buffer" \in LtEdges
  /\ ltEntry' = IF lvl \in LtEnabled
                THEN [recorded |-> <<lvl, PrintfText(n)>>, expected |-> <<lvl, Letters(n)>>]
                ELSE NoEntry
  /\ UNCHANGED <<lt, ltRef>>

Integer == -Power(2, LtBits - 1)..Power(2, LtBits - 1) - 1

LtNext ==
  \/ \E lvl \in LtLevels : LtOpen(lvl)
  \/ \E n \in 0..LtMaxText : LtString(n)
  \/ LtChar
  \/ \E i \in Integer, base \in LtBases, pad \in LtPads : LtInteger(i, base, pad)
  \/ \E pos \in 0..LtMaxText : LtSeek(pos)
  \/ \E lvl \in LtLevels \cup {"none"} : LtLevel(lvl)
  \/ LtEndl
  \/ \E lvl \in LtLevels, n \in 0..LtMaxText : LtPrintf(lvl, n)

LtSpec == LtInit /\ [][LtNext]_ltVars

-----------------------------------------------------------------------------
\* "Enough for integers in base 2 or greater" (_qwrite.hpp, line 60): the digits of
\* every integer, and its sign, fit in the buffer write_integer has for them.
DigitsFit == lt.fits

\* What a program streams into a log statement or formats is what the sinks get,
\* at the level of the statement, however often the buffer was grown, moved,
\* cleared or gone back in; the stream never writes outside its vector or through
\* pointers into memory that the vector has given up.
TextArrives ==
  /\ DigitsFit
  /\ lt.buf.sound /\ lt.buf.base = Data(lt.buf.data)
  /\ lt.buf.pptr <= lt.buf.epptr /\ lt.buf.epptr <= Len(lt.buf.data.chars)
  /\ Text(lt.buf) = ltRef
  /\ ltEntry.recorded = ltEntry.expected
=============================================================================

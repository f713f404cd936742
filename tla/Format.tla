------------------------------- MODULE Format -------------------------------
(***************************************************************************)
(* Formatting, lib/snprintf.c: one call of vsnprintf, a round of the loop  *)
(* of dopr at a time.  A character is a string of length 1, or NUL; a      *)
(* format is a sequence of them, and what follows its last one is NUL.     *)
(*                                                                         *)
(* An argument is [long |-> n], [char |-> c], [text |-> s] or, for the null *)
(* pointer, [null |-> 0], as its conversion expects; a double is           *)
(* [double |-> n], n parts of 1 / SCALE.  int and long have the same width *)
(* here, and the lines that told short int apart are commented out, so     *)
(* that h and l matter to %n alone.                                        *)
(***************************************************************************)
EXTENDS Integers, Sequences, SequencesExt

CONSTANTS
    LONG,          \* 2^32: the number of values of a long
    SHORT,         \* 2^16
    SCALE,
    Calls,         \* what callers ask for: fmt and args
    Sizes          \* the sizes of their buffers

NUL == "NUL"
ANY == "?"         \* what the buffer holds before the call, and what lies behind it
Digit == <<"0", "1", "2", "3", "4", "5", "6", "7", "8", "9">>
Lower == Digit \o <<"a", "b", "c", "d", "e", "f">>
Upper == Digit \o <<"A", "B", "C", "D", "E", "F">>
Flag == {"-", "+", " ", "#", "0"}

\* "%w" drops the character behind it: no call has its format end there.
EndsInW(fmt) == fmt # <<>> /\ Last(fmt) = "w"

\* The values of a long, and of a double fmtfp may keep the integral part of in one.
IsLong(n) == n \in -(LONG \div 2) .. LONG \div 2 - 1
IsDouble(n) == n \in Int /\ ((IF n < 0 THEN -n ELSE n) \div SCALE) + 1 < LONG \div 2

ASSUME FormatAssumption ==
    /\ {LONG, SHORT, SCALE} \subseteq Nat \ {0}
    /\ Sizes \subseteq Nat \ {0}
    /\ \E largest \in Sizes : \A n \in Sizes : n <= largest
    \* The digits a number of 32 bits can have.
    /\ \E n \in 1 .. 8 : LONG <= 16 ^ n
    /\ \E n \in 1 .. 10 : LONG <= 10 ^ n
    /\ \E n \in 1 .. 11 : LONG <= 8 ^ n
    /\ \A c \in Calls :
          /\ c.fmt \in Seq(STRING) /\ ~EndsInW(c.fmt)
          /\ \A i \in DOMAIN c.args : /\ "long" \in DOMAIN c.args[i] => IsLong(c.args[i].long)
                                      /\ "double" \in DOMAIN c.args[i] => IsDouble(c.args[i].double)
                                      /\ "text" \in DOMAIN c.args[i] => c.args[i].text \in Seq(STRING)

VARIABLES
    call,        \* fmt, args, and maxlen, the size of the buffer
    state,       \* DP_S_..., and IDLE, and RETURNED when vsnprintf has returned
    pos, ap,     \* where format and the list of arguments have got to
    spec,        \* flags, cflags, min and max
    buffer, currlen,
    num,         \* what %n has stored
    full,        \* everything dopr_outch has been called with
    field        \* the last conversion: its character, argument, spec and what it printed

fvars == <<call, state, pos, ap, spec, buffer, currlen, num, full, field>>

NoSpec == [flags |-> {}, cflags |-> "", min |-> 0, max |-> -1]
NoCall == [fmt |-> <<>>, args |-> <<>>, maxlen |-> 0]
NoField == [conv |-> "", arg |-> [null |-> 0], spec |-> NoSpec, text |-> <<>>]
Cell == 0 .. Max(Sizes) + 1
-----------------------------------------------------------------------------
(* Fields.                                                                 *)

Pos(n) == IF n < 0 THEN 0 ELSE n
MAX(p, q) == IF p >= q THEN p ELSE q
Copies(c, n) == [i \in 1 .. Pos(n) |-> c]

\* How many digits u has, if convert[20] has room for them.
place(u, base) == CHOOSE n \in 1 .. 19 : /\ n = 19 \/ u < base ^ n
                                        /\ \A m \in 1 .. n - 1 : ~(u < base ^ m)

\* The digits of u, which the code gets from the last one on.
LastDigitFirst(u, base, caps) ==
    [i \in 1 .. place(u, base) |->
        (IF caps THEN Upper ELSE Lower)[((u \div base ^ (i - 1)) % base) + 1]]
Digits(u, base, caps) ==
    [i \in 1 .. place(u, base) |->
        (IF caps THEN Upper ELSE Lower)[((u \div base ^ (place(u, base) - i)) % base) + 1]]

char_to_int(c) == (CHOOSE i \in DOMAIN Digit : Digit[i] = c) - 1

Sign(negative, flags) ==
    IF negative THEN <<"-">> ELSE IF "+" \in flags THEN <<"+">> ELSE IF " " \in flags THEN <<" ">> ELSE <<>>

\* The text with its padding of spaces on the one side or on the other.
Justified(text, padlen, flags) ==
    IF "-" \in flags THEN text \o Copies(" ", padlen) ELSE Copies(" ", padlen) \o text

\* With the flag 0 the spaces become zeros, as many as the larger padding has.
ZeroPad(zpadlen, spadlen) == MAX(zpadlen, spadlen)

fmtint(value, base, min, max, flags) ==
    LET signed == "unsigned" \notin flags
        sign == IF signed THEN Sign(value < 0, flags) ELSE <<>>
        uvalue == (IF signed /\ value < 0 THEN -value ELSE value) % LONG
        digits == Digits(uvalue, base, "up" \in flags)
        zpadlen == Pos(max - Len(digits))
        spadlen == Pos(min - MAX(Pos(max), Len(digits)) - Len(sign))
    IN  IF "0" \in flags
        THEN sign \o Copies("0", ZeroPad(zpadlen, spadlen)) \o digits
        ELSE Justified(sign \o Copies("0", zpadlen) \o digits, spadlen, flags)

\* The padding counts against max as the string does.
fmtstr(value, flags, min, max) ==
    LET text == Justified(value, min - Len(value), flags)
    IN  SubSeq(text, 1, IF Len(text) < max THEN Len(text) ELSE max)

\* round(pow10(max) * part), part being a number of parts of 1 / SCALE.
Rounded(max, part) == (2 * 10 ^ max * part + SCALE) \div (2 * SCALE)

\* How many digits behind the point.
Decimals(max) == IF max < 0 THEN 6 ELSE IF max > 9 THEN 9 ELSE max

\* Zeros that are missing behind the point come last.
fmtfp(fvalue, flags, min, max0) ==
    LET max == Decimals(max0)
        ufvalue == IF fvalue < 0 THEN -fvalue ELSE fvalue
        frac == Rounded(max, ufvalue % SCALE)
        carry == IF frac >= 10 ^ max THEN 1 ELSE 0
        int == Digits((ufvalue \div SCALE) + carry, 10, FALSE)
        fraction == Digits(frac - carry * 10 ^ max, 10, FALSE)
        sign == Sign(fvalue < 0, flags)
        padlen == Pos(min - Len(int) - max - 1 - Len(sign))
        number == int \o (IF max > 0 THEN <<".">> \o fraction ELSE <<>>)
                      \o Copies("0", max - Len(fraction))
    IN  IF "0" \in flags /\ "-" \notin flags /\ padlen > 0
        THEN sign \o Copies("0", padlen - Len(sign)) \o number
        ELSE Justified(sign \o number, padlen, flags)
-----------------------------------------------------------------------------
(* The buffer.                                                             *)

Unchecked(i) == TRUE
HasRoom(i) == i < call.maxlen

\* dopr_outch, for one character of text after the other.
dopr_outch(text) ==
    LET stored == {i \in Cell : i >= currlen /\ i - currlen < Len(text) /\ HasRoom(i)}
    IN  /\ buffer' = [i \in Cell |-> IF i \in stored THEN text[i - currlen + 1] ELSE buffer[i]]
        /\ currlen' = currlen + Cardinality(stored)
        /\ full' = full \o text

NoOutput == UNCHANGED <<buffer, currlen, full>>

\* Where the NUL goes when dopr is done: over the last character of a full buffer.
End(n) == IF n < call.maxlen - 1 THEN n ELSE call.maxlen - 1

strlen(s) == CHOOSE n \in DOMAIN s : s[n] = NUL /\ \A i \in 0 .. n - 1 : s[i] # NUL
-----------------------------------------------------------------------------
(* dopr.                                                                   *)

ch == IF pos <= Len(call.fmt) THEN call.fmt[pos] ELSE NUL
arg == call.args[ap]

\* The round of the loop that begins in state s, and does not leave it.
Reading(s) == state = s /\ ch # NUL /\ currlen < call.maxlen

KeepCh == pos' = pos
NextCh == pos' = pos + 1

Default ==
    /\ Reading("DEFAULT")
    /\ IF ch = "%" THEN state' = "FLAGS" /\ NoOutput ELSE dopr_outch(<<ch>>) /\ UNCHANGED state
    /\ NextCh
    /\ UNCHANGED <<call, ap, spec, num, field>>

Flags ==
    /\ Reading("FLAGS")
    /\ IF ch \in Flag
       THEN spec' = [spec EXCEPT !.flags = @ \cup {ch}] /\ NextCh /\ UNCHANGED state
       ELSE state' = "MIN" /\ KeepCh /\ UNCHANGED spec
    /\ NoOutput /\ UNCHANGED <<call, ap, num, field>>

\* A width or a precision: digits, or * and an argument.  seen is the number so
\* far, and then the state after it.
Number(what, seen, then) ==
    /\ \/ /\ ch \in Range(Digit)
          /\ spec' = [spec EXCEPT ![what] = 10 * seen + char_to_int(ch)]
          /\ NextCh /\ UNCHANGED <<state, ap>>
       \/ /\ ch = "*"
          /\ spec' = [spec EXCEPT ![what] = arg.long] /\ ap' = ap + 1
          /\ NextCh /\ state' = then
       \/ /\ ch \notin Range(Digit) \cup {"*"}
          /\ state' = then
          /\ KeepCh /\ UNCHANGED <<spec, ap>>
    /\ NoOutput /\ UNCHANGED <<call, num, field>>

NoWayOut == Reading("MIN") /\ Number("min", spec.min, "MIN")
MinWidth == Reading("MIN") /\ Number("min", spec.min, "DOT")

Dot ==
    /\ Reading("DOT")
    /\ IF ch = "." THEN state' = "MAX" /\ NextCh ELSE state' = "MOD" /\ KeepCh
    /\ NoOutput /\ UNCHANGED <<call, ap, spec, num, field>>

MaxWidth == Reading("MAX") /\ Number("max", Pos(spec.max), "MOD")

Mod ==
    /\ Reading("MOD")
    /\ IF ch \in {"h", "l", "L"} THEN spec' = [spec EXCEPT !.cflags = ch] /\ NextCh
                                 ELSE UNCHANGED spec /\ KeepCh
    /\ state' = "CONV"
    /\ NoOutput /\ UNCHANGED <<call, ap, num, field>>

\* What a conversion prints, and the flags it adds.
Added(conv) == CASE conv = "X" -> {"up", "unsigned"} [] conv \in {"o", "u", "x"} -> {"unsigned"}
                 [] OTHER -> {}
Base(conv) == CASE conv = "o" -> 8 [] conv \in {"x", "X", "p"} -> 16 [] OTHER -> 10
IntConv == {"d", "i", "o", "u", "x", "X", "p"}

StringOf(a) == IF "null" \in DOMAIN a THEN <<"<", "N", "U", "L", "L", ">">> ELSE a.text

Text(conv, a, s) ==
    CASE conv \in IntConv -> fmtint(a.long, Base(conv), s.min, s.max, s.flags \cup Added(conv))
      [] conv = "f" -> fmtfp(a.double, s.flags, s.min, s.max)
      [] conv = "c" -> <<a.char>>
      [] conv = "s" -> fmtstr(StringOf(a), s.flags, s.min, IF s.max < 0 THEN call.maxlen ELSE s.max)

\* %e and %g take their argument and print nothing.
Prints == IntConv \cup {"f", "c", "s"}
Takes == Prints \cup {"e", "E", "g", "G", "n"}

Skipped(conv) == IF conv = "w" THEN 2 ELSE 1

Conv ==
    /\ Reading("CONV")
    /\ \/ /\ ch \in Prints
          /\ field' = [conv |-> ch, arg |-> arg, spec |-> spec, text |-> Text(ch, arg, spec)]
          /\ dopr_outch(field'.text)
       \/ /\ ch = "%"
          /\ dopr_outch(<<ch>>) /\ UNCHANGED field
       \/ /\ ch \notin Prints \cup {"%"}
          /\ NoOutput /\ UNCHANGED field
    /\ num' = IF ch = "n" THEN (IF spec.cflags = "h" THEN currlen % SHORT ELSE currlen) ELSE num
    /\ ap' = IF ch \in Takes THEN ap + 1 ELSE ap
    /\ pos' = pos + Skipped(ch)
    /\ state' = "DEFAULT" /\ spec' = NoSpec
    /\ UNCHANGED call

\* The format has ended, wherever it was, or the buffer is full; vsnprintf
\* returns what it finds the length of the string to be.
Done ==
    /\ state \notin {"IDLE", "RETURNED"}
    /\ ch = NUL \/ currlen >= call.maxlen
    /\ buffer' = [buffer EXCEPT ![End(currlen)] = NUL]
    /\ state' = "RETURNED"
    /\ UNCHANGED <<call, pos, ap, spec, currlen, num, full, field>>

vsnprintf(count, c) ==
    /\ call' = [fmt |-> c.fmt, args |-> c.args, maxlen |-> count]
    /\ state' = "DEFAULT" /\ pos' = 1 /\ ap' = 1 /\ spec' = NoSpec
    /\ buffer' = [i \in Cell |-> IF i = 0 THEN NUL ELSE ANY]
    /\ currlen' = 0 /\ num' = -1 /\ full' = <<>> /\ field' = NoField

dopr == Default \/ Flags \/ MinWidth \/ Dot \/ MaxWidth \/ Mod \/ Conv \/ Done

FormatInit ==
    /\ call = NoCall /\ state = "IDLE" /\ pos = 1 /\ ap = 1 /\ spec = NoSpec
    /\ buffer = [i \in Cell |-> ANY] /\ currlen = 0 /\ num = -1 /\ full = <<>> /\ field = NoField

snprintf(count, c) == state = "IDLE" /\ vsnprintf(count, c)

FormatNext == dopr \/ \E count \in Sizes, c \in Calls : snprintf(count, c)
-----------------------------------------------------------------------------
\* The buffer always holds the first characters of what was printed: as many as
\* fit while dopr runs, and one less with a NUL behind them when it is done.  No
\* byte from maxlen on changes, nor any byte between the NUL and there, and the
\* format is not read past its end.
BufferHoldsPrefix ==
    state # "IDLE" =>
        LET room == IF state = "RETURNED" THEN call.maxlen - 1 ELSE call.maxlen
            kept == IF Len(full) < room THEN Len(full) ELSE room
        IN  /\ \A i \in Cell :
                  buffer[i] = IF i < kept THEN full[i + 1]
                              ELSE IF i = kept /\ (state = "RETURNED" \/ kept = 0) THEN NUL ELSE ANY
            /\ pos <= Len(call.fmt) + 1

\* Whatever takes an argument takes the one the caller put there for it: none is
\* skipped, nor taken twice, by *, by a conversion that prints nothing, or by one
\* that is unknown.
ArgumentsMatch ==
    LET Is(kind) == ap \in DOMAIN call.args /\ kind \in DOMAIN arg
    IN  /\ state \in {"MIN", "MAX"} /\ ch = "*" => Is("long")
        /\ state = "CONV" => /\ ch \in IntConv => Is("long")
                             /\ ch \in {"f", "e", "E", "g", "G"} => Is("double")
                             /\ ch = "c" => Is("char")
                             /\ ch = "s" => Is("text") \/ Is("null")

\* The number the digits of a text read as, whatever stands between them.
IsDigit(c) == c \in Range(Lower) \cup Range(Upper)
DigitOf(c) == IF c \in Range(Lower) THEN (CHOOSE i \in DOMAIN Lower : Lower[i] = c) - 1
              ELSE (CHOOSE i \in DOMAIN Upper : Upper[i] = c) - 1
Value(text, base) ==
    LET read[k \in 0 .. Len(text)] ==
            IF k = 0 THEN 0
            ELSE IF IsDigit(text[k]) THEN read[k - 1] * base + DigitOf(text[k]) ELSE read[k - 1]
    IN  read
ReadsAs(text, base) == LET abs == Value(text, base)[Len(text)] IN IF "-" \in Range(text) THEN -abs ELSE abs
DigitsIn(text) == Cardinality({i \in DOMAIN text : IsDigit(text[i])})

IntegerIsRight ==
    LET s == field.spec
        signed == field.conv \in {"d", "i", "p"}
        value == IF signed THEN field.arg.long ELSE field.arg.long % LONG
        abs == IF value < 0 THEN -value ELSE value
        signs == IF value < 0 \/ (signed /\ s.flags \cap {"+", " "} # {}) THEN 1 ELSE 0
        digits == MAX(s.max, Len(Digits(abs, Base(field.conv), FALSE)))
    IN  /\ ReadsAs(field.text, Base(field.conv)) = value
        /\ DigitsIn(field.text) >= digits
        /\ \/ Len(field.text) = MAX(s.min, signs + digits)
           \/ "0" \in s.flags /\ s.max > Len(Digits(abs, Base(field.conv), FALSE))

\* The string begins behind the padding, or the padding behind the string.
StringIsRight ==
    LET s == field.spec
        value == StringOf(field.arg)
        limit == IF s.max < 0 THEN call.maxlen ELSE s.max
        width == MAX(s.min, Len(value))
        before == IF "-" \in s.flags THEN 0 ELSE width - Len(value)
    IN  /\ Len(field.text) = IF width < limit THEN width ELSE limit
        /\ \A i \in DOMAIN field.text :
              field.text[i] = IF i - before \in DOMAIN value THEN value[i - before] ELSE " "

DoubleIsRight ==
    LET s == field.spec
        abs == IF field.arg.double < 0 THEN -field.arg.double ELSE field.arg.double
        max == Decimals(s.max)
        total == (abs \div SCALE) * 10 ^ max + Rounded(max, abs % SCALE)
        frac == total % 10 ^ max
        shown == ReadsAs(field.text, 10)
    IN  /\ (shown \in {total, -total}) <=> (frac = 0 \/ 10 * frac >= 10 ^ max)
        /\ shown # 0 => (shown < 0 <=> field.arg.double < 0)
        /\ \/ Len(field.text) >= s.min
           \/ max = 0
           \/ "0" \in s.flags /\ Sign(field.arg.double < 0, s.flags) # <<>>

\* A field is that of the argument meant for it, reads back as it, and is as wide
\* as asked and no wider.  The exceptions are the code's own: a precision above
\* the number of digits makes a field with the flag 0 narrower, and so do a
\* double's sign and missing point; the precision of a string limits its padding,
\* too; a fraction that begins with zeros has them at its end.
FieldsAreRight ==
    /\ ArgumentsMatch
    /\ field.conv \in IntConv => IntegerIsRight
    /\ field.conv = "s" => StringIsRight
    /\ field.conv = "f" => DoubleIsRight
=============================================================================

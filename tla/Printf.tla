--------------------------------- MODULE Printf ---------------------------------
(***************************************************************************)
(* The formatter of libc/printf.c behind printf, sprintf, snprintf and     *)
(* vsprintf: one call of _vsnprintf, from the start of the format to the   *)
(* final NUL.                                                              *)
(*                                                                         *)
(* A format is the memory from its first char on: its text, its NUL, and   *)
(* what lies behind it, for a format that ends within a directive is read  *)
(* past its NUL; two NULs in a row end whatever is read.  What va_arg      *)
(* finds is chosen where the code asks for it, among the values of the     *)
(* type that is asked for.  A field is emitted in one step.  The floating  *)
(* point directives (f, e, g) are left out.                                *)
(***************************************************************************)
EXTENDS Integers, FiniteSets, SequencesExt, Numerals

CONSTANTS
    Calls,      \* the calls: [entry, count, format]
    Space,      \* bytes of memory from the buffer on that are looked at
    Values,     \* numbers an argument may be
    Letters,    \* chars an argument may be
    Strings,    \* strings an argument may point to, without their NUL
    NtoaSize,   \* PRINTF_NTOA_BUFFER_SIZE
    VsprintfLimit,  \* the size vsprintf takes its buffer for
    SizeMax,    \* the largest size_t
    CharBits, ShortBits, IntBits, LongBits, LongLongBits,
    PointerWidth    \* sizeof(void *) * 2

NUL   == "NUL"
Fresh == "fresh"    \* what a byte holds that was never written

Entries == {"printf", "fctprintf", "sprintf", "snprintf", "vsprintf", "measure"}

ASSUME PrintfAssumption ==
    /\ Space \in Nat /\ SizeMax \in Nat /\ VsprintfLimit \in Nat
    /\ NtoaSize \in Nat \ {0} /\ PointerWidth \in Nat
    /\ {CharBits, ShortBits, IntBits, LongBits, LongLongBits} \subseteq Nat \ {0}
    /\ VsprintfLimit <= SizeMax /\ PointerWidth <= SizeMax
    /\ Values \subseteq Int /\ \A s \in Strings : s \in Seq(Letters)
    /\ \A c \in Calls : /\ c.entry \in Entries
                        /\ c.count \in Nat /\ c.count <= SizeMax
                        /\ Len(c.format) \in Nat /\ Len(c.format) > 1
                        /\ c.format[Len(c.format)] = NUL
                        /\ c.format[Len(c.format) - 1] = NUL

Cells  == 0 .. Space - 1
Digits == <<"0", "1", "2", "3", "4", "5", "6", "7", "8", "9">>
Lower  == Digits \o <<"a", "b", "c", "d", "e", "f">>
Upper  == Digits \o <<"A", "B", "C", "D", "E", "F">>

IsDigit(c) == c \in {Digits[k] : k \in 1 .. 10}

VARIABLES
    out,        \* the output function: _out_char, _out_buffer or _out_null
    maxlen, memory, idx,
    format, pos,    \* format + pos - 1 is the pointer of the code
    pc, flags, width, precision,
    text,       \* history: every char given to out so far
    field       \* history: the number that was formatted last

directive == <<flags, width, precision>>
output    == <<memory, idx, text>>
vars == <<out, maxlen, output, format, pos, pc, directive, field>>

NoField == [text |-> <<>>]

(* The entry points; "measure" is a snprintf without a buffer.             *)
OutOf(entry) ==
    IF entry = "printf" THEN "_out_char"
    ELSE IF entry = "fctprintf" THEN "_out_fct"
    ELSE IF entry = "measure" THEN "_out_null" ELSE "_out_buffer"

LimitOf(call) ==
    IF call.entry \in {"printf", "fctprintf", "sprintf"} THEN SizeMax
    ELSE IF call.entry = "vsprintf" THEN VsprintfLimit ELSE call.count

Init ==
    /\ \E call \in Calls : /\ out = OutOf(call.entry)
                           /\ maxlen = LimitOf(call)
                           /\ format = call.format
    /\ memory = [i \in Cells |-> Fresh] /\ idx = 0 /\ text = <<>>
    /\ pos = 1 /\ pc = "text"
    /\ flags = {} /\ width = 0 /\ precision = 0
    /\ field = NoField

-----------------------------------------------------------------------------
(* Mutant: the byte behind the buffer is written, too.                     *)
StoredOneMore(at, s) ==
    [i \in Cells |-> IF /\ out = "_out_buffer" /\ i <= maxlen
                        /\ i >= at /\ i < at + Len(s)
                     THEN s[i - at + 1] ELSE memory[i]]

(* The memory after the chars of s were given to out from index at on.     *)
Stored(at, s) ==
    [i \in Cells |-> IF /\ out = "_out_buffer" /\ i < maxlen
                        /\ i >= at /\ i < at + Len(s)
                     THEN s[i - at + 1] ELSE memory[i]]

Out(s) ==
    /\ memory' = Stored(idx, s)
    /\ idx' = idx + Len(s)
    /\ text' = text \o s

Lesser(a, b)  == IF a < b THEN a ELSE b
Greater(a, b) == IF a > b THEN a ELSE b

Times(c, n) == [k \in 1 .. Greater(n, 0) |-> c]

-----------------------------------------------------------------------------
(* _ntoa_long and _ntoa_long_long: the digits, the last one first, until   *)
(* nothing is left of the value or the conversion buffer is full.          *)
DigitsOf(value, base, fs) ==
    LET left[k \in 0 .. NtoaSize] == IF k = 0 THEN value ELSE left[k - 1] \div base
        n == Min({NtoaSize} \cup {k \in 1 .. NtoaSize : left[k] = 0})
        symbols == IF "UPPERCASE" \in fs THEN Upper ELSE Lower
    IN IF "PRECISION" \in fs /\ value = 0 THEN <<>>
       ELSE [k \in 1 .. n |-> symbols[(left[k - 1] % base) + 1]]

Room(buf, s) == IF Len(buf) < NtoaSize THEN buf \o s ELSE buf

UpTo(buf, n) == buf \o Times("0", Lesser(n, NtoaSize) - Len(buf))

(* A sign takes one char of the width that zeros fill up.                  *)
WidthOfZeros(negative, w, fs) ==
    IF /\ "LEFT" \notin fs /\ w > 0 /\ "ZEROPAD" \in fs
       /\ negative \/ "PLUS" \in fs \/ "SPACE" \in fs
    THEN w - 1 ELSE w

ZeroPadded(buf, prec, w, fs) ==
    IF "LEFT" \in fs THEN buf
    ELSE UpTo(UpTo(buf, prec), IF "ZEROPAD" \in fs THEN w ELSE 0)

(* The prefix of # takes the place of up to two digits, if the number is   *)
(* as long as its width or precision: it takes them for padded zeros.      *)
Shortened(buf, base, prec, w, fs) ==
    IF "PRECISION" \notin fs /\ Len(buf) > 0 /\ Len(buf) \in {prec, w}
    THEN SubSeq(buf, 1, Len(buf) - (IF base = 16 /\ Len(buf) > 1 THEN 2 ELSE 1))
    ELSE buf

Letter(base, fs) ==
    IF base = 16 THEN <<IF "UPPERCASE" \in fs THEN "X" ELSE "x">>
    ELSE IF base = 2 THEN <<"b">> ELSE <<>>

Prefixed(buf, base, prec, w, fs) ==
    IF "HASH" \notin fs THEN buf
    ELSE Room(Room(Shortened(buf, base, prec, w, fs), Letter(base, fs)), <<"0">>)

Sign(negative, fs) ==
    IF negative THEN <<"-">>
    ELSE IF "PLUS" \in fs THEN <<"+">> ELSE IF "SPACE" \in fs THEN <<" ">> ELSE <<>>

(* _out_rev.                                                               *)
Reversed(buf, w, fs) ==
    (IF "LEFT" \in fs \/ "ZEROPAD" \in fs THEN <<>> ELSE Times(" ", w - Len(buf)))
    \o Reverse(buf)
    \o (IF "LEFT" \in fs THEN Times(" ", w - Len(buf)) ELSE <<>>)

(* Mutant: the width of a number with a sign is not reduced.               *)
NtoaFormatWide(buf, negative, base, prec, w, fs) ==
    LET padded == ZeroPadded(buf, prec, w, fs)
    IN Reversed(Room(Prefixed(padded, base, prec, w, fs), Sign(negative, fs)), w, fs)

NtoaFormat(buf, negative, base, prec, w, fs) ==
    LET w1     == WidthOfZeros(negative, w, fs)
        padded == ZeroPadded(buf, prec, w1, fs)
    IN Reversed(Room(Prefixed(padded, base, prec, w1, fs), Sign(negative, fs)), w1, fs)

Ntoa(value, negative, base, prec, w, fs) ==
    LET fs1 == IF value = 0 THEN fs \ {"HASH"} ELSE fs
    IN NtoaFormat(DigitsOf(value, base, fs1), negative, base, prec, w, fs1)

-----------------------------------------------------------------------------
(* Reading the format.                                                     *)
Ch == format[pos]

(* One round of _atoi, in an unsigned int.                                 *)
DigitValue(c)  == (CHOOSE k \in 1 .. 10 : Digits[k] = c) - 1
Appended(n, c) == (n * 10 + DigitValue(c)) % (SizeMax + 1)

FlagOf == [c \in {"0", "-", "+", " ", "#"} |->
              IF c = "0" THEN "ZEROPAD" ELSE IF c = "-" THEN "LEFT"
              ELSE IF c = "+" THEN "PLUS" ELSE IF c = " " THEN "SPACE" ELSE "HASH"]

Unsigned(n, bits) == n % Power(2)[bits]
Signed(n, bits) ==
    LET m == Unsigned(n, bits)
    IN IF m >= Power(2)[bits - 1] THEN m - Power(2)[bits] ELSE m

Literal ==
    /\ pc = "text" /\ Ch \notin {"%", NUL}
    /\ Out(<<Ch>>) /\ pos' = pos + 1
    /\ UNCHANGED <<out, maxlen, format, pc, directive, field>>

Percent ==
    /\ pc = "text" /\ Ch = "%"
    /\ flags' = {} /\ width' = 0 /\ precision' = 0 /\ field' = NoField
    /\ pos' = pos + 1 /\ pc' = "flags"
    /\ UNCHANGED <<out, maxlen, output, format>>

Flag ==
    /\ pc = "flags"
    /\ IF Ch \in DOMAIN FlagOf
       THEN flags' = flags \cup {FlagOf[Ch]} /\ pos' = pos + 1 /\ pc' = pc
       ELSE pc' = "width" /\ UNCHANGED <<flags, pos>>
    /\ UNCHANGED <<out, maxlen, output, format, width, precision, field>>

Ints == {n \in Values : Signed(n, IntBits) = n}

(* An int is no wider than a size_t.                                       *)
ASSUME IntAssumption == \A n \in Ints : -SizeMax <= n /\ n <= SizeMax

Width ==
    /\ pc \in {"width", "width digits"}
    /\ \/ /\ IsDigit(Ch) /\ pc' = "width digits"
          /\ width' = Appended(width, Ch) /\ pos' = pos + 1 /\ flags' = flags
       \/ /\ pc = "width" /\ Ch = "*" /\ pc' = "point" /\ pos' = pos + 1
          /\ \E w \in Ints : /\ width' = IF w < 0 THEN -w ELSE w
                             /\ flags' = IF w < 0 THEN flags \cup {"LEFT"} ELSE flags
       \/ /\ ~ IsDigit(Ch) /\ (pc = "width" => Ch # "*") /\ pc' = "point"
          /\ UNCHANGED <<width, pos, flags>>
    /\ UNCHANGED <<out, maxlen, output, format, precision, field>>

(* Mutant: the char behind the point is skipped whatever it is.            *)
PointSkipping ==
    /\ pc = "point" /\ UNCHANGED <<out, maxlen, output, format, width, precision, field>>
    /\ IF Ch = "." THEN flags' = flags \cup {"PRECISION"} /\ pos' = pos + 2 /\ pc' = "precision"
       ELSE pc' = "length" /\ UNCHANGED <<flags, pos>>

Point ==
    /\ pc = "point" /\ UNCHANGED <<out, maxlen, output, format, width, precision, field>>
    /\ IF Ch = "." THEN flags' = flags \cup {"PRECISION"} /\ pos' = pos + 1 /\ pc' = "precision"
       ELSE pc' = "length" /\ UNCHANGED <<flags, pos>>

Precision ==
    /\ pc \in {"precision", "precision digits"}
    /\ \/ /\ IsDigit(Ch) /\ pc' = "precision digits"
          /\ precision' = Appended(precision, Ch) /\ pos' = pos + 1
       \/ /\ pc = "precision" /\ Ch = "*" /\ pc' = "length" /\ pos' = pos + 1
          /\ \E p \in Ints : precision' = IF p > 0 THEN p ELSE 0
       \/ /\ ~ IsDigit(Ch) /\ (pc = "precision" => Ch # "*") /\ pc' = "length"
          /\ UNCHANGED <<precision, pos>>
    /\ UNCHANGED <<out, maxlen, output, format, flags, width, field>>

(* ptrdiff_t and size_t are as long as a long, intmax_t is not.            *)
Length ==
    /\ pc = "length" /\ pc' = "specifier"
    /\ LET twice == pos < Len(format) /\ format[pos + 1] = Ch
       IN /\ flags' = flags \cup
                (IF Ch = "l" THEN {"LONG"} \cup (IF twice THEN {"LONG_LONG"} ELSE {})
                 ELSE IF Ch = "h" THEN {"SHORT"} \cup (IF twice THEN {"CHAR"} ELSE {})
                 ELSE IF Ch \in {"t", "z"} THEN {"LONG"}
                 ELSE IF Ch = "j" THEN {"LONG_LONG"} ELSE {})
          /\ pos' = pos + (IF Ch \in {"l", "h"} /\ twice THEN 2
                           ELSE IF Ch \in {"l", "h", "t", "z", "j"} THEN 1 ELSE 0)
    /\ UNCHANGED <<out, maxlen, output, format, width, precision, field>>

-----------------------------------------------------------------------------
(* The directives.                                                         *)
BaseOf == [c \in {"d", "i", "u", "x", "X", "o", "b"} |->
              IF c \in {"x", "X"} THEN 16 ELSE IF c = "o" THEN 8
              ELSE IF c = "b" THEN 2 ELSE 10]

(* What remains of the flags for this specifier.                           *)
FlagsOf(c) ==
    ((flags \cup (IF c = "X" THEN {"UPPERCASE"} ELSE {}))
        \ (IF BaseOf[c] = 10 THEN {"HASH"} ELSE {}))
        \ ((IF c \in {"d", "i"} THEN {} ELSE {"PLUS", "SPACE"})
           \cup (IF "PRECISION" \in flags THEN {"ZEROPAD"} ELSE {}))

(* The bits of the type va_arg is asked for, and of the value made of it.  *)
ArgBits ==
    IF "LONG_LONG" \in flags THEN LongLongBits
    ELSE IF "LONG" \in flags THEN LongBits ELSE IntBits

(* Mutant: hh sets the flag of h, too, and that is asked for first.        *)
ValueBitsShort ==
    IF {"LONG_LONG", "LONG"} \cap flags # {} THEN ArgBits
    ELSE IF "SHORT" \in flags THEN ShortBits
    ELSE IF "CHAR" \in flags THEN CharBits ELSE IntBits

ValueBits ==
    IF {"LONG_LONG", "LONG"} \cap flags # {} THEN ArgBits
    ELSE IF "CHAR" \in flags THEN CharBits
    ELSE IF "SHORT" \in flags THEN ShortBits ELSE IntBits

EndDirective == pos' = pos + 1 /\ pc' = "text"

Integer ==
    /\ pc = "specifier" /\ Ch \in DOMAIN BaseOf
    /\ LET isSigned == Ch \in {"d", "i"}
           Typed(n, bits) == IF isSigned THEN Signed(n, bits) ELSE Unsigned(n, bits)
       IN \E v \in {n \in Values : Typed(n, ArgBits) = n} :
             LET value == Typed(v, ValueBits)
                 s == Ntoa(IF value > 0 THEN value ELSE 0 - value, value < 0,
                           BaseOf[Ch], precision, width, FlagsOf(Ch))
             IN /\ Out(s)
                /\ field' = [text |-> s, arg |-> v, at |-> pos]
    /\ EndDirective
    /\ UNCHANGED <<out, maxlen, format, directive>>

Pointer ==
    /\ pc = "specifier" /\ Ch = "p"
    /\ width' = PointerWidth /\ flags' = flags \cup {"ZEROPAD", "UPPERCASE"}
    /\ \E v \in {n \in Values : Unsigned(n, LongBits) = n} :
          LET s == Ntoa(v, FALSE, 16, precision, width', flags')
          IN /\ Out(s)
             /\ field' = [text |-> s, arg |-> v, at |-> pos]
    /\ EndDirective
    /\ UNCHANGED <<out, maxlen, format, precision>>

(* A text in a field that is filled up with spaces.                        *)
InField(s) ==
    IF "LEFT" \in flags THEN s \o Times(" ", width - Len(s))
    ELSE Times(" ", width - Len(s)) \o s

Char ==
    /\ pc = "specifier" /\ Ch = "c"
    /\ \E c \in Letters : Out(InField(<<c>>))
    /\ EndDirective
    /\ UNCHANGED <<out, maxlen, format, directive, field>>

String ==
    /\ pc = "specifier" /\ Ch = "s"
    /\ \E s \in Strings :
          Out(InField(IF "PRECISION" \in flags
                      THEN SubSeq(s, 1, Lesser(Len(s), precision)) ELSE s))
    /\ EndDirective
    /\ UNCHANGED <<out, maxlen, format, directive, field>>

Unsupported == {"f", "F", "e", "E", "g", "G"}

(* Mutant: a directive that is not known shows nothing.                    *)
OtherDropped ==
    /\ pc = "specifier"
    /\ Ch \notin DOMAIN BaseOf \cup {"p", "c", "s"} \cup Unsupported
    /\ Out(<<>>) /\ EndDirective
    /\ UNCHANGED <<out, maxlen, format, directive, field>>

(* Any other char is shown, the NUL of an incomplete directive included.   *)
Other ==
    /\ pc = "specifier"
    /\ Ch \notin DOMAIN BaseOf \cup {"p", "c", "s"} \cup Unsupported
    /\ Out(<<Ch>>) /\ EndDirective
    /\ UNCHANGED <<out, maxlen, format, directive, field>>

(* Mutant: the NUL is put behind a text that fills the buffer.             *)
TerminateBehind ==
    /\ pc = "text" /\ Ch = NUL
    /\ memory' = Stored(IF idx < maxlen THEN idx ELSE maxlen, <<NUL>>)
    /\ pc' = "done"
    /\ UNCHANGED <<out, maxlen, idx, text, format, pos, directive, field>>

(* With a limit of 0 the last index is the largest size_t.                 *)
Terminate ==
    /\ pc = "text" /\ Ch = NUL
    /\ memory' = Stored(IF idx < maxlen THEN idx
                        ELSE IF maxlen = 0 THEN SizeMax ELSE maxlen - 1, <<NUL>>)
    /\ pc' = "done"
    /\ UNCHANGED <<out, maxlen, idx, text, format, pos, directive, field>>

-----------------------------------------------------------------------------
Next ==
    \/ Literal \/ Percent \/ Flag \/ Width \/ Point \/ Precision \/ Length
    \/ Integer \/ Pointer \/ Char \/ String \/ Other \/ Terminate
    \/ pc = "done" /\ UNCHANGED vars

Spec == Init /\ [][Next]_vars

-----------------------------------------------------------------------------
TypeOK ==
    /\ out \in {"_out_char", "_out_fct", "_out_buffer", "_out_null"}
    /\ maxlen \in 0 .. SizeMax /\ idx \in Nat
    /\ pos \in 1 .. Len(format)
    /\ flags \subseteq {FlagOf[c] : c \in DOMAIN FlagOf} \cup
           {"UPPERCASE", "PRECISION", "CHAR", "SHORT", "LONG", "LONG_LONG"}
    /\ width \in 0 .. SizeMax /\ precision \in 0 .. SizeMax
    /\ pc \in {"text", "flags", "width", "width digits", "point", "precision",
               "precision digits", "length", "specifier", "done"}

(* What the buffer holds in front of the limit: the text, and at the end   *)
(* its NUL, in place of the last char that fits if the text is too long.   *)
Held(i) ==
    IF out # "_out_buffer" \/ i >= maxlen THEN Fresh
    ELSE IF pc = "done" /\ i = Lesser(idx, maxlen - 1) THEN NUL
    ELSE IF i < idx THEN text[i + 1] ELSE Fresh

(* Whatever the format asks for and however long the fields become, the    *)
(* buffer holds the beginning of the text, ended by a NUL within the       *)
(* limit, no byte at or behind the limit is written, and the returned      *)
(* length is that of the whole text.                                       *)
CutToTheBuffer ==
    idx = Len(text) /\ \A i \in Cells : memory[i] = Held(i)

(* The format is read past its NUL only if that ended a directive, and was *)
(* shown as a char of the text.                                            *)
StopsAtTheEnd ==
    \A p \in 1 .. pos - 1 :
        format[p] = NUL => \E k \in DOMAIN text : text[k] = NUL

(* The number a text shows in a base: its digits are read, all else is     *)
(* passed over.                                                            *)
IsDigitOf(c, base) == \E k \in 1 .. base : c \in {Lower[k], Upper[k]}
WorthOf(c) == (CHOOSE k \in 1 .. 16 : c \in {Lower[k], Upper[k]}) - 1

Shows(s, base) ==
    LET front[k \in 0 .. Len(s)] ==
            IF k = 0 THEN 0
            ELSE IF IsDigitOf(s[k], base) THEN front[k - 1] * base + WorthOf(s[k])
            ELSE front[k - 1]
    IN front[Len(s)]

(* What a directive of the format asks for: the type of its argument, and  *)
(* the base.                                                               *)
Specifier == format[field.at]
Modifier  == format[field.at - 1]
Doubled   == field.at > 2 /\ format[field.at - 2] = Modifier

IsSigned == Specifier \in {"d", "i"}
Base     == IF Specifier = "p" THEN 16 ELSE BaseOf[Specifier]

TypeBits ==
    IF Specifier = "p" THEN LongBits
    ELSE IF Modifier = "h" THEN IF Doubled THEN CharBits ELSE ShortBits
    ELSE IF Modifier = "l" THEN IF Doubled THEN LongLongBits ELSE LongBits
    ELSE IF Modifier = "j" THEN LongLongBits
    ELSE IF Modifier \in {"z", "t"} THEN LongBits ELSE IntBits

Expected ==
    IF IsSigned THEN Signed(field.arg, TypeBits) ELSE Unsigned(field.arg, TypeBits)

Magnitude == IF Expected < 0 THEN -Expected ELSE Expected

DigitsShown ==
    IF "PRECISION" \in flags /\ Expected = 0 THEN 0 ELSE DigitCount(Magnitude, Base)

HasPrefix == "HASH" \in flags /\ Base # 10 /\ Expected # 0

(* A pointer has a sign in front if it is asked for.                       *)
HasSign ==
    Expected < 0 \/ (Specifier \in {"d", "i", "p"} /\ {"PLUS", "SPACE"} \cap flags # {})

(* With the longest prefix and a sign the field fits the conversion buffer.*)
FitsTheConversion ==
    Greater(Greater(DigitsShown, precision), width) + 3 <= NtoaSize

(* The digits fill their part of the field, or but one zero less, and the  *)
(* prefix overwrites some of them.                                         *)
PrefixEatsDigits ==
    LET place == IF HasSign /\ "LEFT" \notin flags THEN width - 1 ELSE width
    IN /\ HasPrefix /\ "PRECISION" \notin flags
       /\ \/ DigitsShown = place
          \/ /\ Base = 16 /\ DigitsShown = place - 1
             /\ "ZEROPAD" \in flags /\ "LEFT" \notin flags

(* A formatted number, read back from its field, is the argument converted *)
(* to the type the directive names, with its sign: whatever the flags, the *)
(* width and the precision, as long as it fits the conversion buffer, and  *)
(* but for the case that the prefix of # takes the place of digits.        *)
Denotes ==
    field # NoField /\ FitsTheConversion =>
        /\ Shows(field.text, Base) = Magnitude <=> ~ PrefixEatsDigits
        /\ Expected < 0 <=> \E k \in DOMAIN field.text : field.text[k] = "-"

(* The chars of a field besides its padding.                               *)
NaturalLength ==
    (IF "LEFT" \in flags THEN DigitsShown ELSE Greater(DigitsShown, precision))
    + (IF HasSign THEN 1 ELSE 0)
    + (IF ~ HasPrefix THEN 0 ELSE IF Base = 8 THEN 1 ELSE 2)

(* The chars by which a prefix widens a field that is filled up with zeros:*)
(* that of base 2 takes one place for its two chars, and the one of a      *)
(* pointer with a precision none.                                          *)
Excess ==
    IF ~ HasPrefix \/ "ZEROPAD" \notin flags \/ "LEFT" \in flags THEN 0
    ELSE IF "PRECISION" \in flags THEN IF Specifier = "p" THEN 2 ELSE 0
    ELSE IF Base = 2 /\ width > DigitsShown THEN 1 ELSE 0

(* A field is exactly as wide as the directive asks for, or as the number  *)
(* needs if that is more, and wider only by what Excess says.              *)
FieldWidth ==
    field # NoField /\ FitsTheConversion /\ ~ PrefixEatsDigits =>
        Len(field.text) = Greater(NaturalLength, width + Excess)
=============================================================================

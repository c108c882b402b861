--------------------------------- MODULE LibC ---------------------------------
(***************************************************************************)
(* The functions of libc/lib.c on memory, strings and numbers: one call,   *)
(* on any memory, with arguments its caller may give it.  One iteration of *)
(* a loop is a step.  Chars are their ASCII codes, and the bytes of the    *)
(* memory have the addresses from 1 on.                                    *)
(*                                                                         *)
(* The functions are the program's own, and many differ from those of the  *)
(* C standard; the properties say what they do.                            *)
(***************************************************************************)
EXTENDS Integers, FiniteSets, SequencesExt, Numerals

CONSTANTS
    Size,       \* bytes of memory
    Chars,      \* what a byte may hold at the call
    Bases, Numbers, Limits,     \* arguments of the number functions
    Word,       \* as many values has an int64_t
    IntMax,     \* the largest int
    BufferSize  \* digits that the buffer of itoa holds

NULL == 0
Addr == 1 .. Size

ASSUME LibCAssumption ==
    /\ Size \in Nat \ {0} /\ Limits \subseteq Nat
    /\ 0 \in Chars /\ Chars \subseteq 0 .. 127
    /\ Bases \subseteq 2 .. 35
    /\ Word \in Nat \ {0} /\ Word % 4 = 0
    /\ Numbers \subseteq -(Word \div 2) .. Word \div 2 - 1
    /\ IntMax \in Nat /\ BufferSize \in Nat

VARIABLES
    mem,        \* the memory
    pc,         \* the function that runs, or "done"
    d, s, n, i, \* its locals: two pointers, a count, an index or a number
    result,
    shown,      \* history: what was put on the screen
    old, call   \* history: the memory before the call, and the call

locals == <<d, s, n, i>>
vars   == <<mem, pc, locals, result, shown, old, call>>

-----------------------------------------------------------------------------
(* What a caller must see to.                                              *)

(* The address of the NUL that ends the string at a, or 0.                 *)
EndOf(m, a) ==
    LET ends == {k \in a .. Size : m[k] = 0}
    IN IF ends = {} THEN 0 ELSE CHOOSE k \in ends : \A l \in ends : k <= l

IsString(m, a) == EndOf(m, a) # 0
Length(m, a)   == EndOf(m, a) - a

Within(a, length) == a + length <= Size + 1
Apart(a, la, b, lb) == a + la <= b \/ b + lb <= a

Copying == {"memcpy", "memmove", "strcpy", "strncpy", "strcat", "strncat"}
Reading == {"strlen", "strchr", "strrchr", "puts"}
Comparing == {"memcmp", "strcmp", "strcasecmp", "strncasecmp"}

(* The bytes from an address on, and the string there.                     *)
Bytes(m, a, count) == [k \in 1 .. count |-> m[a + k - 1]]
Text(m, a) == Bytes(m, a, Length(m, a))

(* Beyond base 10 the letter behind the last digit counts, too.            *)
IsDigitOf(char, base) ==
    char \in 48 .. 57 \/ (base > 10 /\ char \in 65 .. 65 + base - 10)

ValueOf(char) == IF char >= 65 THEN char - 65 + 10 ELSE char - 48

(* What a row of digits stands for: each counts as much as its place says. *)
Value(text, base) ==
    LET last[k \in 0 .. Len(text)] ==
            IF k = 0 THEN 0
            ELSE ValueOf(text[Len(text) - k + 1]) * Power(base)[k - 1] + last[k - 1]
    IN last[Len(text)]

(* The number in front of a string: as many digits as there are, or as     *)
(* many as the limit allows.                                               *)
NumberText(m, a, base, limit) ==
    LET text   == Text(m, a)
        digits == {k \in 0 .. Len(text) : \A l \in 1 .. k : IsDigitOf(text[l], base)}
    IN SubSeq(text, 1, Min({Max(digits)} \cup ({limit} \ {0})))

MemoryCalls ==
    [fn : Copying \cup Comparing, d : Addr, s : Addr, n : 0 .. Size, c : {0}]
    \cup [fn : Reading, d : {0}, s : Addr, n : {0}, c : Chars]
    \cup [fn : {"memset", "calloc"}, d : Addr, s : {0}, n : 0 .. Size, c : Chars]

NumberCalls ==
    [fn : {"itoa"}, d : Addr, s : {0}, n : {v \in Numbers : v >= 0}, c : Bases]
    \cup [fn : {"sitoa"}, d : Addr, s : {0}, n : Numbers, c : Bases]
    \cup [fn : {"internal_atoi"}, d : {0}, s : Addr, n : Limits, c : Bases]
    \cup [fn : {"atoi"}, d : {0}, s : Addr, n : {0}, c : {10}]

(* Regions and strings lie in the memory, and those that are copied from   *)
(* do not overlap with those that are copied to.  memmove is given a byte  *)
(* more and strncasecmp whole regions, for that is what they touch.  A     *)
(* number that is written fits into the buffer of itoa, and one that is    *)
(* read into an int: nothing checks it.                                    *)
Legal(m, k) ==
    /\ k.fn = "memcpy" =>
         Within(k.d, k.n) /\ Within(k.s, k.n) /\ Apart(k.d, k.n, k.s, k.n)
    /\ k.fn = "memmove" => Within(k.d, k.n + 1) /\ Within(k.s, k.n + 1)
    /\ k.fn \in {"memcmp", "strncasecmp"} => Within(k.d, k.n) /\ Within(k.s, k.n)
    /\ k.fn \in {"memset", "calloc"} => Within(k.d, k.n)
    /\ k.fn \in {"calloc", "strlen", "puts"} => k.c = 0
    /\ k.fn \in {"strcpy", "strcat", "strcmp", "strcasecmp"} => k.n = 0
    /\ k.fn \notin {"memcpy", "memmove", "memset", "calloc", "memcmp", "strncasecmp",
                    "itoa", "sitoa"} => IsString(m, k.s)
    /\ k.fn \in {"strcmp", "strcasecmp", "strcat", "strncat"} => IsString(m, k.d)
    /\ k.fn \in {"strcpy", "strncpy", "strcat", "strncat"} =>
         LET from == Length(m, k.s) + 1
             room == from + (IF k.fn \in {"strcat", "strncat"} THEN Length(m, k.d) ELSE 0)
         IN Within(k.d, room) /\ Apart(k.d, room, k.s, from)
    /\ k.fn = "puts" => \E a \in 1 .. k.s : m[a] = 0
    /\ k.fn = "itoa" => /\ Within(k.d, DigitCount(k.n, k.c) + 1)
                        /\ DigitCount(k.n, k.c) <= BufferSize
    /\ k.fn = "sitoa" => /\ Within(k.d, DigitCount(Word - 1, k.c) + 2)
                         /\ DigitCount(Word - 1, k.c) <= BufferSize
    /\ k.fn \in {"internal_atoi", "atoi"} =>
         Value(NumberText(m, k.s, k.c, k.n), k.c) <= IntMax

Init ==
    /\ mem \in [Addr -> Chars] /\ old = mem
    /\ call \in {k \in MemoryCalls \cup NumberCalls : Legal(mem, k)}
    /\ pc = call.fn
    /\ d = call.d /\ s = call.s /\ n = call.n /\ i = 0
    /\ result = 0 /\ shown = <<>>

-----------------------------------------------------------------------------
Running(fn) == pc = fn /\ UNCHANGED <<old, call>>

Return(r) == pc' = "done" /\ result' = r /\ UNCHANGED <<locals, shown>>
Repeat    == UNCHANGED <<pc, result, shown>>
Answer(r) == Return(r) /\ UNCHANGED mem

Put(a, byte) == mem' = [mem EXCEPT ![a] = byte]

Strlen ==
    /\ Running("strlen")
    /\ IF mem[s] = 0 THEN Answer(s - call.s)
       ELSE s' = s + 1 /\ Repeat /\ UNCHANGED <<mem, d, n, i>>

(* Mutant: the pointer does not move on.                                   *)
StrchrStays ==
    /\ Running("strchr")
    /\ IF mem[s] = 0 \/ mem[s] = call.c
       THEN Answer(IF mem[s] # call.c THEN NULL ELSE s)
       ELSE Repeat /\ UNCHANGED <<mem, d, s, n, i>>

Strchr ==
    /\ Running("strchr")
    /\ IF mem[s] = 0 \/ mem[s] = call.c
       THEN Answer(IF mem[s] # call.c THEN NULL ELSE s)
       ELSE s' = s + 1 /\ Repeat /\ UNCHANGED <<mem, d, n, i>>

(* d is the last one found.                                                *)
Strrchr ==
    /\ Running("strrchr")
    /\ IF mem[s] = 0 THEN Answer(d)
       ELSE /\ d' = IF mem[s] = call.c THEN s ELSE d
            /\ s' = s + 1 /\ Repeat /\ UNCHANGED <<mem, n, i>>

(* The string is walked from its first char down.                          *)
Puts ==
    /\ Running("puts")
    /\ IF mem[s] = 0 THEN Answer(0)
       ELSE /\ shown' = Append(shown, mem[s]) /\ s' = s - 1
            /\ UNCHANGED <<mem, pc, result, d, n, i>>

Memcpy ==
    /\ Running("memcpy")
    /\ IF n = 0 THEN Answer(d)
       ELSE /\ Put(d, mem[s]) /\ d' = d + 1 /\ s' = s + 1 /\ n' = n - 1
            /\ Repeat /\ UNCHANGED i

(* The memory of a calloc is cleared by memset; what it returns is where   *)
(* that memory begins.                                                     *)
Memset ==
    /\ pc \in {"memset", "calloc"} /\ UNCHANGED <<old, call>>
    /\ IF n = 0 THEN Answer(IF pc = "calloc" THEN call.d ELSE d)
       ELSE /\ Put(d, call.c) /\ d' = d + 1 /\ n' = n - 1
            /\ Repeat /\ UNCHANGED <<s, i>>

(* Upwards the copy begins with the byte behind the last one.              *)
MemmoveLast(a, length) == a + length

(* Mutant: the copy runs from the first byte on in either direction.       *)
MemmoveForwards ==
    /\ Running("memmove")
    /\ \/ /\ call.d >= call.s /\ i = 0
          /\ d' = d + 1 /\ s' = s + 1 /\ i' = 1
          /\ Repeat /\ UNCHANGED <<mem, n>>
       \/ /\ call.d < call.s \/ i = 1
          /\ IF n = 0 THEN Answer(d)
             ELSE /\ Put(d, mem[s]) /\ d' = d + 1 /\ s' = s + 1 /\ n' = n - 1
                  /\ Repeat /\ UNCHANGED i

(* i is 1 once the pointers are set up for a copy from the end.            *)
Memmove ==
    /\ Running("memmove")
    /\ \/ /\ call.d >= call.s /\ i = 0
          /\ d' = MemmoveLast(d, n) /\ s' = MemmoveLast(s, n) /\ i' = 1
          /\ Repeat /\ UNCHANGED <<mem, n>>
       \/ /\ call.d < call.s \/ i = 1
          /\ LET by == IF call.d < call.s THEN 1 ELSE -1
             IN IF n = 0 THEN Answer(d)
                ELSE /\ Put(d, mem[s]) /\ d' = d + by /\ s' = s + by /\ n' = n - 1
                     /\ Repeat /\ UNCHANGED i

Memcmp ==
    /\ Running("memcmp")
    /\ IF n = 0 \/ mem[d] # mem[s] THEN Answer(IF n = 0 THEN 0 ELSE -1)
       ELSE d' = d + 1 /\ s' = s + 1 /\ n' = n - 1 /\ Repeat /\ UNCHANGED <<mem, i>>

(* strcpy, and strncpy, which stops after n chars as well; no NUL is       *)
(* written.                                                                *)
Strcpy ==
    /\ pc \in {"strcpy", "strncpy"} /\ UNCHANGED <<old, call>>
    /\ IF mem[s] = 0 \/ (pc = "strncpy" /\ n = 0) THEN Answer(d)
       ELSE /\ Put(d, mem[s]) /\ d' = d + 1 /\ s' = s + 1
            /\ n' = IF pc = "strncpy" THEN n - 1 ELSE n
            /\ Repeat /\ UNCHANGED i

(* i is 1 behind the end of the first string.                              *)
Strcat ==
    /\ pc \in {"strcat", "strncat"} /\ UNCHANGED <<old, call>>
    /\ \/ /\ i = 0
          /\ IF mem[d] = 0 THEN i' = 1 /\ d' = d ELSE d' = d + 1 /\ i' = 0
          /\ Repeat /\ UNCHANGED <<mem, s, n>>
       \/ /\ i = 1
          /\ IF mem[s] = 0 \/ (pc = "strncat" /\ n = 0)
             THEN Put(d, 0) /\ Return(d + 1)
             ELSE /\ Put(d, mem[s]) /\ d' = d + 1 /\ s' = s + 1
                  /\ n' = IF pc = "strncat" THEN n - 1 ELSE n
                  /\ Repeat /\ UNCHANGED i

tolower(x) == IF x \in 65 .. 90 THEN x + 32 ELSE x

Same(a, b) ==
    IF pc \in {"strcasecmp", "strncasecmp"} THEN tolower(a) = tolower(b) ELSE a = b

(* Mutant: the end of the second string is not looked for.                 *)
StrcmpEndsWithTheFirst == mem[d] = 0

(* strcmp and strcasecmp: the end of either string is the end.             *)
StrcmpEnds == mem[d] = 0 \/ mem[s] = 0

Strcmp ==
    /\ pc \in {"strcmp", "strcasecmp"} /\ UNCHANGED <<old, call>>
    /\ IF StrcmpEnds THEN Answer(0)
       ELSE IF ~ Same(mem[d], mem[s]) THEN Answer(-1)
       ELSE d' = d + 1 /\ s' = s + 1 /\ Repeat /\ UNCHANGED <<mem, n, i>>

(* It does not end with the strings.                                       *)
Strncasecmp ==
    /\ Running("strncasecmp")
    /\ IF n = 0 THEN Answer(0)
       ELSE IF ~ Same(mem[d], mem[s]) THEN Answer(-1)
       ELSE d' = d + 1 /\ s' = s + 1 /\ n' = n - 1 /\ Repeat /\ UNCHANGED <<mem, i>>

-----------------------------------------------------------------------------
(* Numbers.                                                                *)
DigitChar(r) == IF r > 9 THEN r - 10 + 65 ELSE r + 48

(* A number whose first digits were written last is turned round.          *)
Itoa ==
    /\ Running("itoa")
    /\ IF n # 0
       THEN /\ Put(d + i, DigitChar(n % call.c))
            /\ i' = i + 1 /\ n' = n \div call.c
            /\ Repeat /\ UNCHANGED <<d, s>>
       ELSE /\ mem' = [a \in Addr |->
                          IF i = 0 /\ a = d THEN 48
                          ELSE IF a \in d .. d + i - 1 THEN mem[d + (i - 1) - (a - d)]
                          ELSE IF a = d + (IF i = 0 THEN 1 ELSE i) THEN 0 ELSE mem[a]]
            /\ Return(d)

(* Shifted to the left and back: the bit below the sign becomes the sign.  *)
WithoutTopBit(v) ==
    LET m == v % (Word \div 2)
    IN IF m >= Word \div 4 THEN m - Word \div 2 ELSE m

(* itoa takes the number for an unsigned one.                              *)
Sitoa ==
    /\ Running("sitoa")
    /\ IF n < 0 THEN Put(d, 45) /\ d' = d + 1 ELSE UNCHANGED <<mem, d>>
    /\ n' = WithoutTopBit(n) % Word
    /\ pc' = "itoa" /\ UNCHANGED <<s, i, result, shown>>

(* d is the number.                                                        *)
InternalAtoi ==
    /\ pc \in {"internal_atoi", "atoi"} /\ UNCHANGED <<old, call>>
    /\ IF ~ IsDigitOf(mem[s + i], call.c) \/ (n # 0 /\ i >= n) THEN Answer(d)
       ELSE /\ d' = d * call.c + ValueOf(mem[s + i])
            /\ i' = i + 1 /\ Repeat /\ UNCHANGED <<mem, s, n>>

Step ==
    \/ Strlen \/ Strchr \/ Strrchr \/ Puts
    \/ Memcpy \/ Memset \/ Memmove \/ Memcmp
    \/ Strcpy \/ Strcat \/ Strcmp \/ Strncasecmp
    \/ Itoa \/ Sitoa \/ InternalAtoi

Next == Step \/ (pc = "done" /\ UNCHANGED vars)

(* A call goes on until it returns.                                        *)
Spec == Init /\ [][Next]_vars /\ WF_vars(Step)

-----------------------------------------------------------------------------
(* What the functions promise, said of the memory before the call.         *)

Folded(text) == [k \in DOMAIN text |-> tolower(text[k])]
(* What a copy or a concatenation copies: the first byte to be written,    *)
(* the first to be read, and how many.  A memmove upwards is one byte off. *)
Joins     == call.fn \in {"strcat", "strncat"}
Shift     == IF call.fn = "memmove" /\ call.d >= call.s THEN 1 ELSE 0
CopyTo    == IF Joins THEN EndOf(old, call.d) ELSE call.d + Shift
CopyFrom  == call.s + Shift
CopyCount ==
    CASE call.fn \in {"memcpy", "memmove"} -> call.n
      [] call.fn \in {"strcpy", "strcat"}  -> Length(old, call.s)
      [] OTHER -> Min({call.n, Length(old, call.s)})

(* Behind the last byte that is written, and the memory with the copy.     *)
CopyEnd == CopyTo + CopyCount + (IF Joins THEN 1 ELSE 0)
WithCopy ==
    [a \in Addr |->
        IF a \in CopyTo .. CopyTo + CopyCount - 1 THEN old[CopyFrom + (a - CopyTo)]
        ELSE IF Joins /\ a = CopyTo + CopyCount THEN 0 ELSE old[a]]

Filled(count) ==
    [a \in Addr |-> IF a \in call.d .. call.d + count - 1 THEN call.c ELSE old[a]]

FoundAt(from, c) == {a \in from .. EndOf(old, from) : old[a] = c}

ComparesEqual ==
    LET one == Text(old, call.d)
        two == Text(old, call.s)
    IN CASE call.fn = "memcmp" -> Bytes(old, call.d, call.n) = Bytes(old, call.s, call.n)
         [] call.fn = "strncasecmp" ->
              Folded(Bytes(old, call.d, call.n)) = Folded(Bytes(old, call.s, call.n))
         [] call.fn = "strcmp" -> IsPrefix(one, two) \/ IsPrefix(two, one)
         [] OTHER -> \/ IsPrefix(Folded(one), Folded(two))
                     \/ IsPrefix(Folded(two), Folded(one))

(* What each function answers (lib.c:13-100, 626-648, 753-761, 835-919,    *)
(* 932-944, 994-1017).  strchr finds the first occurrence, the NUL         *)
(* included, strrchr the last one before the NUL; memcmp and strncasecmp   *)
(* compare all their bytes, beyond a NUL too, and strcmp and strcasecmp    *)
(* take a string for equal to every string it begins; memcpy, memset and   *)
(* the string copies give the end of what they wrote, and so does memmove, *)
(* from wherever it came; atoi reads the longest row of digits.            *)
Answers == pc = "done" =>
    CASE call.fn = "strlen" -> result = Len(Text(old, call.s))
      [] call.fn = "strchr" ->
           result = Min(FoundAt(call.s, call.c) \cup {Size + 1}) % (Size + 1)
      [] call.fn = "strrchr" ->
           result = IF call.c = 0 THEN NULL ELSE Max(FoundAt(call.s, call.c) \cup {NULL})
      [] call.fn \in Comparing -> result = IF ComparesEqual THEN 0 ELSE -1
      [] call.fn = "memset" -> result = call.d + call.n
      [] call.fn = "memmove" ->
           result = IF Shift = 1 THEN call.d ELSE call.d + call.n
      [] call.fn \in Copying \ {"memmove"} -> result = CopyEnd
      [] call.fn \in {"internal_atoi", "atoi"} -> 
           result = Value(NumberText(old, call.s, call.c, call.n), call.c)
      [] call.fn \in {"calloc", "itoa"} -> result = call.d
      [] call.fn = "sitoa" -> result = IF call.n < 0 THEN call.d + 1 ELSE call.d
      [] call.fn = "puts" ->
           result = 0 /\ \E a \in 1 .. call.s :
                           /\ old[a] = 0 /\ 0 \notin Range(shown)
                           /\ Reverse(shown) = Bytes(old, a + 1, call.s - a)

(* A number is written with the digits of its base, the first one not 0,   *)
(* and read back by its value; sitoa puts the sign in front of it and      *)
(* writes, of a negative number, not its size but the whole word without   *)
(* the bit below the sign.                                                 *)
WritesNumber ==
    LET sign  == IF call.n < 0 THEN 1 ELSE 0
        text  == Text(mem, call.d + sign)
    IN /\ sign = 1 => mem[call.d] = 45
       /\ \A k \in DOMAIN text :
            text[k] \in {DigitChar(r) : r \in 0 .. call.c - 1}
       /\ text[1] = 48 => Len(text) = 1
       /\ Value(text, call.c) = IF call.fn = "itoa" THEN call.n
                                ELSE WithoutTopBit(call.n) % Word
       /\ \A a \in Addr : a < call.d \/ a > EndOf(mem, call.d) => mem[a] = old[a]

(* When a function has returned, it has written what it should and nothing *)
(* else (lib.c:42-54, 70-88, 753-761, 835-883, 932-944, 994-1017): a copy  *)
(* is the source as it was before the call, although the two regions of a  *)
(* memmove may overlap, and a memmove upwards moves the bytes one further, *)
(* which leaves the first one alone; strcpy and strncpy write no NUL and   *)
(* the concatenations do; a function that reads writes nothing.            *)
Writes == pc = "done" =>
    CASE call.fn \in Copying -> mem = WithCopy
      [] call.fn \in {"memset", "calloc"} -> mem = Filled(call.n)
      [] call.fn \in {"itoa", "sitoa"} -> WritesNumber
      [] OTHER -> mem = old

(* Every call that its caller had the right to make returns: no loop of    *)
(* lib.c goes round without coming closer to its end.                      *)
Returns == <>(pc = "done")
=============================================================================

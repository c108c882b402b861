-------------------------------- MODULE MCPrintf --------------------------------
(* Every combination of a flag or two, a width, a precision and a length,  *)
(* with a limit that is never reached, and a few formats with every limit. *)
EXTENDS Printf

Parts ==
    LET FlagParts == {<<>>, <<"0">>, <<"-">>, <<"#">>, <<"+">>, <<" ", "0">>,
                      <<"#", "0">>, <<"-", "#">>, <<"+", "0">>}
        WidthParts == {<<>>, <<"3">>, <<"1", "2">>, <<"*">>}
        PrecisionParts == {<<>>, <<".">>, <<".", "2">>, <<".", "*">>}
        SpecParts == {<<"d">>, <<"u">>, <<"x">>, <<"o">>, <<"l", "X">>, <<"b">>,
                      <<"h", "i">>, <<"h", "h", "d">>, <<"h", "h", "u">>,
                      <<"j", "d">>, <<"l", "l", "X">>, <<"z", "u">>}
    IN {<<"%">> \o f \o w \o p \o c \o <<NUL, NUL>> :
            f \in FlagParts, w \in WidthParts, p \in PrecisionParts, c \in SpecParts}

Texts == {
    <<NUL, NUL>>,
    <<"v", "%", "%", "v", NUL, NUL>>,
    <<"%", "3", "c", "%", "-", "2", "c", NUL, NUL>>,
    <<"v", "%", "s", "=", "%", "d", NUL, NUL>>,
    <<"%", "-", "4", "s", "v", NUL, NUL>>,
    <<"%", "4", ".", "2", "s", "v", NUL, NUL>>,
    <<"%", ".", "*", "s", NUL, NUL>>,
    <<"%", "p", NUL, NUL>>,
    <<"%", "#", "p", NUL, NUL>>,
    <<"%", "+", "p", NUL, NUL>>,
    <<"%", "+", "#", "p", NUL, NUL>>,
    <<"%", "-", "#", "p", NUL, NUL>>,
    <<"%", "#", ".", "p", NUL, NUL>>,
    <<"%", " ", "#", ".", "3", "p", NUL, NUL>>,
    <<"%", "h", "p", NUL, NUL>>,
    <<"%", "h", "h", "x", "%", "+", "d", NUL, NUL>>,
    <<"v", "%", NUL, "v", NUL, NUL>>,
    <<"%", "-", "3", NUL, "v", "%", "c", NUL, NUL>>,
    <<"%", ".", NUL, NUL>>,
    <<"%", "v", NUL, NUL>> }

MCCalls ==
    {[entry |-> "snprintf", count |-> Space, format |-> f] : f \in Parts}
    \cup {[entry |-> "snprintf", count |-> n, format |-> f] : n \in 0 .. 6, f \in Texts}
    \cup {[entry |-> e, count |-> 0, format |-> f] :
            e \in Entries \ {"snprintf"}, f \in Texts}

MCValues  == {-32, -17, -16, -9, -1, 0, 1, 3, 7, 8, 10, 15, 16, 21, 31, 32, 63}
MCStrings == {<<>>, <<"v">>, <<"v", "w", "v">>}
=============================================================================

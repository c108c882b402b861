------------------------------- MODULE Keyboard -------------------------------
(***************************************************************************)
(* Keyboard input: getch, ungetch, flushinp and _geT_ps2_input of          *)
(* libc/lib.c, and what they assume of the keyboard controller.            *)
(*                                                                         *)
(* A key sends a make code when it goes down, again and again while it is  *)
(* held, and a break code when it comes up.  The data port shows the byte  *)
(* that was read last until the next one has arrived, so that a getch that *)
(* polls it reads the same code any number of times.  Each read of the     *)
(* port is one step.                                                       *)
(*                                                                         *)
(* The scan code table gives some keys a negative char, which indexes      *)
(* is_press outside of the array: what is found there is arbitrary, and    *)
(* what is overwritten may be _kb_shift or _last_saved_ch.                 *)
(***************************************************************************)
EXTENDS Integers, Sequences, SequencesExt

CONSTANTS
    Plain,      \* keys with a char of their own in is_press
    CapsLock,   \* the key that changes the case and has a char in is_press
    Shifts,     \* the shift keys: they change the case, negative chars
    Functions,  \* other keys with a negative char
    Extended,   \* keys that send 0xE0 first
    EditKeys,   \* those of them that getch returns: KEY_DC and KEY_IC
    PlainCode,  \* which other key sends the same code without 0xE0
    MaxStrokes, \* bound of the model: how often keys go down or come up
    MaxQueue    \* bound of the model: how many codes wait to be read

ASSUME KeysAssumption ==
    /\ EditKeys \subseteq Extended
    /\ PlainCode \in [Extended -> Plain \cup Shifts \cup Functions]
    /\ Shifts \cap Functions = {}
    /\ (Plain \cup {CapsLock}) \cap (Shifts \cup Functions \cup Extended) = {}
    /\ (Shifts \cup Functions) \cap Extended = {} /\ CapsLock \notin Plain
    /\ MaxStrokes \in Nat /\ MaxQueue \in Nat

InArray == Plain \cup {CapsLock}
Wild    == Shifts \cup Functions
Keys    == InArray \cup Wild \cup Extended

(* A byte from the keyboard; history: how many strokes there were and what *)
(* case CapsLock had set when it was sent.                                 *)
Byte == [kind : {"make", "break"}, key : InArray \cup Wild, nth : Nat, lower : BOOLEAN]
        \cup [kind : {"none", "E0", "other"}, key : {CapsLock}, nth : Nat, lower : BOOLEAN]

None == [kind |-> "none", key |-> CapsLock, nth |-> 0, lower |-> FALSE]

Char == [key : Plain, lower : BOOLEAN]

Stroke == [key : Plain, lower : BOOLEAN, sure : BOOLEAN]

VARIABLES
    down,       \* the keys that are held down
    strokes,    \* how often a key has gone down or come up
    queue,      \* the codes on their way to the data port
    port,       \* what the data port shows
    pc,         \* where getch is
    is_press,   \* is_press, inside of the array
    kb_shift,   \* _kb_shift
    saved,      \* whether _last_saved_ch holds a char
    typed,      \* history: the keys that came up and have a plain code
    mixed,      \* history: held keys whose code another key has sent since
    caps,       \* history: the case CapsLock has set
    got,        \* history: the plain keys getch has returned
    flushed,    \* history: flushinp has dropped a code
    stray       \* history: is_press was written outside of the array

human == <<down, strokes, typed, mixed, caps>>
state == <<is_press, kb_shift, saved, got, stray>>
vars  == <<human, queue, port, pc, state, flushed>>

(* Mutant: CapsLock has no place in is_press.                              *)
InitTooShort ==
    /\ down = {} /\ strokes = 0 /\ queue = <<>> /\ port = None
    /\ pc = "idle"
    /\ is_press = [k \in Plain |-> FALSE] /\ kb_shift = FALSE /\ saved = FALSE
    /\ typed = <<>> /\ mixed = {} /\ caps = FALSE /\ got = <<>>
    /\ flushed = FALSE /\ stray = FALSE

Init ==
    /\ down = {} /\ strokes = 0 /\ queue = <<>> /\ port = None
    /\ pc = "idle"
    /\ is_press = [k \in InArray |-> FALSE] /\ kb_shift = FALSE /\ saved = FALSE
    /\ typed = <<>> /\ mixed = {} /\ caps = FALSE /\ got = <<>>
    /\ flushed = FALSE /\ stray = FALSE

-----------------------------------------------------------------------------
(* The keyboard.                                                           *)

Sent(kind, key, nth, lower) == [kind |-> kind, key |-> key, nth |-> nth, lower |-> lower]

Codes(kind, k, nth, lower) ==
    IF k \in Extended
    THEN <<Sent("E0", CapsLock, Len(typed), caps), Sent(kind, PlainCode[k], nth, lower)>>
    ELSE <<Sent(kind, k, nth, lower)>>

Send(bytes) ==
    /\ Len(queue) + Len(bytes) <= MaxQueue
    /\ queue' = queue \o bytes
    /\ UNCHANGED <<port, pc, state, flushed>>

(* A held key with the code of k, one of which comes behind 0xE0.          *)
Twin(k) == IF k \in Extended THEN {PlainCode[k]} \cap Plain \cap down ELSE {}

Down(k) ==
    /\ k \notin down /\ strokes < MaxStrokes
    /\ down' = down \cup {k} /\ strokes' = strokes + 1
    /\ mixed' = mixed \cup Twin(k)
    /\ Send(Codes("make", k, Len(typed), caps))
    /\ UNCHANGED <<typed, caps>>

Repeat(k) ==
    /\ k \in down
    /\ mixed' = mixed \cup Twin(k)
    /\ Send(Codes("make", k, Len(typed), caps))
    /\ UNCHANGED <<down, strokes, typed, caps>>

Up(k) ==
    /\ k \in down /\ strokes < MaxStrokes
    /\ down' = down \ {k} /\ strokes' = strokes + 1
    /\ mixed' = (mixed \cup Twin(k)) \ {k}
    /\ LET key == IF k \in Extended THEN PlainCode[k] ELSE k
           up == [key |-> key, lower |-> caps, sure |-> k \in Plain \ mixed]
       IN typed' = IF key \in Plain THEN Append(typed, up) ELSE typed
    /\ caps' = IF k = CapsLock THEN ~ caps ELSE caps
    /\ Send(Codes("break", k, Len(typed'), caps'))

(* A byte of 0xE1 or more: what a keyboard answers to a command.           *)
Answer == Send(<<Sent("other", CapsLock, Len(typed), caps)>>) /\ UNCHANGED human

-----------------------------------------------------------------------------
(* Calls of getch, ungetch and flushinp.                                   *)

Getch ==
    /\ pc = "idle"
    /\ IF saved THEN saved' = FALSE /\ UNCHANGED pc
       ELSE pc' = "poll" /\ UNCHANGED saved
    /\ UNCHANGED <<human, queue, port, is_press, kb_shift, got, stray, flushed>>

Ungetch ==
    /\ pc = "idle"
    /\ saved' \in BOOLEAN
    /\ UNCHANGED <<human, queue, port, pc, is_press, kb_shift, got, stray, flushed>>

(* A read of the port: the next code, or the last one once more.           *)
Arrives == queue # <<>> /\ port' = Head(queue) /\ queue' = Tail(queue)

Flushinp ==
    /\ pc = "idle"
    /\ Arrives
    /\ flushed' = TRUE
    /\ UNCHANGED <<human, pc, state>>

-----------------------------------------------------------------------------
(* What getch makes of a byte it has read.                                 *)

(* The byte after 0xE0.                                                    *)
AfterE0(b) ==
    /\ pc = "extended"
    /\ pc' = IF b.kind = "make" /\ b.key \in {PlainCode[k] : k \in EditKeys}
             THEN "idle" ELSE "poll"
    /\ UNCHANGED state

Prefix(b) ==
    /\ pc = "poll" /\ b.kind \in {"E0", "other"}
    /\ pc' = IF b.kind = "E0" THEN "extended" ELSE "poll"
    /\ UNCHANGED state

(* Mutant: every code counts.                                              *)
ChangesAlways(b) == TRUE

(* Mutant: a make code never counts.                                       *)
ChangesOnBreakOnly(b) == b.kind = "break" /\ ~ is_press[b.key]

(* Only a change against is_press counts, which holds whether the last     *)
(* code that counted was a break code: a key is returned as it comes up.   *)
Changes(b) == (b.kind = "break") # is_press[b.key]

KeyInArray(b) ==
    /\ pc = "poll" /\ b.kind \in {"make", "break"} /\ b.key \in InArray
    /\ IF ~ Changes(b) THEN UNCHANGED <<pc, is_press, kb_shift, got>>
       ELSE /\ is_press' = [is_press EXCEPT ![b.key] = (b.kind = "break")]
            /\ IF b.kind = "make" THEN UNCHANGED <<pc, kb_shift, got>>
               ELSE IF b.key = CapsLock
               THEN kb_shift' = ~ kb_shift /\ UNCHANGED <<pc, got>>
               ELSE /\ pc' = "idle"
                    /\ got' = Append(got, [key |-> b.key, lower |-> kb_shift])
                    /\ UNCHANGED kb_shift
    /\ UNCHANGED <<saved, stray>>

(* A negative char: the comparison comes out either way; the write may hit *)
(* another variable.                                                       *)
KeyOutside(b) ==
    /\ pc = "poll" /\ b.kind \in {"make", "break"} /\ b.key \in Wild
    /\ \/ UNCHANGED <<pc, state>>
       \/ /\ stray' = TRUE
          /\ \E hit \in {"nothing", "_kb_shift", "_last_saved_ch"} :
             LET up == b.kind = "break"
                 case == IF hit = "_kb_shift" THEN up ELSE kb_shift
             IN /\ saved' = IF hit = "_last_saved_ch" THEN up ELSE saved
                /\ kb_shift' = IF up /\ b.key \in Shifts THEN ~ case ELSE case
                /\ pc' = IF up /\ b.key \in Functions THEN "idle" ELSE "poll"
          /\ UNCHANGED <<is_press, got>>

Handle(b) == AfterE0(b) \/ Prefix(b) \/ KeyInArray(b) \/ KeyOutside(b)

PollNext == Arrives /\ Handle(Head(queue)) /\ UNCHANGED <<human, flushed>>

PollAgain == Handle(port) /\ UNCHANGED <<human, queue, port, flushed>>

-----------------------------------------------------------------------------
Next ==
    \/ \E k \in Keys : Down(k) \/ Repeat(k) \/ Up(k)
    \/ Answer
    \/ Getch \/ Ungetch \/ Flushinp
    \/ PollNext \/ PollAgain

Spec == Init /\ [][Next]_vars

(* getch polls for ever, and a code that is on its way arrives.            *)
FairSpec == Spec /\ WF_vars(PollNext)

-----------------------------------------------------------------------------
TypeOK ==
    /\ down \subseteq Keys /\ strokes \in 0 .. MaxStrokes
    /\ queue \in Seq(Byte) /\ Len(queue) <= MaxQueue /\ port \in Byte
    /\ pc \in {"idle", "poll", "extended"}
    /\ is_press \in [InArray -> BOOLEAN]
    /\ {kb_shift, saved, caps, flushed, stray} \subseteq BOOLEAN
    /\ typed \in Seq(Stroke) /\ mixed \subseteq Plain /\ got \in Seq(Char)

(* The strokes whose code has been read from the port.                     *)
Read == 1 .. port.nth

(* What getch returned are some of the strokes, in the order they came up, *)
(* those that same(char, stroke) relates.                                  *)
Matched(among, same(_, _), must) ==
    \E at \in [DOMAIN got -> among] :
        /\ \A m, n \in DOMAIN got : m < n => at[m] < at[n]
        /\ \A n \in DOMAIN got : same(got[n], typed[at[n]])
        /\ must \subseteq {at[n] : n \in DOMAIN got}

SameKey(char, stroke) == char.key = stroke.key

SameChar(char, stroke) == SameKey(char, stroke) /\ char.lower = stroke.lower

Sure == {n \in DOMAIN typed : typed[n].sure}

(* However often the port is read, whatever is repeated while a key is     *)
(* held and whatever other keys do: getch returns the keys that come up,   *)
(* each once, in that order.  None is lost but a key behind 0xE0, and one  *)
(* whose code was sent behind 0xE0 while it was held.                      *)
KeysInOrder == ~ flushed => Matched(Read, SameKey, Sure \cap Read)

(* As long as no key has been written outside of is_press, the case of a   *)
(* char is the one CapsLock had set when the key came up, although getch   *)
(* sees both later.                                                        *)
CaseOfCapsLock == ~ flushed /\ ~ stray => Matched(Read, SameChar, Sure \cap Read)

(* getch returns once such a key has come up, unless flushinp dropped      *)
(* codes before.                                                           *)
GetchReturns == pc # "idle" /\ ~ Sure \subseteq Read /\ ~ flushed ~> pc = "idle"

(* After flushinp keys may be lost, but those that getch returns came up   *)
(* in that order, and none is returned twice or before it came up.         *)
NeverTwice == Matched(DOMAIN typed, SameKey, {})
=============================================================================

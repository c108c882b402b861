------------------------------ MODULE MCKeyboard ------------------------------
(* Enter, another plain key, CapsLock, a shift key, Del, which sends the   *)
(* code of the dot of the keypad behind its 0xE0, and the Enter key of the *)
(* keypad, which sends the code of the other one behind it.                *)
EXTENDS Keyboard

CONSTANTS enter, a, caps_lock, shift, keypad_dot, del, keypad_enter

PlainCodes == del :> keypad_dot @@ keypad_enter :> enter
=============================================================================

-------------------------------- MODULE MCKernel --------------------------------
(* The start-up, and what the comments in the program say of it.           *)
EXTENDS Kernel

(* "Set divisor to 3" (kernel.cbl:371): a serial port that is there is     *)
(* left with the divisor 3.                                                *)
DivisorIsThree == uart.kind # "absent" => uart.dll = 3 /\ uart.dlm = 0

(* "a good serial port should return (loop) what we send over"             *)
(* (kernel.cbl:391-392): the test does not complain of a good one.         *)
GoodPortPasses == uart.kind = "good" => "UART test failure" \notin complaints

(* "Read configuration and disable IRQs", "Check if it's dual", "Read back *)
(* configuration status byte" (krnlps2c.cbl:43, 61, 122): to know any of   *)
(* these, the data port of the controller has been read.                   *)
ControllerIsRead == 96 \in hwioPorts

(* Not even one of these comments is true of every start-up: a state that  *)
(* violates this refutes each of them.                                     *)
OneOfTheCommentsHolds ==
    place = "menu" => DivisorIsThree \/ GoodPortPasses \/ ControllerIsRead
=============================================================================

----------------------------- MODULE MCMemRealloc -----------------------------
(* realloc over a single bank, growing and shrinking by one byte or two.   *)
EXTENDS MemRealloc

OneBank == <<[addr |-> 1, size |-> 13]>>

AllResizes == Sizes \X Sizes

(* "Create (split) block with remainder size. We will put it after the     *)
(* block for simplicity" (alloc.c:374-375): the free block made of the     *)
(* remainder is the successor of another block, as every free block is     *)
(* that is not the first.                                                  *)
RemainderIsAfter ==
    \A b \in BlockIds :
        blocks[b].type = "free" /\ b # regions[b[1]].head =>
            \E c \in BlockIds : blocks[c].type # "absent" /\ blocks[c].next = b
=============================================================================

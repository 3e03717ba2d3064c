------------------------------ MODULE MCBuddy ------------------------------
(* A heap of 1024 bytes: level 5 has one word, level 6 two.                *)
EXTENDS Buddy

MCSizes == {0, 16, 17, 100, 512, 1024, 1025}
MCPointers == {-8, 4, 1024} \union {32 * i + 8 * (i % 4) : i \in 0..31}
=============================================================================

------------------------------ MODULE MCDigest ------------------------------
(* Two books, so that a list can be one book too long.  One subscriber is  *)
(* enough for the order of reading, sending and marking; with two a digest *)
(* can also be cut short between two mails.                                *)
EXTENDS Digest

CONSTANTS u1, u2

OneUser  == {u1}
TwoUsers == {u1, u2}
TwoBooks == 1 .. 2
=============================================================================

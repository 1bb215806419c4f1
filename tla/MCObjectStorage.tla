--------------------------- MODULE MCObjectStorage ---------------------------
(* An instance of ObjectStorage for TLC: an object and an attachment that    *)
(* together exceed the bytes of the quota, and two workers.                  *)
EXTENDS ObjectStorage

MCSize == [u \in Upload |-> IF u \in Object THEN 2 ELSE 1]
=============================================================================

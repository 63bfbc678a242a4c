------------------------------- MODULE Buffer -------------------------------
(***************************************************************************)
(* The growing buffer of Tema_3/buffer.c as the sequence of what it holds. *)
(* Positions count from 0, as in the code.                                 *)
(***************************************************************************)
EXTENDS Integers, Sequences

buffer_init == <<>>

buffer_add(buffer, data) == buffer \o data

\* data lies at position i of the buffer.
LiesAt(buffer, data, i) == \A j \in 1 .. Len(data) : buffer[i + j] = data[j]

\* The first position, or -1.
buffer_find(buffer, data) ==
  LET found == {i \in 0 .. Len(buffer) - Len(data) : LiesAt(buffer, data, i)}
  IN  IF found = {} THEN -1 ELSE CHOOSE i \in found : \A k \in found : i <= k

\* The one word that servers spell in two ways.
tolower(word) == IF word = "Content-Length" THEN "content-length" ELSE word

Lowered(s) == [k \in DOMAIN s |-> tolower(s[k])]

buffer_find_insensitive(buffer, data) == buffer_find(Lowered(buffer), Lowered(data))
=============================================================================

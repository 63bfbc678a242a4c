---------------------------- MODULE HttpReceive ----------------------------
(***************************************************************************)
(* receive_from_server of Tema_3/helpers.c.  A reply is the status line,   *)
(* the first part of the cookie, its end with the header that may name the *)
(* length, the blank line in two and the body in two.  A read returns any  *)
(* part of what has not been read yet, 0 once the server has closed, or    *)
(* fails.                                                                  *)
(***************************************************************************)
EXTENDS Buffer

\* The header that names the length, in the spelling the client does not look for,
\* or another in its place.
Unnamed == "Date"
Namings == {"content-length", Unnamed}

HEADER_TERMINATOR == <<"crlf", "crlf">>
CONTENT_LENGTH == <<"Content-Length">>
HeaderEnd == 5   \* the units up to and with the blank line
Whole == 7
Word == 16       \* 2^w for C's size_t: only has to exceed Whole

VARIABLES
  reading,         \* "no", "header" in the first loop, "body" in the second
  size,            \* buffer.size
  header_end, content_length,
  naming,          \* how the reply names its Content-Length, if it does
  closed           \* the server has closed before the end of the reply

receiving == <<reading, size, header_end, content_length, naming, closed>>

\* What the buffer holds.
Buffered(n) == SubSeq(<<"status", "cookie", naming, "crlf", "crlf", "body", "body">>, 1, n)

ReceiveInit ==
  /\ reading = "no" /\ size = Len(buffer_init) /\ header_end = 0 /\ content_length = 0
  /\ naming = Unnamed /\ closed = FALSE

\* The call: the buffer is empty.
StartReceive ==
  /\ reading' = "header" /\ size' = Len(buffer_init) /\ header_end' = 0 /\ content_length' = 0
  /\ naming' \in Namings /\ closed' = FALSE

ServerCloses ==
  /\ reading # "no" /\ ~closed /\ size < Whole
  /\ closed' = TRUE
  /\ UNCHANGED <<reading, size, header_end, content_length, naming>>

\* Any part of what is left is appended.
ReadSome ==
  /\ ~closed /\ size < Whole
  /\ \E n \in 1 .. Whole - size :
       size' = Len(buffer_add(Buffered(size), SubSeq(Buffered(Whole), size + 1, size + n)))

\* Mutants: the length is taken for the length of the whole reply; only what this
\* read has added is searched for the end of the header.
HeaderNotCounted ==
  /\ reading = "header" /\ ReadSome
  /\ LET end == buffer_find(Buffered(size'), HEADER_TERMINATOR)
         named == buffer_find_insensitive(Buffered(size'), CONTENT_LENGTH)
     IN  /\ header_end' = IF end >= 0 THEN 0 ELSE end
         /\ IF end >= 0 /\ named >= 0
            THEN content_length' = Whole - HeaderEnd /\ reading' = "body"
            ELSE UNCHANGED <<content_length, reading>>
  /\ UNCHANGED <<naming, closed>>
HeaderInOneRead ==
  /\ reading = "header" /\ ReadSome
  /\ LET end == buffer_find(SubSeq(Buffered(size'), size + 1, size'), HEADER_TERMINATOR)
         named == buffer_find_insensitive(Buffered(size'), CONTENT_LENGTH)
     IN  /\ header_end' = IF end >= 0 THEN HeaderEnd ELSE end
         /\ IF end >= 0 /\ named >= 0
            THEN content_length' = Whole - HeaderEnd /\ reading' = "body"
            ELSE UNCHANGED <<content_length, reading>>
  /\ UNCHANGED <<naming, closed>>

\* bytes > 0 in the first loop: on with it unless the Content-Length was found.
ReadHeader ==
  /\ reading = "header" /\ ReadSome
  /\ LET end == buffer_find(Buffered(size'), HEADER_TERMINATOR)
         named == buffer_find_insensitive(Buffered(size'), CONTENT_LENGTH)
     IN  /\ header_end' = IF end >= 0 THEN end + Len(HEADER_TERMINATOR) ELSE end
         /\ IF end >= 0 /\ named >= 0
            THEN content_length' = Whole - HeaderEnd /\ reading' = "body"
            ELSE UNCHANGED <<content_length, reading>>
  /\ UNCHANGED <<naming, closed>>

\* bytes = 0 in the first loop; a server that names no length closes at the end.
HeaderCut ==
  /\ reading = "header" /\ (closed \/ (size = Whole /\ naming = Unnamed))
  /\ reading' = "body"
  /\ UNCHANGED <<size, header_end, content_length, naming, closed>>

\* The int header_end becomes a size_t: -1 is the largest there is.
total == (content_length + header_end) % Word

ReadBody ==
  /\ reading = "body" /\ size < total /\ ReadSome
  /\ UNCHANGED <<reading, header_end, content_length, naming, closed>>

\* The second loop's condition fails, or bytes = 0: what there is, is returned.
ReturnResponse ==
  /\ reading = "body" /\ (size >= total \/ closed)
  /\ reading' = "no"
  /\ UNCHANGED <<size, header_end, content_length, naming, closed>>

Receiving == ServerCloses \/ ReadHeader \/ HeaderCut \/ ReadBody
=============================================================================

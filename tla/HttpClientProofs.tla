-------------------------- MODULE HttpClientProofs --------------------------
(***************************************************************************)
(* What the client of Tema_3 keeps through any commands, replies and cuts: *)
(* its sessions and tokens, its memory, its connections and its            *)
(* collections, for any accounts and any number of sessions, commands and  *)
(* movies.                                                                 *)
(***************************************************************************)
EXTENDS HttpClient, BufferProofs, SequenceTheorems

-----------------------------------------------------------------------------
(* The inductive invariant, in four parts: receiving, loop, movies, session. *)

Busy == pc \in {"input", "request", "receive", "handle"}
Replied == pc \in {"receive", "handle"}

\* Of receive_from_server: the second loop is entered at the end of the stream or
\* with the length of the whole reply.
ReceiveOK ==
  /\ size \in Nat /\ size <= Whole /\ header_end \in {-1, 0, HeaderEnd}
  /\ naming \in Namings /\ closed \in BOOLEAN /\ reading \in {"no", "header", "body"}
  /\ reading = "body" =>
       closed \/ size = Whole \/ (header_end = HeaderEnd /\ content_length = Whole - HeaderEnd)
  /\ pc = "handle" => size = Whole \/ closed

\* Of the command loop: a command that runs has one connection more than were left
\* open.
LoopOK ==
  /\ pc \in {"prompt", "ended"} \/ Busy
  /\ command \in Commands \cup {"none", "exit"} /\ account \in Users \cup {Admin}
  /\ commands \in Nat /\ commands <= MaxCommands /\ leaks \in Nat /\ leaks <= commands
  /\ connections \in Nat /\ connections <= commands
  /\ pc = "prompt" => connections = leaks
  /\ Busy => connections = leaks + 1 /\ leaks < commands /\ command \in Commands

\* Of add_collection: a movie less was counted than were sent, or all before the last
\* are with the server.
MoviesOK ==
  /\ num_movies \in Int /\ -1 <= num_movies /\ num_movies <= MaxMovies
  /\ i \in Nat /\ (i = 0 \/ i <= num_movies)
  /\ cnt \in Nat /\ (i = 0 => cnt = 0) /\ (i > 0 => cnt <= i - 1)
  /\ \A k \in added : k \in Nat /\ 1 <= k /\ k <= i
  /\ (i > 0 /\ cnt = i - 1) => \A k \in 1 .. i - 1 : k \in added
  /\ (Replied /\ i > 0 /\ reply.ok) => i \in added
  /\ (Busy /\ i > 0) => command = "add_collection" /\ pc # "input"
  /\ Busy => said = "none"
  /\ said \in {"none", "success", "added", "error"}
  /\ said = "added" => num_movies \in Nat /\ added = 1 .. num_movies

Logins == {"login_admin", "login"}
Logouts == {"logout_admin", "logout"}

SessionTypes ==
  /\ DOMAIN live \subseteq Sessions /\ live \in [DOMAIN live -> Users \cup {Admin}]
  /\ issued \in 0 .. MaxSessions /\ expired \cup anonymous \cup lost \subseteq Sessions
  /\ cookies \in Sessions \cup {NoSession, Cut} /\ acces_token \in Sessions \cup {NoSession}
  /\ cookies_exist \in BOOLEAN /\ acces_token_exist \in BOOLEAN
  /\ {cookie_mem, token_mem} \subseteq {"unset", "live", "freed", "twice"}
  /\ reply \in [ok : BOOLEAN, session : Sessions \cup {NoSession}]

UsersSession(n) == n \in DOMAIN live => live[n] \in Users

\* A token is the one of the cookie's session, which is no administrator's.
TokenInv ==
  acces_token_exist => cookies_exist /\ acces_token = cookies /\ UsersSession(cookies)

\* What a reply that has not been handled says of the session.
PendingInv ==
  /\ (Busy /\ command \in Logins) => ~cookies_exist
  /\ (Replied /\ command \in Logins /\ reply.session # NoSession) =>
       reply.session \in DOMAIN live \cup expired \cup anonymous
  /\ (Replied /\ command \in Logouts /\ reply.ok) =>
       /\ cookies_exist /\ cookies \in Sessions /\ cookies \notin DOMAIN live
       /\ command = "logout_admin" => ~acces_token_exist
  /\ (Replied /\ command = "get_access" /\ reply.ok) =>
       cookies_exist /\ reply.session = cookies /\ UsersSession(cookies)

\* AgreeUnlessLost with what is under way.
AgreeInv ==
  pc # "ended" =>
    /\ (cookies_exist /\ cookies # Cut) =>
         \/ cookies \in DOMAIN live \cup expired \cup anonymous \cup lost
         \/ Replied /\ command \in Logouts /\ reply.ok
    /\ \A n \in DOMAIN live :
         \/ n \in lost
         \/ cookies_exist /\ cookies = n
         \/ Replied /\ command \in Logins /\ reply.ok /\ reply.session = n

SessionOK == SessionTypes /\ FlagsMatchMemory /\ TokenInv /\ PendingInv /\ AgreeInv

IInv == ReceiveOK /\ LoopOK /\ MoviesOK /\ SessionOK

-----------------------------------------------------------------------------
(* The reply is received. *)

\* A whole reply, and what its parts are.
WholeReply == <<"status", "cookie", naming, "crlf", "crlf", "body", "body">>
Parts == {"status", "cookie", "content-length", "Date", "crlf", "body"}

LEMMA ReplyParts ==
  ASSUME naming \in Namings
  PROVE  /\ WholeReply \in Seq(Parts) /\ Len(WholeReply) = 7
         /\ \A k \in 1 .. 7 : WholeReply[k] = "crlf" <=> (k = 4 \/ k = 5)
<1>1. naming \in Parts /\ naming # "crlf"
  BY Zenon DEF Namings, Unnamed, Parts
<1>2. WholeReply[1] = "status" /\ WholeReply[2] = "cookie" /\ WholeReply[3] = naming
      /\ WholeReply[4] = "crlf" /\ WholeReply[5] = "crlf" /\ WholeReply[6] = "body"
      /\ WholeReply[7] = "body" /\ Len(WholeReply) = 7
  BY DEF WholeReply
<1>3. {"status", "cookie", "crlf", "body"} \subseteq Parts
  BY Zenon DEF Parts
<1>4. WholeReply \in Seq(Parts)
  BY <1>1, <1>3 DEF WholeReply
<1>5. \A k \in 1 .. 7 : k = 1 \/ k = 2 \/ k = 3 \/ k = 4 \/ k = 5 \/ k = 6 \/ k = 7
  OBVIOUS
<1> QED BY <1>1, <1>2, <1>4, <1>5

LEMMA TerminatorParts ==
  /\ HEADER_TERMINATOR \in Seq(Parts) /\ Len(HEADER_TERMINATOR) = 2
  /\ HEADER_TERMINATOR[1] = "crlf" /\ HEADER_TERMINATOR[2] = "crlf"
<1>1. "crlf" \in Parts
  BY Zenon DEF Parts
<1> QED BY <1>1 DEF HEADER_TERMINATOR

\* What the buffer holds is the start of the reply.
LEMMA BufferedParts ==
  ASSUME naming \in Namings, NEW n \in Nat, n <= Whole
  PROVE  /\ Buffered(n) \in Seq(Parts) /\ Len(Buffered(n)) = n
         /\ \A k \in 1 .. n : Buffered(n)[k] = WholeReply[k]
<1>1. Buffered(n) = SubSeq(WholeReply, 1, n)
  BY Zenon DEF Buffered, WholeReply
<1>2. WholeReply \in Seq(Parts) /\ Len(WholeReply) = 7
  BY ReplyParts
<1>3. SubSeq(WholeReply, 1, n) \in Seq(Parts)
  <2>1. \A k \in 1 .. n : k \in 1 .. Len(WholeReply)
    BY <1>2 DEF Whole
  <2>2. \A k \in 1 .. n : WholeReply[k] \in Parts
    BY <1>2, <2>1, ElementOfSeq
  <2> QED BY <2>2, SubSeqProperties
<1>4. Len(SubSeq(WholeReply, 1, n)) = n
  BY <1>2 DEF Whole
<1>5. \A k \in 1 .. n : SubSeq(WholeReply, 1, n)[k] = WholeReply[k]
  BY <1>2 DEF Whole
<1> QED BY <1>1, <1>3, <1>4, <1>5

\* The blank line is found as soon as all of it is there, and at its place.
LEMMA TerminatorFound ==
  ASSUME naming \in Namings, NEW n \in Nat, n <= Whole
  PROVE  buffer_find(Buffered(n), HEADER_TERMINATOR) = IF n >= HeaderEnd THEN 3 ELSE -1
<1> DEFINE b == Buffered(n)
           P == Positions(b, HEADER_TERMINATOR)
<1>1. b \in Seq(Parts) /\ Len(b) = n /\ \A k \in 1 .. n : b[k] = "crlf" <=> (k = 4 \/ k = 5)
  <2>1. \A k \in 1 .. n : k \in 1 .. 7
    BY DEF Whole
  <2> QED BY <2>1, BufferedParts, ReplyParts
<1> HIDE DEF b
<1>2. \A k \in P : k = 3 /\ n >= 5
  <2> SUFFICES ASSUME NEW k \in P PROVE k = 3 /\ n >= 5
    OBVIOUS
  <2>1. k \in Nat /\ k <= n - 2 /\ b[k + 1] = "crlf" /\ b[k + 2] = "crlf"
    BY <1>1, TerminatorParts DEF Positions, LiesAt
  <2>2. k + 1 \in 1 .. n /\ k + 2 \in 1 .. n
    BY <2>1
  <2> QED BY <1>1, <2>1, <2>2
<1>3. n >= 5 => 3 \in P
  <2> SUFFICES ASSUME n >= 5 PROVE 3 \in P
    OBVIOUS
  <2>1. b[4] = "crlf" /\ b[5] = "crlf"
    BY <1>1
  <2>2. \A j \in 1 .. 2 : b[3 + j] = HEADER_TERMINATOR[j]
    <3>1. \A j \in 1 .. 2 : j = 1 \/ j = 2
      OBVIOUS
    <3>2. 3 + 1 = 4 /\ 3 + 2 = 5
      OBVIOUS
    <3> QED BY <2>1, <3>1, <3>2, TerminatorParts
  <2>3. 3 \in 0 .. Len(b) - Len(HEADER_TERMINATOR)
    BY <1>1, TerminatorParts
  <2> QED BY TerminatorParts, <2>2, <2>3 DEF Positions, LiesAt
<1>4. LET f == buffer_find(b, HEADER_TERMINATOR)
      IN  (f = -1 <=> P = {}) /\ (f # -1 => f \in P)
  BY <1>1, TerminatorParts, FoundIsFirst
<1> HIDE DEF P
<1> DEFINE f == buffer_find(b, HEADER_TERMINATOR)
<1>5. (f = -1 <=> P = {}) /\ (f # -1 => f \in P)
  BY <1>4
<1> HIDE DEF f
<1>6. f = IF n >= 5 THEN 3 ELSE -1
  BY <1>2, <1>3, <1>5
<1> QED BY <1>6 DEF b, f, HeaderEnd

\* A read adds something and no more than there is.
LEMMA ReadAdds ==
  ASSUME naming \in Namings, size \in Nat, size <= Whole, ReadSome
  PROVE  size' \in Nat /\ size < size' /\ size' <= Whole
<1>1. PICK n \in 1 .. Whole - size :
        size' = Len(Buffered(size) \o SubSeq(Buffered(Whole), size + 1, size + n))
  BY DEF ReadSome, buffer_add
<1>2. Buffered(size) \in Seq(Parts) /\ Len(Buffered(size)) = size
  BY BufferedParts
<1>3. Buffered(Whole) \in Seq(Parts) /\ Len(Buffered(Whole)) = 7
  <2>1. Whole \in Nat /\ Whole <= Whole /\ Whole = 7
    BY DEF Whole
  <2> QED BY <2>1, BufferedParts
<1> DEFINE t == SubSeq(Buffered(Whole), size + 1, size + n)
<1>4. n \in Nat /\ n >= 1 /\ size + n <= 7
  BY DEF Whole
<1>5. t \in Seq(Parts)
  <2>1. \A k \in size + 1 .. size + n : k \in 1 .. Len(Buffered(Whole))
    BY <1>3, <1>4
  <2>2. \A k \in size + 1 .. size + n : Buffered(Whole)[k] \in Parts
    BY <1>3, <2>1, ElementOfSeq
  <2>3. size + 1 \in Int /\ size + n \in Int
    BY <1>4
  <2> QED BY <2>2, <2>3, SubSeqProperties
<1>6. Len(t) = n
  BY <1>3, <1>4
<1> HIDE DEF t
<1>7. size' = size + n
  BY <1>1, <1>2, <1>5, <1>6 DEF t
<1> QED BY <1>4, <1>7 DEF Whole

LEMMA ReadHeaderKeeps ==
  ASSUME ReceiveOK, ReadHeader, pc' # "handle"
  PROVE  ReceiveOK'
<1>1. size' \in Nat /\ size' <= Whole /\ size < size' /\ UNCHANGED <<naming, closed>>
  BY ReadAdds DEF ReceiveOK, ReadHeader
<1>2. naming \in Namings /\ closed \in BOOLEAN /\ reading = "header"
  BY DEF ReceiveOK, ReadHeader
<1>3. buffer_find(Buffered(size'), HEADER_TERMINATOR) = IF size' >= HeaderEnd THEN 3 ELSE -1
  BY <1>1, <1>2, TerminatorFound
<1>4. header_end' = (IF size' >= HeaderEnd THEN HeaderEnd ELSE -1)
  <2>1. Len(HEADER_TERMINATOR) = 2
    BY TerminatorParts
  <2>2. LET end == buffer_find(Buffered(size'), HEADER_TERMINATOR)
        IN  header_end' = IF end >= 0 THEN end + 2 ELSE end
    BY <2>1 DEF ReadHeader
  <2> QED BY <1>1, <1>3, <2>2 DEF HeaderEnd
<1>5. \/ reading' = "header"
      \/ reading' = "body" /\ content_length' = Whole - HeaderEnd /\ header_end' = HeaderEnd
  <2>1. \/ UNCHANGED <<content_length, reading>>
        \/ /\ buffer_find(Buffered(size'), HEADER_TERMINATOR) >= 0
           /\ content_length' = Whole - HeaderEnd /\ reading' = "body"
    BY DEF ReadHeader
  <2> QED BY <1>1, <1>2, <1>3, <1>4, <2>1
<1> QED BY <1>1, <1>2, <1>4, <1>5 DEF ReceiveOK

\* The length of the whole reply fits the word: the second loop ends with all of it.
LEMMA ReturnKeeps ==
  ASSUME ReceiveOK, ReturnResponse
  PROVE  ReceiveOK'
<1>1. size = Whole \/ closed
  <2>1. CASE header_end = HeaderEnd /\ content_length = Whole - HeaderEnd /\ size >= total
    BY <2>1 DEF ReceiveOK, total, Word, Whole, HeaderEnd
  <2> QED BY <2>1 DEF ReceiveOK, ReturnResponse
<1> QED BY <1>1 DEF ReceiveOK, ReturnResponse

LEMMA ReceiveKeeps ==
  ASSUME ReceiveOK, Receive
  PROVE  ReceiveOK'
<1>1. CASE ReturnResponse
  BY <1>1, ReturnKeeps
<1> SUFFICES ASSUME Receiving, pc' = pc, pc = "receive" PROVE ReceiveOK'
  BY <1>1 DEF Receive
<1>2. CASE ReadHeader
  BY <1>2, ReadHeaderKeeps
<1>3. CASE ReadBody
  <2>1. size' \in Nat /\ size' <= Whole /\ size < size'
    BY <1>3, ReadAdds DEF ReceiveOK, ReadBody
  <2> QED BY <1>3, <2>1 DEF ReceiveOK, ReadBody
<1>4. CASE ServerCloses
  BY <1>4 DEF ReceiveOK, ServerCloses
<1>5. CASE HeaderCut
  BY <1>5 DEF ReceiveOK, HeaderCut
<1> QED BY <1>2, <1>3, <1>4, <1>5 DEF Receiving

\* Outside of it the buffer is left alone or emptied.
Quiet == UNCHANGED receiving /\ (pc' = "handle" => pc = "handle")
Emptied ==
  /\ pc' # "handle" /\ size' = 0 /\ header_end' = 0 /\ reading' \in {"no", "header"}
  /\ naming' \in Namings /\ closed' \in BOOLEAN

LEMMA FinishEmpties ==
  ASSUME NEW result, Finish(result)
  PROVE  Emptied
BY DEF Finish, Emptied, Namings, Unnamed

LEMMA StartEmpties ==
  ASSUME StartReceive, pc' # "handle"
  PROVE  Emptied
<1>1. size' = 0
  BY DEF StartReceive, buffer_init
<1> QED BY <1>1 DEF StartReceive, Emptied

LEMMA StepEmpties ==
  ASSUME ReceiveOK, Next
  PROVE  Quiet \/ Emptied \/ Receive
<1>1. CASE login_admin \/ login \/ OtherCommand
  <2>1. PICK c : Open(c)
    BY <1>1 DEF login_admin, login, OtherCommand, LoginAs
  <2> QED BY <2>1 DEF Open, Quiet
<1>2. CASE RefuseLogin \/ ValidInput \/ NegativeCount \/ InvalidMovieId \/ exit \/ NetworkError
           \/ SessionEnds
  BY <1>2 DEF RefuseLogin, ValidInput, NegativeCount, InvalidMovieId, exit, NetworkError,
     SessionEnds, Quiet
<1>3. CASE InvalidInput \/ LoggedInAdmin \/ LoggedInUser \/ LoggedOutAdmin \/ LoggedOutUser
           \/ Access \/ Printed \/ PrintedAndLeft \/ CollectionRefused \/ CollectionAdded
  <2>1. \E result : Finish(result)
    BY <1>3, Zenon DEF InvalidInput, LoggedInAdmin, LoggedInUser, LoggedOutAdmin, LoggedOutUser,
       LoggedOut, Access, Printed, PrintedAndLeft, CollectionRefused, CollectionAdded, Done
  <2> QED BY <2>1, FinishEmpties
<1>4. CASE AccessCrashes \/ NextMovie
  BY <1>4 DEF AccessCrashes, NextMovie, Quiet
<1>5. CASE SendCommand
  BY <1>5, StartEmpties DEF SendCommand, Request
<1>6. CASE SendMovie
  <2>1. CASE closed \/ naming = Unnamed
    BY <1>6, <2>1 DEF SendMovie, Emptied, ReceiveOK
  <2> QED BY <1>6, <2>1, StartEmpties DEF SendMovie
<1> QED BY <1>1, <1>2, <1>3, <1>4, <1>5, <1>6 DEF Next, Typed, Handled

LEMMA ReceiveStarts ==
  Init => ReceiveOK
<1> SUFFICES ASSUME Init PROVE ReceiveOK
  OBVIOUS
<1>1. size = 0
  BY DEF Init, ReceiveInit, buffer_init
<1>2. header_end = 0 /\ reading = "no" /\ naming \in Namings /\ closed \in BOOLEAN
      /\ pc = "prompt"
  BY Zenon DEF Init, ReceiveInit, Namings
<1> QED BY <1>1, <1>2 DEF ReceiveOK, Whole

LEMMA ReceiveNext ==
  ReceiveOK /\ [Next]_vars => ReceiveOK'
<1> SUFFICES ASSUME ReceiveOK, [Next]_vars PROVE ReceiveOK'
  OBVIOUS
<1>1. CASE UNCHANGED vars \/ Quiet
  BY <1>1 DEF vars, receiving, Quiet, ReceiveOK
<1>2. CASE Emptied
  BY <1>2 DEF Emptied, ReceiveOK, Whole
<1>3. CASE Receive
  BY <1>3, ReceiveKeeps
<1> QED BY <1>1, <1>2, <1>3, StepEmpties

\* A reply that is returned is whole unless the server closed early: the blank line
\* is found wherever a read ends, and its place and the length add up without
\* wrapping (helpers.c 73-126).
THEOREM WholeReplies == Spec => []WholeUnlessClosed
<1>1. ReceiveOK => WholeUnlessClosed
  BY DEF ReceiveOK, WholeUnlessClosed
<1> QED BY <1>1, ReceiveStarts, ReceiveNext, PTL DEF Spec

-----------------------------------------------------------------------------
(* The command loop. *)

\* A command is typed: which, and for whom.
Typing(c) ==
  /\ Open(c) /\ c \in Commands /\ account' \in Users \cup {Admin}
  /\ c \in Logins => ~cookies_exist

LEMMA TypedIsOpen ==
  ASSUME account \in Users \cup {Admin}, login_admin \/ login \/ OtherCommand
  PROVE  \E c : Typing(c)
<1>1. CASE login_admin
  BY <1>1 DEF login_admin, LoginAs, Typing, Commands, SessionCommands
<1>2. CASE login
  BY <1>2 DEF login, LoginAs, Typing, Commands, SessionCommands
<1>3. CASE OtherCommand
  BY <1>3, Zenon DEF OtherCommand, Typing, Logins
<1> QED BY <1>1, <1>2, <1>3

\* The commands that print what became of them, each with its end.
Ending(result) == Handled /\ Finish(result)

LEMMA HandledEnds ==
  ASSUME Handled
  PROVE  NextMovie \/ AccessCrashes \/ \E result : Ending(result)
BY Zenon DEF Handled, Ending, LoggedInAdmin, LoggedInUser, LoggedOutAdmin, LoggedOutUser,
   LoggedOut, Access, Printed, PrintedAndLeft, CollectionRefused, CollectionAdded, Done

LEMMA HandledCounts ==
  ASSUME Handled
  PROVE  /\ pc = "handle"
         /\ \/ NextMovie
            \/ AccessCrashes
            \/ pc' = "prompt" /\ connections' = connections - 1 /\ leaks' = leaks
            \/ pc' = "prompt" /\ connections' = connections /\ leaks' = leaks + 1
BY Zenon DEF Handled, LoggedInAdmin, LoggedInUser, LoggedOutAdmin, LoggedOutUser, Handle,
   LoggedOut, Access, AccessCrashes, Printed, PrintedAndLeft, CollectionRefused, NextMovie,
   CollectionAdded, Done, Finish

LEMMA LoopKeeps ==
  ASSUME LoopOK, Next
  PROVE  LoopOK'
<1>1. CASE login_admin \/ login \/ OtherCommand
  <2>1. PICK c : Typing(c)
    BY <1>1, TypedIsOpen DEF LoopOK
  <2> QED BY <2>1, ClientAssumption DEF Typing, Open, LoopOK, Busy
<1>2. CASE RefuseLogin \/ ValidInput \/ NegativeCount \/ InvalidMovieId \/ NetworkError
           \/ SessionEnds
  BY <1>2 DEF RefuseLogin, ValidInput, NegativeCount, InvalidMovieId, NetworkError, SessionEnds,
     LoopOK, Busy, history
<1>3. CASE exit
  BY <1>3 DEF exit, LoopOK, Busy, history
<1>4. CASE InvalidInput
  BY <1>4 DEF InvalidInput, Done, Finish, LoopOK, Busy
<1>5. CASE SendCommand \/ SendMovie \/ Receive
  BY <1>5 DEF SendCommand, Request, SendMovie, Receive, LoopOK, Busy, history
<1>6. CASE NextMovie \/ AccessCrashes
  BY <1>6 DEF NextMovie, AccessCrashes, Handle, LoopOK, Busy, history
<1>7. CASE Handled /\ ~NextMovie /\ ~AccessCrashes
  <2>1. PICK result : Finish(result)
    BY <1>7, HandledEnds DEF Ending
  <2>2. pc = "handle" /\ pc' = "prompt" /\ commands' = commands /\ command' = "none"
        /\ account' = Admin
    BY <1>7, <2>1, HandledCounts DEF Finish
  <2>3. \/ connections' = connections - 1 /\ leaks' = leaks
        \/ connections' = connections /\ leaks' = leaks + 1
    BY <1>7, HandledCounts
  <2> QED BY <2>2, <2>3 DEF LoopOK, Busy
<1> QED BY <1>1, <1>2, <1>3, <1>4, <1>5, <1>6, <1>7 DEF Next, Typed

LEMMA LoopNext ==
  LoopOK /\ [Next]_vars => LoopOK'
<1>1. LoopOK /\ UNCHANGED vars => LoopOK'
  BY DEF vars, history, LoopOK, Busy
<1> QED BY <1>1, LoopKeeps

LEMMA LoopStarts ==
  Init => LoopOK
BY ClientAssumption DEF Init, LoopOK, Busy

\* Every path through a command closes the connection it opened, except the two that
\* change a collection (client.c 32-868).
THEOREM LeaksCounted == Spec => []OnlyTwoLeak
<1>1. LoopOK => OnlyTwoLeak
  BY DEF LoopOK, OnlyTwoLeak
<1> QED BY <1>1, LoopStarts, LoopNext, PTL DEF Spec

-----------------------------------------------------------------------------
(* A new collection. *)

\* A command ends with anything but a whole collection.
LEMMA FinishMovies ==
  ASSUME MoviesOK, NEW result \in {"success", "error"}, Finish(result)
  PROVE  MoviesOK'
BY DEF MoviesOK, Finish, Busy, Replied, adding

\* What has been counted when movie i is answered.
LEMMA Counted ==
  ASSUME MoviesOK, Replied
  PROVE  /\ Count \in Nat /\ Count <= i
         /\ Count = i => \A k \in 1 .. i : k \in added
<1>1. CASE i > 0 /\ SaysOk
  BY <1>1 DEF MoviesOK, Count, SaysOk
<1>2. CASE ~(i > 0 /\ SaysOk)
  BY <1>2 DEF MoviesOK, Count
<1> QED BY <1>1, <1>2

LEMMA MoviesKeep ==
  ASSUME MoviesOK, Next
  PROVE  MoviesOK'
<1>1. CASE login_admin \/ login \/ OtherCommand
  <2>1. PICK c : Open(c)
    BY <1>1 DEF login_admin, login, OtherCommand, LoginAs
  <2> QED BY <2>1, ClientAssumption DEF Open, MoviesOK, Busy, Replied
<1>2. CASE RefuseLogin \/ NegativeCount \/ InvalidMovieId \/ exit \/ NetworkError \/ SessionEnds
           \/ AccessCrashes
  BY <1>2 DEF RefuseLogin, NegativeCount, InvalidMovieId, exit, NetworkError, SessionEnds,
     AccessCrashes, MoviesOK, Busy, Replied, adding
<1>3. CASE ValidInput
  BY <1>3, ClientAssumption DEF ValidInput, MoviesOK, Busy, Replied, adding
<1>4. CASE SendCommand
  BY <1>4 DEF SendCommand, Request, MoviesOK, Busy, Replied
<1>5. CASE SendMovie
  BY <1>5 DEF SendMovie, Refusal, Reply, MoviesOK, Busy, Replied
<1>6. CASE Receive
  BY <1>6 DEF Receive, MoviesOK, Busy, Replied, adding
<1>7. CASE NextMovie
  <2>1. pc = "handle" /\ pc' = "request" /\ i' = i + 1 /\ cnt' = Count /\ i < num_movies
        /\ command = "add_collection" /\ UNCHANGED <<command, num_movies, added, said>>
    BY <1>7 DEF NextMovie, Handle
  <2> QED BY <2>1, Counted DEF MoviesOK, Busy, Replied
<1>8. CASE CollectionAdded
  <2>1. pc = "handle" /\ i >= num_movies
        /\ Finish(IF Count = num_movies THEN "added" ELSE "error")
    BY <1>8 DEF CollectionAdded, Handle, Done
  <2>2. CASE Count = num_movies
    <3>1. num_movies \in Nat /\ added = 1 .. num_movies
      <4>1. Replied /\ Count = i /\ i = num_movies /\ num_movies \in Nat
        BY <2>1, <2>2, Counted DEF Replied, MoviesOK
      <4>2. \A k \in 1 .. num_movies : k \in added
        BY <4>1, Counted
      <4>3. \A k \in added : k \in 1 .. num_movies
        BY <4>1 DEF MoviesOK
      <4> QED BY <4>1, <4>2, <4>3
    <3> QED BY <2>1, <2>2, <3>1 DEF MoviesOK, Finish, Busy, Replied, adding
  <2> QED BY <2>1, <2>2, FinishMovies
<1>9. CASE InvalidInput \/ LoggedInAdmin \/ LoggedInUser \/ LoggedOutAdmin \/ LoggedOutUser
           \/ Access \/ Printed \/ PrintedAndLeft \/ CollectionRefused
  <2>1. \E result \in {"success", "error"} : Finish(result)
    BY <1>9, Zenon DEF InvalidInput, LoggedInAdmin, LoggedInUser, LoggedOutAdmin, LoggedOutUser,
       LoggedOut, Access, Printed, PrintedAndLeft, CollectionRefused, Done, Result
  <2> QED BY <2>1, FinishMovies
<1> QED BY <1>1, <1>2, <1>3, <1>4, <1>5, <1>6, <1>7, <1>8, <1>9 DEF Next, Typed, Handled

LEMMA MoviesNext ==
  MoviesOK /\ [Next]_vars => MoviesOK'
<1>1. MoviesOK /\ UNCHANGED vars => MoviesOK'
  BY DEF vars, adding, MoviesOK, Busy, Replied
<1> QED BY <1>1, MoviesKeep

LEMMA MoviesStart ==
  Init => MoviesOK
BY ClientAssumption DEF Init, MoviesOK, Busy, Replied

\* add_collection reports success only if the server has every movie of it
\* (client.c 707-745).
THEOREM CollectionsAreWhole == Spec => []SuccessIsWhole
<1>1. MoviesOK => SuccessIsWhole
  BY DEF MoviesOK, SuccessIsWhole
<1> QED BY <1>1, MoviesStart, MoviesNext, PTL DEF Spec

-----------------------------------------------------------------------------
(* What the server's answer is about. *)

LEMMA OwnCookie ==
  ASSUME cookies_exist \in BOOLEAN, acces_token_exist \in BOOLEAN
  PROVE  /\ Own.cookie = IF cookies_exist THEN cookies ELSE NoSession
         /\ Own.authorization = IF acces_token_exist THEN acces_token ELSE NoSession
BY DEF Own, Headers

\* The request of a command: the five that are about a session, and the others.
LEMMA RequestOf ==
  ASSUME command \in Commands
  PROVE  /\ command \in Logins =>
              TheRequest.url \in {"admin/login", "user/login"} /\ TheRequest.body = account
         /\ command = "logout_admin" => TheRequest = compute_get_request("admin/logout", None, Own)
         /\ command = "logout" => TheRequest = compute_get_request("user/logout", None, Own)
         /\ command = "get_access" => TheRequest = compute_get_request("library/access", None, Own)
         /\ command \notin Logins \cup Logouts \cup {"get_access"} =>
              TheRequest.url \in {"admin/users", "library/movies", "library/collections"}
<1>1. CASE command = "login_admin"
  BY <1>1 DEF TheRequest, compute_post_request, Logins, Logouts
<1>2. CASE command = "login"
  BY <1>2 DEF TheRequest, compute_post_request, Logins, Logouts
<1>3. CASE command \in Logouts \cup {"get_access"}
  BY <1>3 DEF TheRequest, compute_get_request, Logins, Logouts
<1>4. CASE command \in AdminCommands
  BY <1>4 DEF TheRequest, compute_get_request, compute_post_request, compute_delete_request,
     Logins, Logouts, AdminCommands
<1>5. CASE command \in MovieCommands \cup MovieChanges
  BY <1>5 DEF TheRequest, compute_get_request, compute_post_request, compute_delete_request,
     compute_put_request, Logins, Logouts, MovieCommands, MovieChanges
<1>6. CASE command \in CollectionCommands \cup CollectionChanges
                         \cup {"delete_collection", "add_collection"}
  BY <1>6 DEF TheRequest, compute_get_request, compute_post_request, compute_delete_request,
     Logins, Logouts, CollectionCommands, CollectionChanges
<1> QED BY <1>1, <1>2, <1>3, <1>4, <1>5, <1>6, Zenon
        DEF Commands, LibraryCommands, SessionCommands, Logouts

\* A request that names a session is served for an open one of the right account.
LEMMA AnswerOf ==
  ASSUME command \in Commands, Answer(TheRequest, reply')
  PROVE  /\ command \in Logins => Login(account, reply')
         /\ command \in Logouts =>
              \/ reply' = Refusal /\ UNCHANGED server
              \/ /\ Own.cookie \in DOMAIN live
                 /\ command = "logout_admin" => live[Own.cookie] = Admin
                 /\ reply' = Reply(TRUE, NoSession) /\ live' = Closed(Own.cookie)
                 /\ UNCHANGED <<issued, expired, anonymous>>
         /\ command = "get_access" =>
              /\ UNCHANGED server
              /\ reply' = Refusal \/ (IsUser(Own.cookie) /\ reply' = Reply(TRUE, Own.cookie))
         /\ command \notin Logins \cup Logouts \cup {"get_access"} =>
              UNCHANGED server /\ reply' \in {Refusal, Reply(TRUE, NoSession)}
<1>1. CASE command \in Logins
  BY <1>1, RequestOf DEF Answer, Logins, Logouts
<1>2. CASE command = "logout_admin"
  <2>1. TheRequest.url = "admin/logout" /\ TheRequest.headers = Own
    BY <1>2, RequestOf DEF compute_get_request
  <2>2. \E allowed \in BOOLEAN : (allowed => IsAdmin(Own.cookie)) /\ Logout(Own.cookie, allowed, reply')
    BY <2>1 DEF Answer, MayUse
  <2> QED BY <1>2, <2>2, Zenon DEF Logout, IsAdmin, Logins, Logouts
<1>3. CASE command = "logout"
  <2>1. TheRequest.url = "user/logout" /\ TheRequest.headers = Own
    BY <1>3, RequestOf DEF compute_get_request
  <2>2. \E allowed \in BOOLEAN : (allowed => IsUser(Own.cookie)) /\ Logout(Own.cookie, allowed, reply')
    BY <2>1 DEF Answer, MayUse
  <2> QED BY <1>3, <2>2, Zenon DEF Logout, IsUser, Logins, Logouts
<1>4. CASE command = "get_access"
  <2>1. TheRequest.url = "library/access" /\ TheRequest.headers = Own
    BY <1>4, RequestOf DEF compute_get_request
  <2>2. \E allowed \in BOOLEAN :
           (allowed => IsUser(Own.cookie)) /\ Serve(allowed, Own.cookie, reply')
    BY <2>1 DEF Answer, MayUse
  <2> QED BY <1>4, <2>2, Zenon DEF Serve, Logins, Logouts
<1>5. CASE command \notin Logins \cup Logouts \cup {"get_access"}
  <2>1. TheRequest.url \in {"admin/users", "library/movies", "library/collections"}
    BY <1>5, RequestOf
  <2>2. \E allowed \in BOOLEAN : Serve(allowed, NoSession, reply')
    BY <2>1 DEF Answer
  <2> QED BY <1>5, <2>2, Zenon DEF Serve
<1> QED BY <1>1, <1>2, <1>3, <1>4, <1>5, Zenon DEF Logouts

-----------------------------------------------------------------------------
(* The session. *)

\* Nothing of the session changes.
Held == UNCHANGED <<server, session, access, lost>>

LEMMA HeldKeeps ==
  ASSUME SessionTypes, FlagsMatchMemory, TokenInv, Held, reply' = reply \/ reply' = Refusal
  PROVE  SessionTypes' /\ FlagsMatchMemory' /\ TokenInv'
<1>1. UNCHANGED <<live, issued, expired, anonymous, lost, cookies, cookies_exist, cookie_mem,
                  acces_token, acces_token_exist, token_mem>>
  BY DEF Held, server, session, access
<1>2. Refusal \in [ok : BOOLEAN, session : Sessions \cup {NoSession}]
  BY DEF Refusal, Reply
<1>3. SessionTypes'
  BY <1>1, <1>2 DEF SessionTypes
<1>4. FlagsMatchMemory'
  BY <1>1 DEF FlagsMatchMemory
<1>5. TokenInv'
  BY <1>1 DEF TokenInv, UsersSession
<1> QED BY <1>3, <1>4, <1>5

\* A step of a command between its request and its reply, or before its request, that
\* leaves the session alone.
LEMMA HeldOn ==
  ASSUME SessionOK, Held, UNCHANGED <<reply, command>>, Replied' <=> Replied, Busy' => Busy,
         pc' # "ended" => pc # "ended"
  PROVE  SessionOK'
<1>1. SessionTypes' /\ FlagsMatchMemory' /\ TokenInv'
  BY HeldKeeps DEF SessionOK
<1>2. UNCHANGED <<live, issued, expired, anonymous, lost, cookies, cookies_exist, acces_token_exist>>
  BY DEF Held, server, session, access
<1>3. PendingInv'
  BY <1>2, Zenon DEF SessionOK, PendingInv, UsersSession
<1>4. AgreeInv'
  BY <1>2, Zenon DEF SessionOK, AgreeInv
<1> QED BY <1>1, <1>3, <1>4 DEF SessionOK

\* A step of a command that is not about a session, with its beginning or its end.
LEMMA HeldOver ==
  ASSUME SessionOK, Held, pc # "ended", ~Replied', reply' = reply \/ reply' = Refusal,
         Replied => command \notin Logins \cup Logouts,
         (Busy' /\ command' \in Logins) => ~cookies_exist
  PROVE  SessionOK'
<1>1. SessionTypes' /\ FlagsMatchMemory' /\ TokenInv'
  BY HeldKeeps DEF SessionOK
<1>2. UNCHANGED <<live, issued, expired, anonymous, lost, cookies, cookies_exist, acces_token_exist>>
  BY DEF Held, server, session, access
<1>3. PendingInv'
  BY <1>2, Zenon DEF PendingInv
<1>4. AgreeInv'
  BY <1>2, Zenon DEF SessionOK, AgreeInv
<1> QED BY <1>1, <1>3, <1>4 DEF SessionOK

\* The program ends.
LEMMA HeldEnd ==
  ASSUME SessionOK, Held, UNCHANGED reply, pc' = "ended"
  PROVE  SessionOK'
<1>1. SessionTypes' /\ FlagsMatchMemory' /\ TokenInv'
  BY HeldKeeps DEF SessionOK
<1>2. ~Busy' /\ ~Replied'
  BY DEF Busy, Replied
<1>3. PendingInv' /\ AgreeInv'
  BY <1>2, Zenon DEF PendingInv, AgreeInv
<1> QED BY <1>1, <1>3 DEF SessionOK

LEMMA ExitKeeps ==
  ASSUME SessionOK, exit
  PROVE  SessionOK'
<1>1. UNCHANGED <<live, issued, expired, anonymous, lost, cookies, acces_token, reply>>
  BY DEF exit, server, history
<1>2. cookies_exist' = FALSE /\ acces_token_exist' = FALSE /\ pc' = "ended"
      /\ cookie_mem' = (IF cookies_exist THEN AfterFree(cookie_mem) ELSE cookie_mem)
      /\ token_mem' = (IF acces_token_exist THEN AfterFree(token_mem) ELSE token_mem)
  BY DEF exit
<1>3. /\ cookie_mem' \in {"unset", "freed"}
      /\ token_mem' \in {"unset", "freed"}
  BY <1>2 DEF SessionOK, SessionTypes, FlagsMatchMemory, AfterFree
<1>4. SessionTypes'
  BY <1>1, <1>2, <1>3 DEF SessionOK, SessionTypes
<1>5. FlagsMatchMemory'
  BY <1>2, <1>3 DEF FlagsMatchMemory
<1>6. TokenInv'
  BY <1>2, Zenon DEF TokenInv
<1>7. ~Busy' /\ ~Replied'
  BY <1>2 DEF Busy, Replied
<1>8. PendingInv' /\ AgreeInv'
  BY <1>2, <1>7, Zenon DEF PendingInv, AgreeInv
<1> QED BY <1>4, <1>5, <1>6, <1>8 DEF SessionOK

\* The server closes a session by itself.
LEMMA ExpireKeeps ==
  ASSUME SessionOK, SessionEnds
  PROVE  SessionOK'
<1> PICK n \in DOMAIN live : Expire(n)
  BY DEF SessionEnds
<1>1. UNCHANGED <<pc, command, lost, cookies, cookies_exist, cookie_mem, acces_token,
                  acces_token_exist, token_mem, reply, issued, anonymous>>
  BY DEF SessionEnds, session, access, history, Expire
<1>2. expired' = expired \cup {n} /\ live' = [m \in DOMAIN live \ {n} |-> live[m]]
  BY DEF Expire, Closed
<1>3. DOMAIN live' = DOMAIN live \ {n} /\ \A m \in DOMAIN live' : live'[m] = live[m]
  BY <1>2
<1>4. SessionTypes'
  <2>1. live' \in [DOMAIN live' -> Users \cup {Admin}]
    BY <1>2, <1>3 DEF SessionOK, SessionTypes
  <2>2. DOMAIN live' \subseteq Sessions /\ expired' \cup anonymous' \cup lost' \subseteq Sessions
    BY <1>1, <1>2, <1>3 DEF SessionOK, SessionTypes
  <2> QED BY <1>1, <2>1, <2>2 DEF SessionOK, SessionTypes
<1>5. FlagsMatchMemory'
  BY <1>1 DEF SessionOK, FlagsMatchMemory
<1>6. TokenInv'
  BY <1>1, <1>3, Zenon DEF SessionOK, TokenInv, UsersSession
<1>7. DOMAIN live \cup expired \cup anonymous \subseteq DOMAIN live' \cup expired' \cup anonymous'
  BY <1>1, <1>2, <1>3
<1>8. PendingInv'
  BY <1>1, <1>3, <1>7, Zenon DEF SessionOK, PendingInv, UsersSession, Busy, Replied
<1>9. AgreeInv'
  BY <1>1, <1>3, <1>7, Zenon DEF SessionOK, AgreeInv, Replied
<1> QED BY <1>4, <1>5, <1>6, <1>8, <1>9 DEF SessionOK

\* A login is sent: the client has no session, so that the one it may get is the only
\* one it has to know of.
LEMMA LoginKeeps ==
  ASSUME SessionOK, Busy, ~Replied, account \in Users \cup {Admin}, command \in Logins,
         Login(account, reply'), pc' = "receive",
         UNCHANGED <<session, access, lost, command>>
  PROVE  SessionOK'
<1>1. UNCHANGED <<cookies, cookies_exist, cookie_mem, acces_token, acces_token_exist, token_mem,
                  lost, command>>
  BY DEF session, access
<1>2. cookies_exist = FALSE /\ acces_token_exist = FALSE
  BY Zenon DEF SessionOK, SessionTypes, PendingInv, TokenInv
<1>3. \/ /\ issued' \in Sessions /\ reply' = Reply(TRUE, issued')
         /\ live' = [n \in DOMAIN live \cup {issued'} |-> IF n = issued' THEN account ELSE live[n]]
         /\ UNCHANGED <<expired, anonymous>>
      \/ reply' = Refusal /\ UNCHANGED <<live, issued, expired, anonymous>>
      \/ /\ issued' \in Sessions /\ reply' = Reply(FALSE, issued')
         /\ anonymous' = anonymous \cup {issued'} /\ UNCHANGED <<live, expired>>
  <2>1. issued \in 0 .. MaxSessions /\ MaxSessions \in Nat
    BY ServerAssumption DEF SessionOK, SessionTypes
  <2>2. issued < MaxSessions /\ issued' = issued + 1 => issued' \in Sessions
    BY <2>1 DEF Sessions
  <2> QED BY <2>2 DEF Login, server
<1>4. issued' \in 0 .. MaxSessions
  <2>1. Sessions \subseteq 0 .. MaxSessions
    BY DEF Sessions
  <2> QED BY <1>3, <2>1 DEF SessionOK, SessionTypes
<1>5. reply' \in [ok : BOOLEAN, session : Sessions \cup {NoSession}]
  <2>1. \A n \in Sessions \cup {NoSession} :
          {Reply(TRUE, n), Reply(FALSE, n)} \subseteq [ok : BOOLEAN, session : Sessions \cup {NoSession}]
    BY DEF Reply
  <2>2. Refusal \in [ok : BOOLEAN, session : Sessions \cup {NoSession}]
    BY DEF Refusal, Reply
  <2>3. \/ reply' = Refusal
        \/ \E n \in Sessions \cup {NoSession} : reply' \in {Reply(TRUE, n), Reply(FALSE, n)}
    BY <1>3
  <2> QED BY <2>1, <2>2, <2>3
<1>6. live' \in [DOMAIN live' -> Users \cup {Admin}] /\ DOMAIN live' \subseteq Sessions
  BY <1>3 DEF SessionOK, SessionTypes
<1>7. expired' \cup anonymous' \cup lost' \subseteq Sessions
  BY <1>1, <1>3 DEF SessionOK, SessionTypes
<1>8. SessionTypes'
  BY <1>1, <1>4, <1>5, <1>6, <1>7 DEF SessionOK, SessionTypes
<1>9. FlagsMatchMemory'
  BY <1>1 DEF SessionOK, FlagsMatchMemory
<1>10. TokenInv'
  BY <1>1, <1>2, Zenon DEF TokenInv
<1>11. PendingInv'
  <2>1. reply'.session # NoSession => reply'.session \in DOMAIN live' \cup expired' \cup anonymous'
    BY <1>3 DEF Refusal, Reply, NoSession
  <2>2. command' \notin Logouts /\ command' # "get_access"
    BY <1>1 DEF Logins, Logouts
  <2> QED BY <1>1, <1>2, <2>1, <2>2, Zenon DEF PendingInv
<1>12. AgreeInv'
  <2>1. \A n \in DOMAIN live : n \in lost
    BY <1>2, Zenon DEF SessionOK, AgreeInv, Busy
  <2>2. \A n \in DOMAIN live' : n \in lost' \/ (reply'.ok /\ reply'.session = n)
    BY <1>1, <1>3, <2>1 DEF Reply
  <2>3. Replied' /\ command' \in Logins
    BY <1>1 DEF Replied
  <2> QED BY <1>1, <1>2, <2>2, <2>3, Zenon DEF AgreeInv
<1> QED BY <1>8, <1>9, <1>10, <1>11, <1>12 DEF SessionOK

\* A logout is allowed: the session is closed, and an administrator has no token.
LEMMA LogoutKeeps ==
  ASSUME SessionOK, Busy, ~Replied, command \in Logouts,
         Own.cookie \in DOMAIN live, command = "logout_admin" => live[Own.cookie] = Admin,
         reply' = Reply(TRUE, NoSession), live' = Closed(Own.cookie),
         UNCHANGED <<issued, expired, anonymous>>, pc' = "receive",
         UNCHANGED <<session, access, lost, command>>
  PROVE  SessionOK'
<1>1. UNCHANGED <<cookies, cookies_exist, cookie_mem, acces_token, acces_token_exist, token_mem,
                  lost, command, issued, expired, anonymous>>
  BY DEF session, access
<1>2. cookies_exist \in BOOLEAN /\ acces_token_exist \in BOOLEAN /\ DOMAIN live \subseteq Sessions
  BY DEF SessionOK, SessionTypes
<1>3. NoSession \notin Sessions
  BY ServerAssumption DEF NoSession, Sessions
<1>4. cookies_exist /\ Own.cookie = cookies /\ cookies \in Sessions /\ cookies \in DOMAIN live
  BY <1>2, <1>3, OwnCookie
<1>5. DOMAIN live' = DOMAIN live \ {cookies} /\ \A n \in DOMAIN live' : live'[n] = live[n]
  BY <1>4 DEF Closed
<1>6. live' \in [DOMAIN live' -> Users \cup {Admin}]
  BY <1>4, <1>5 DEF SessionOK, SessionTypes, Closed
<1>7. reply' \in [ok : BOOLEAN, session : Sessions \cup {NoSession}] /\ reply'.session = NoSession
      /\ reply'.ok
  BY DEF Reply
<1>8. SessionTypes'
  BY <1>1, <1>5, <1>6, <1>7 DEF SessionOK, SessionTypes
<1>9. FlagsMatchMemory'
  BY <1>1 DEF SessionOK, FlagsMatchMemory
<1>10. TokenInv'
  BY <1>1, <1>5, Zenon DEF SessionOK, TokenInv, UsersSession
<1>11. PendingInv'
  <2>1. command = "logout_admin" => ~acces_token_exist
    BY <1>4, ServerAssumption, Zenon DEF SessionOK, TokenInv, UsersSession
  <2>2. command \notin Logins /\ command # "get_access"
    BY DEF Logins, Logouts
  <2>3. cookies' \notin DOMAIN live'
    BY <1>1, <1>5
  <2> QED BY <1>1, <1>4, <2>1, <2>2, <2>3, Zenon DEF PendingInv
<1>12. AgreeInv'
  <2>1. \A n \in DOMAIN live : n \in lost \/ (cookies_exist /\ cookies = n)
    BY Zenon DEF SessionOK, AgreeInv, Busy
  <2>2. Replied' /\ command' \in Logouts
    BY <1>1 DEF Replied
  <2> QED BY <1>1, <1>5, <1>7, <2>1, <2>2, Zenon DEF AgreeInv
<1> QED BY <1>8, <1>9, <1>10, <1>11, <1>12 DEF SessionOK

\* Any other request: nothing but the reply is new.
LEMMA ServeKeeps ==
  ASSUME SessionOK, Busy, ~Replied, UNCHANGED <<server, session, access, lost, command>>,
         reply' \in [ok : BOOLEAN, session : Sessions \cup {NoSession}],
         command \in Logins \cup Logouts => reply' = Refusal,
         (command = "get_access" /\ reply'.ok) =>
            cookies_exist /\ reply'.session = cookies /\ UsersSession(cookies)
  PROVE  SessionOK'
<1>1. UNCHANGED <<cookies, cookies_exist, cookie_mem, acces_token, acces_token_exist, token_mem,
                  lost, command, live, issued, expired, anonymous>>
  BY DEF session, access, server
<1>2. SessionTypes'
  BY <1>1 DEF SessionOK, SessionTypes
<1>3. FlagsMatchMemory'
  BY <1>1 DEF SessionOK, FlagsMatchMemory
<1>4. TokenInv'
  BY <1>1, Zenon DEF SessionOK, TokenInv, UsersSession
<1>5. Refusal.ok = FALSE /\ Refusal.session = NoSession
  BY DEF Refusal, Reply
<1>6. PendingInv'
  <2>1. (Busy' /\ command' \in Logins) => ~cookies_exist'
    BY <1>1, Zenon DEF SessionOK, PendingInv
  <2> QED BY <1>1, <1>5, <2>1, Zenon DEF PendingInv, UsersSession
<1>7. AgreeInv'
  <2>1. pc # "ended"
    BY DEF Busy
  <2> QED BY <1>1, <2>1, Zenon DEF SessionOK, AgreeInv
<1> QED BY <1>2, <1>3, <1>4, <1>6, <1>7 DEF SessionOK

LEMMA SendKeeps ==
  ASSUME SessionOK, LoopOK, SendCommand
  PROVE  SessionOK'
<1>1. pc = "request" /\ pc' = "receive" /\ UNCHANGED <<session, access, lost, command>>
      /\ Answer(TheRequest, reply')
  BY DEF SendCommand, Request, history
<1>2. Busy /\ ~Replied
  BY <1>1 DEF Busy, Replied
<1>3. command \in Commands /\ account \in Users \cup {Admin}
  BY <1>2 DEF LoopOK
<1>4. CASE command \in Logins
  BY <1>1, <1>2, <1>3, <1>4, AnswerOf, LoginKeeps
<1>5. Refusal \in [ok : BOOLEAN, session : Sessions \cup {NoSession}] /\ ~Refusal.ok
  BY DEF Refusal, Reply
<1>6. CASE command \in Logouts
  <2>1. CASE reply' = Refusal /\ UNCHANGED server
    <3>1. command # "get_access" /\ UNCHANGED <<server, session, access, lost, command>>
      BY <1>1, <1>6, <2>1 DEF Logouts
    <3> QED BY <1>2, <1>5, <2>1, <3>1, ServeKeeps
  <2>2. CASE ~(reply' = Refusal /\ UNCHANGED server)
    BY <1>1, <1>2, <1>3, <1>6, <2>2, AnswerOf, LogoutKeeps
  <2> QED BY <2>1, <2>2
<1>7. CASE command = "get_access"
  <2>1. UNCHANGED server
        /\ (reply' = Refusal \/ (IsUser(Own.cookie) /\ reply' = Reply(TRUE, Own.cookie)))
    BY <1>1, <1>3, <1>7, AnswerOf
  <2>2. command \notin Logins \cup Logouts /\ UNCHANGED <<server, session, access, lost, command>>
    BY <1>1, <1>7, <2>1 DEF Logins, Logouts
  <2>3. CASE reply' = Refusal
    BY <1>2, <1>5, <2>2, <2>3, ServeKeeps
  <2>4. CASE IsUser(Own.cookie) /\ reply' = Reply(TRUE, Own.cookie)
    <3>1. cookies_exist \in BOOLEAN /\ acces_token_exist \in BOOLEAN /\ DOMAIN live \subseteq Sessions
      BY DEF SessionOK, SessionTypes
    <3>2. NoSession \notin Sessions
      BY ServerAssumption DEF NoSession, Sessions
    <3>3. cookies_exist /\ Own.cookie = cookies /\ cookies \in Sessions /\ live[cookies] \in Users
      BY <2>4, <3>1, <3>2, OwnCookie DEF IsUser
    <3>4. reply' \in [ok : BOOLEAN, session : Sessions \cup {NoSession}] /\ reply'.session = cookies
      BY <2>4, <3>3 DEF Reply
    <3>5. UsersSession(cookies)
      BY <3>3 DEF UsersSession
    <3> QED BY <1>2, <2>2, <3>3, <3>4, <3>5, ServeKeeps
  <2> QED BY <2>1, <2>3, <2>4
<1>8. CASE command \notin Logins \cup Logouts \cup {"get_access"}
  <2>1. UNCHANGED server /\ reply' \in {Refusal, Reply(TRUE, NoSession)}
    BY <1>1, <1>3, <1>8, AnswerOf
  <2>2. Reply(TRUE, NoSession) \in [ok : BOOLEAN, session : Sessions \cup {NoSession}]
    BY DEF Reply
  <2> QED BY <1>1, <1>2, <1>5, <1>8, <2>1, <2>2, ServeKeeps
<1> QED BY <1>4, <1>6, <1>7, <1>8

\* A movie of a new collection is sent.
LEMMA SendMovieKeeps ==
  ASSUME SessionOK, LoopOK, SendMovie
  PROVE  SessionOK'
<1>1. pc = "request" /\ pc' = "receive" /\ UNCHANGED <<session, access, lost, command>>
      /\ command = "add_collection"
      /\ (Answer(TheRequest, reply') \/ (reply' = Refusal /\ UNCHANGED server))
  BY DEF SendMovie, history
<1>2. Busy /\ ~Replied
  BY <1>1 DEF Busy, Replied
<1>3. command \in Commands /\ command \notin Logins \cup Logouts \cup {"get_access"}
  BY <1>1, <1>2 DEF LoopOK, Logins, Logouts
<1>4. UNCHANGED server /\ reply' \in {Refusal, Reply(TRUE, NoSession)}
  BY <1>1, <1>3, AnswerOf
<1>5. {Refusal, Reply(TRUE, NoSession)} \subseteq [ok : BOOLEAN, session : Sessions \cup {NoSession}]
  BY DEF Refusal, Reply
<1> QED BY <1>1, <1>2, <1>3, <1>4, <1>5, ServeKeeps

\* A cookie is kept: it becomes the client's one session.
LEMMA CookieKept ==
  ASSUME SessionOK, pc = "handle", command \in Logins, KeepCookie, UNCHANGED access,
         LostIf(reply.session, size < 3), UNCHANGED server, reply' = Refusal, pc' = "prompt",
         size \in Nat
  PROVE  SessionOK'
<1>1. Busy /\ Replied /\ ~Busy' /\ ~Replied'
  BY DEF Busy, Replied
<1>2. cookies_exist = FALSE /\ acces_token_exist = FALSE
  BY <1>1, Zenon DEF SessionOK, SessionTypes, PendingInv, TokenInv
<1>3. UNCHANGED <<live, issued, expired, anonymous, acces_token, acces_token_exist, token_mem>>
  BY DEF server, access
<1>4. reply.session \in Sessions \cup {NoSession}
  BY DEF SessionOK, SessionTypes
<1>5. lost \subseteq lost' /\ lost' \subseteq Sessions
      /\ (size < 3 /\ reply.session # NoSession => reply.session \in lost')
  BY <1>4 DEF LostIf, SessionOK, SessionTypes
<1>6. Refusal \in [ok : BOOLEAN, session : Sessions \cup {NoSession}]
  BY DEF Refusal, Reply
<1>7. CASE HasCookie
  <2>1. cookies' = (IF size >= 3 THEN reply.session ELSE Cut) /\ cookies_exist' = TRUE
        /\ cookie_mem' = "live"
    BY <1>7 DEF KeepCookie
  <2>2. reply.session \in DOMAIN live \cup expired \cup anonymous
    BY <1>1, <1>7, Zenon DEF SessionOK, PendingInv, HasCookie
  <2>3. cookies' \in Sessions \cup {NoSession, Cut}
    BY <1>4, <2>1
  <2>4. SessionTypes'
    BY <1>3, <1>5, <1>6, <2>1, <2>3 DEF SessionOK, SessionTypes
  <2>5. FlagsMatchMemory'
    BY <1>3, <2>1 DEF SessionOK, FlagsMatchMemory
  <2>6. TokenInv'
    BY <1>2, <1>3, Zenon DEF TokenInv
  <2>7. PendingInv'
    BY <1>1, Zenon DEF PendingInv
  <2>8. \A n \in DOMAIN live : n \in lost \/ n = reply.session
    BY <1>1, <1>2, Zenon DEF SessionOK, AgreeInv, Busy
  <2>9. cookies' # Cut => cookies' = reply.session
    BY <2>1
  <2>10. \A n \in DOMAIN live' : n \in lost' \/ cookies' = n
    BY <1>3, <1>5, <1>7, <2>1, <2>8 DEF HasCookie
  <2>11. AgreeInv'
    BY <1>3, <2>1, <2>2, <2>9, <2>10, Zenon DEF AgreeInv
  <2> QED BY <2>4, <2>5, <2>6, <2>7, <2>11 DEF SessionOK
<1>8. CASE ~HasCookie
  <2>1. UNCHANGED <<cookies, cookies_exist, cookie_mem>>
    BY <1>8 DEF KeepCookie, session
  <2>2. SessionTypes'
    BY <1>3, <1>5, <1>6, <2>1 DEF SessionOK, SessionTypes
  <2>3. FlagsMatchMemory'
    BY <1>3, <2>1 DEF SessionOK, FlagsMatchMemory
  <2>4. TokenInv'
    BY <1>2, <1>3, Zenon DEF TokenInv
  <2>5. PendingInv'
    BY <1>1, Zenon DEF PendingInv
  <2>6. \A n \in DOMAIN live : n \in lost \/ n = reply.session
    BY <1>1, <1>2, Zenon DEF SessionOK, AgreeInv, Busy
  <2>7. NoSession \notin Sessions /\ DOMAIN live \subseteq Sessions
    BY ServerAssumption DEF NoSession, Sessions, SessionOK, SessionTypes
  <2>8. \A n \in DOMAIN live : n \in lost'
    BY <1>5, <1>8, <2>6, <2>7 DEF HasCookie
  <2>9. AgreeInv'
    BY <1>2, <1>3, <2>1, <2>8, Zenon DEF AgreeInv
  <2> QED BY <2>2, <2>3, <2>4, <2>5, <2>9 DEF SessionOK
<1> QED BY <1>7, <1>8

\* A user's login is refused or cut before it can be told: no cookie is kept.
LEMMA LoginRefused ==
  ASSUME SessionOK, pc = "handle", command \in Logins, ~SaysOk, UNCHANGED <<session, access>>,
         LostIf(reply.session, size < 3), UNCHANGED server, reply' = Refusal, pc' = "prompt",
         size \in Nat
  PROVE  SessionOK'
<1>1. Busy /\ Replied /\ ~Busy' /\ ~Replied'
  BY DEF Busy, Replied
<1>2. cookies_exist = FALSE /\ acces_token_exist = FALSE
  BY <1>1, Zenon DEF SessionOK, SessionTypes, PendingInv, TokenInv
<1>3. UNCHANGED <<live, issued, expired, anonymous, cookies, cookies_exist, cookie_mem,
                  acces_token, acces_token_exist, token_mem>>
  BY DEF server, session, access
<1>4. reply.session \in Sessions \cup {NoSession}
  BY DEF SessionOK, SessionTypes
<1>5. lost \subseteq lost' /\ lost' \subseteq Sessions
      /\ (size < 3 /\ reply.session # NoSession => reply.session \in lost')
  BY <1>4 DEF LostIf, SessionOK, SessionTypes
<1>6. Refusal \in [ok : BOOLEAN, session : Sessions \cup {NoSession}]
  BY DEF Refusal, Reply
<1>7. SessionTypes'
  BY <1>3, <1>5, <1>6 DEF SessionOK, SessionTypes
<1>8. FlagsMatchMemory' /\ TokenInv' /\ PendingInv'
  BY <1>1, <1>2, <1>3, Zenon DEF SessionOK, FlagsMatchMemory, TokenInv, PendingInv
<1>9. \A n \in DOMAIN live : n \in lost \/ (reply.ok /\ n = reply.session)
  BY <1>1, <1>2, Zenon DEF SessionOK, AgreeInv, Busy
<1>10. NoSession \notin Sessions /\ DOMAIN live \subseteq Sessions
  BY ServerAssumption DEF NoSession, Sessions, SessionOK, SessionTypes
<1>11. \A n \in DOMAIN live : n \in lost'
  BY <1>5, <1>9, <1>10 DEF SaysOk
<1>12. AgreeInv'
  BY <1>2, <1>3, <1>11, Zenon DEF AgreeInv
<1> QED BY <1>7, <1>8, <1>12 DEF SessionOK

\* A logout is handled: the block of the cookie was live, and the user's token goes
\* with it; an administrator has none.
LEMMA LoggedOutKeeps ==
  ASSUME SessionOK, size \in Nat, LoggedOutAdmin \/ LoggedOutUser
  PROVE  SessionOK'
<1>1. /\ pc = "handle" /\ command \in Logouts /\ pc' = "prompt" /\ reply' = Refusal
      /\ UNCHANGED <<server, cookies, acces_token>>
      /\ LostIf(Own.cookie, reply.ok /\ size < 1)
      /\ IF SaysOk THEN cookies_exist' = FALSE /\ cookie_mem' = AfterFree(cookie_mem)
                   ELSE UNCHANGED <<cookies_exist, cookie_mem>>
  BY DEF LoggedOutAdmin, LoggedOutUser, LoggedOut, Handle, Done, Finish, Logouts, access
<1>2. \/ command = "logout_admin" /\ UNCHANGED <<acces_token_exist, token_mem>>
      \/ IF SaysOk
         THEN /\ token_mem' = IF acces_token_exist THEN AfterFree(token_mem) ELSE token_mem
              /\ acces_token_exist' = FALSE
         ELSE UNCHANGED <<acces_token_exist, token_mem>>
  BY DEF LoggedOutAdmin, LoggedOutUser, LoggedOut, Handle, access
<1>3. Busy /\ Replied /\ ~Busy' /\ ~Replied' /\ command \notin Logins
  BY <1>1 DEF Busy, Replied, Logins, Logouts
<1>4. UNCHANGED <<live, issued, expired, anonymous>>
  BY <1>1 DEF server
<1>5. cookies_exist \in BOOLEAN /\ acces_token_exist \in BOOLEAN /\ DOMAIN live \subseteq Sessions
      /\ reply.ok \in BOOLEAN
  BY DEF SessionOK, SessionTypes
<1>6. NoSession \notin Sessions /\ Cut \notin Sessions
  BY ServerAssumption DEF NoSession, Cut, Sessions
<1>7. reply.ok => /\ cookies_exist /\ cookies \in Sessions /\ cookies \notin DOMAIN live
                  /\ Own.cookie = cookies
                  /\ (command = "logout_admin" => ~acces_token_exist)
  <2>1. reply.ok => /\ cookies_exist /\ cookies \in Sessions /\ cookies \notin DOMAIN live
                    /\ (command = "logout_admin" => ~acces_token_exist)
    BY <1>1, <1>3, Zenon DEF SessionOK, PendingInv
  <2> QED BY <1>5, <2>1, OwnCookie
<1>8. lost \subseteq lost' /\ lost' \subseteq Sessions
      /\ (reply.ok /\ size < 1 => cookies \in lost')
  <2>1. Own.cookie \in Sessions \cup {NoSession} \/ ~reply.ok
    BY <1>7
  <2> QED BY <1>1, <1>6, <1>7, <2>1 DEF LostIf, SessionOK, SessionTypes
<1>9. Refusal \in [ok : BOOLEAN, session : Sessions \cup {NoSession}]
  BY DEF Refusal, Reply
<1>10. CASE SaysOk
  <2>1. reply.ok
    BY <1>10 DEF SaysOk
  <2>2. cookies_exist' = FALSE /\ acces_token_exist' = FALSE
    BY <1>1, <1>2, <1>5, <1>7, <1>10, <2>1
  <2>3. cookie_mem' = "freed"
    BY <1>1, <1>7, <1>10, <2>1, Zenon DEF AfterFree, SessionOK, FlagsMatchMemory
  <2>4. token_mem' \in {"unset", "freed"}
    <3>1. acces_token_exist => token_mem = "live"
      BY Zenon DEF SessionOK, FlagsMatchMemory
    <3>2. ~acces_token_exist => token_mem \in {"unset", "freed"}
      BY DEF SessionOK, FlagsMatchMemory, SessionTypes
    <3>3. token_mem' = token_mem \/ token_mem' = AfterFree(token_mem)
      BY <1>2, <1>10
    <3>4. acces_token_exist => token_mem' = AfterFree(token_mem)
      BY <1>2, <1>7, <1>10, <2>1, Zenon
    <3>5. ~acces_token_exist => token_mem' = token_mem
      BY <1>2, <1>10, Zenon
    <3>6. AfterFree("live") = "freed"
      BY DEF AfterFree
    <3> QED BY <3>1, <3>2, <3>4, <3>5, <3>6
  <2>5. SessionTypes'
    BY <1>1, <1>4, <1>8, <1>9, <2>2, <2>3, <2>4 DEF SessionOK, SessionTypes
  <2>6. FlagsMatchMemory'
    BY <2>2, <2>3, <2>4 DEF FlagsMatchMemory
  <2>7. TokenInv' /\ PendingInv'
    BY <1>3, <2>2, Zenon DEF TokenInv, PendingInv
  <2>8. \A n \in DOMAIN live : n \in lost
    <3>1. \A n \in DOMAIN live : n \in lost \/ cookies = n
      BY <1>3, Zenon DEF SessionOK, AgreeInv, Busy
    <3> QED BY <1>7, <2>1, <3>1
  <2>9. AgreeInv'
    BY <1>4, <1>8, <2>2, <2>8 DEF AgreeInv
  <2> QED BY <2>5, <2>6, <2>7, <2>9 DEF SessionOK
<1>11. CASE ~SaysOk
  <2>1. UNCHANGED <<cookies, cookies_exist, cookie_mem, acces_token, acces_token_exist, token_mem>>
    BY <1>1, <1>2, <1>11
  <2>2. SessionTypes'
    BY <1>4, <1>8, <1>9, <1>1, <2>1 DEF SessionOK, SessionTypes
  <2>3. FlagsMatchMemory'
    BY <2>1 DEF SessionOK, FlagsMatchMemory
  <2>4. TokenInv' /\ PendingInv'
    BY <1>3, <1>4, <2>1, Zenon DEF SessionOK, TokenInv, PendingInv, UsersSession
  <2>5. ~reply.ok \/ size < 1
    BY <1>11 DEF SaysOk
  <2>6. (cookies_exist /\ cookies # Cut) => cookies \in DOMAIN live \cup expired \cup anonymous \cup lost'
    <3>1. (cookies_exist /\ cookies # Cut) =>
             cookies \in DOMAIN live \cup expired \cup anonymous \cup lost \/ reply.ok
      BY <1>3, Zenon DEF SessionOK, AgreeInv, Busy
    <3> QED BY <1>8, <2>5, <3>1
  <2>7. \A n \in DOMAIN live : n \in lost' \/ (cookies_exist /\ cookies = n)
    <3>1. \A n \in DOMAIN live : n \in lost \/ (cookies_exist /\ cookies = n)
      BY <1>3, Zenon DEF SessionOK, AgreeInv, Busy
    <3> QED BY <1>8, <3>1
  <2>8. AgreeInv'
    BY <1>4, <2>1, <2>6, <2>7, Zenon DEF AgreeInv
  <2> QED BY <2>2, <2>3, <2>4, <2>8 DEF SessionOK
<1> QED BY <1>10, <1>11

\* A token is kept: it is of the session of the cookie.
LEMMA AccessKeeps ==
  ASSUME SessionOK, Access
  PROVE  SessionOK'
<1>1. pc = "handle" /\ command = "get_access" /\ pc' = "prompt" /\ reply' = Refusal
      /\ UNCHANGED <<server, session, lost>>
      /\ (IF SaysOk
          THEN acces_token' = reply.session /\ acces_token_exist' = TRUE /\ token_mem' = "live"
          ELSE UNCHANGED access)
  BY DEF Access, Handle, Done, Finish
<1>2. Busy /\ Replied /\ ~Busy' /\ ~Replied' /\ command \notin Logins \cup Logouts
  BY <1>1 DEF Busy, Replied, Logins, Logouts
<1>3. CASE ~SaysOk
  <2>1. Held
    BY <1>1, <1>3 DEF Held
  <2> QED BY <1>1, <1>2, <2>1, HeldOver DEF Busy
<1>4. CASE SaysOk
  <2>1. UNCHANGED <<live, issued, expired, anonymous, lost, cookies, cookies_exist, cookie_mem>>
    BY <1>1 DEF server, session
  <2>2. cookies_exist /\ reply.session = cookies /\ UsersSession(cookies)
    BY <1>1, <1>2, <1>4, Zenon DEF SessionOK, PendingInv, SaysOk
  <2>3. acces_token' = cookies /\ acces_token_exist' = TRUE /\ token_mem' = "live"
    BY <1>1, <1>4, <2>2
  <2>4. cookies \in Sessions \cup {NoSession}
    BY <2>2 DEF SessionOK, SessionTypes
  <2>5. Refusal \in [ok : BOOLEAN, session : Sessions \cup {NoSession}]
    BY DEF Refusal, Reply
  <2>6. SessionTypes'
    BY <1>1, <2>1, <2>3, <2>4, <2>5 DEF SessionOK, SessionTypes
  <2>7. FlagsMatchMemory'
    BY <2>1, <2>3 DEF SessionOK, FlagsMatchMemory
  <2>8. TokenInv'
    BY <2>1, <2>2, <2>3, Zenon DEF TokenInv, UsersSession
  <2>9. PendingInv'
    BY <1>2, Zenon DEF PendingInv
  <2>10. AgreeInv'
    BY <1>2, <2>1, Zenon DEF SessionOK, AgreeInv, Busy
  <2> QED BY <2>6, <2>7, <2>8, <2>9, <2>10 DEF SessionOK
<1> QED BY <1>3, <1>4

\* The actions that have nothing to do with the session.
LEMMA OtherKeeps ==
  ASSUME SessionOK, LoopOK,
         \/ login_admin \/ login \/ OtherCommand \/ RefuseLogin \/ ValidInput \/ InvalidInput
         \/ NegativeCount \/ InvalidMovieId \/ NetworkError \/ Receive \/ AccessCrashes \/ Printed
         \/ PrintedAndLeft \/ CollectionRefused \/ NextMovie \/ CollectionAdded
  PROVE  SessionOK'
<1>1. CASE login_admin \/ login \/ OtherCommand
  <2>1. PICK c : Typing(c)
    BY <1>1, TypedIsOpen DEF LoopOK
  <2>2. pc = "prompt" /\ pc' \in {"input", "request"} /\ Held /\ reply' = reply /\ command' = c
        /\ (c \in Logins => ~cookies_exist)
    BY <2>1 DEF Typing, Open, Held
  <2>3. ~Replied /\ ~Replied' /\ pc # "ended"
    BY <2>2 DEF Replied
  <2> QED BY <2>2, <2>3, HeldOver
<1>2. CASE RefuseLogin \/ ValidInput \/ Receive
  <2>1. Held /\ UNCHANGED <<reply, command>> /\ pc # "ended"
        /\ (pc' = pc \/ (pc = "input" /\ pc' = "request") \/ (pc = "receive" /\ pc' = "handle"))
    BY <1>2 DEF RefuseLogin, ValidInput, Receive, Held, history
  <2>2. (Replied' <=> Replied) /\ (Busy' => Busy)
    BY <2>1 DEF Replied, Busy
  <2> QED BY <2>1, <2>2, HeldOn
<1>3. CASE NegativeCount \/ InvalidMovieId \/ NetworkError \/ AccessCrashes
  <2>1. Held /\ UNCHANGED reply /\ pc' = "ended"
    BY <1>3 DEF NegativeCount, InvalidMovieId, NetworkError, AccessCrashes, Held, history
  <2> QED BY <2>1, HeldEnd
<1>4. CASE NextMovie
  <2>1. Held /\ reply' = reply /\ pc = "handle" /\ pc' = "request" /\ command = "add_collection"
        /\ command' = command
    BY <1>4 DEF NextMovie, Handle, Held, history
  <2>2. ~Replied' /\ command \notin Logins \cup Logouts /\ command' \notin Logins
    BY <2>1 DEF Replied, Logins, Logouts
  <2> QED BY <2>1, <2>2, HeldOver
<1>5. CASE InvalidInput \/ Printed \/ PrintedAndLeft \/ CollectionRefused \/ CollectionAdded
  <2>1. PICK result : Finish(result)
    BY <1>5 DEF InvalidInput, Printed, PrintedAndLeft, CollectionRefused, CollectionAdded, Done
  <2>2. UNCHANGED <<session, access, lost>>
    BY <1>5 DEF InvalidInput, Printed, PrintedAndLeft, CollectionRefused, CollectionAdded
  <2>3. Held /\ reply' = Refusal /\ pc' = "prompt"
    BY <2>1, <2>2 DEF Finish, Held
  <2>4. \/ pc = "input"
        \/ /\ pc = "handle"
           /\ command \in AdminCommands
                            \cup (LibraryCommands \ (CollectionChanges \cup {"add_collection"}))
                            \cup CollectionChanges \cup {"add_collection"}
    BY <1>5, Zenon DEF InvalidInput, Printed, PrintedAndLeft, CollectionRefused, CollectionAdded,
       Handle
  <2>5. Replied => command \notin Logins \cup Logouts
    BY <2>4 DEF Replied, Logins, Logouts, AdminCommands, LibraryCommands, MovieCommands,
       MovieChanges, CollectionCommands, CollectionChanges
  <2>6. pc # "ended" /\ ~Replied' /\ ~Busy'
    BY <2>3, <2>4 DEF Replied, Busy
  <2> QED BY <2>3, <2>5, <2>6, HeldOver
<1> QED BY <1>1, <1>2, <1>3, <1>4, <1>5

LEMMA LoggedInKeeps ==
  ASSUME SessionOK, size \in Nat, LoggedInAdmin \/ LoggedInUser
  PROVE  SessionOK'
<1>1. pc = "handle" /\ command \in Logins /\ pc' = "prompt" /\ reply' = Refusal
      /\ UNCHANGED server /\ UNCHANGED access /\ LostIf(reply.session, size < 3)
  BY DEF LoggedInAdmin, LoggedInUser, Handle, Done, Finish, Logins
<1>2. KeepCookie \/ (~SaysOk /\ UNCHANGED session)
  BY DEF LoggedInAdmin, LoggedInUser
<1>3. CASE KeepCookie
  BY <1>1, <1>3, CookieKept
<1>4. CASE ~SaysOk /\ UNCHANGED session
  BY <1>1, <1>4, LoginRefused
<1> QED BY <1>2, <1>3, <1>4

LEMMA SessionNext ==
  ReceiveOK /\ LoopOK /\ SessionOK /\ [Next]_vars => SessionOK'
<1> SUFFICES ASSUME ReceiveOK, LoopOK, SessionOK, [Next]_vars PROVE SessionOK'
  OBVIOUS
<1>1. CASE UNCHANGED vars
  <2>1. Held /\ UNCHANGED <<reply, command, pc>>
    BY <1>1 DEF vars, Held, history
  <2>2. (Replied' <=> Replied) /\ (Busy' => Busy)
    BY <2>1 DEF Replied, Busy
  <2> QED BY <2>1, <2>2, HeldOn
<1>2. CASE LoggedInAdmin \/ LoggedInUser \/ LoggedOutAdmin \/ LoggedOutUser
  <2>1. size \in Nat
    BY DEF ReceiveOK
  <2> QED BY <1>2, <2>1, LoggedInKeeps, LoggedOutKeeps
<1>3. CASE SendCommand \/ SendMovie \/ SessionEnds \/ exit \/ Access
  BY <1>3, SendKeeps, SendMovieKeeps, ExpireKeeps, ExitKeeps, AccessKeeps
<1>4. CASE \/ login_admin \/ login \/ OtherCommand \/ RefuseLogin \/ ValidInput \/ InvalidInput
           \/ NegativeCount \/ InvalidMovieId \/ NetworkError \/ Receive \/ AccessCrashes \/ Printed
           \/ PrintedAndLeft \/ CollectionRefused \/ NextMovie \/ CollectionAdded
  BY <1>4, OtherKeeps
<1> QED BY <1>1, <1>2, <1>3, <1>4, Zenon DEF Next, Typed, Handled

LEMMA SessionStarts ==
  Init => SessionOK
<1> SUFFICES ASSUME Init PROVE SessionOK
  OBVIOUS
<1>1. live = [n \in {} |-> Admin] /\ issued = 0 /\ expired = {} /\ anonymous = {} /\ lost = {}
      /\ cookies_exist = FALSE /\ acces_token_exist = FALSE /\ pc = "prompt" /\ reply = Refusal
      /\ cookie_mem = "unset" /\ token_mem = "unset" /\ cookies = NoSession
      /\ acces_token = NoSession
  BY DEF Init, ServerInit
<1>2. DOMAIN live = {} /\ live \in [DOMAIN live -> Users \cup {Admin}]
  BY <1>1
<1>3. Refusal \in [ok : BOOLEAN, session : Sessions \cup {NoSession}]
  BY DEF Refusal, Reply
<1>4. SessionTypes
  <2>1. cookies_exist \in BOOLEAN /\ acces_token_exist \in BOOLEAN
    BY <1>1, Zenon
  <2>2. issued \in 0 .. MaxSessions /\ expired \cup anonymous \cup lost \subseteq Sessions
    BY <1>1, ServerAssumption
  <2>3. {cookie_mem, token_mem} \subseteq {"unset", "live", "freed", "twice"}
    BY <1>1
  <2> QED BY <1>1, <1>2, <1>3, <2>1, <2>2, <2>3, Zenon DEF SessionTypes
<1>5. FlagsMatchMemory
  BY <1>1 DEF FlagsMatchMemory
<1>6. ~Busy /\ ~Replied
  BY <1>1 DEF Busy, Replied
<1>7. TokenInv /\ PendingInv
  BY <1>1, <1>6, Zenon DEF TokenInv, PendingInv
<1>8. AgreeInv
  BY <1>1, <1>2 DEF AgreeInv
<1> QED BY <1>4, <1>5, <1>7, <1>8 DEF SessionOK

LEMMA SpecIInv == Spec => []IInv
<1>1. Init => IInv
  BY ReceiveStarts, LoopStarts, MoviesStart, SessionStarts, Zenon DEF IInv
<1>2. IInv /\ [Next]_vars => IInv'
  BY ReceiveNext, LoopNext, MoviesNext, SessionNext, Zenon DEF IInv
<1> QED BY <1>1, <1>2, PTL DEF Spec

\* Every variable keeps its type, and every counter its bound.
THEOREM TypeCorrect == Spec => []TypeOK
<1>1. IInv => TypeOK
  <2> SUFFICES ASSUME IInv PROVE TypeOK
    OBVIOUS
  <2>1. pc \in {"prompt", "input", "request", "receive", "handle", "ended"}
        /\ command \in Commands \cup {"none", "exit"} /\ account \in Users \cup {Admin}
    BY DEF IInv, LoopOK, Busy
  <2>2. connections \in 0 .. MaxCommands /\ leaks \in 0 .. MaxCommands
        /\ commands \in 0 .. MaxCommands
    BY ClientAssumption DEF IInv, LoopOK
  <2>3. num_movies \in -1 .. MaxMovies /\ cnt \in 0 .. MaxMovies /\ i \in 0 .. MaxMovies
    BY ClientAssumption DEF IInv, MoviesOK
  <2>4. added \subseteq 1 .. MaxMovies
    BY ClientAssumption DEF IInv, MoviesOK
  <2>5. said \in {"none", "success", "added", "error"}
    BY DEF IInv, MoviesOK
  <2>6. size \in 0 .. Whole /\ header_end \in {-1, 0, HeaderEnd}
    BY DEF IInv, ReceiveOK, Whole
  <2> QED BY <2>1, <2>2, <2>3, <2>4, <2>5, <2>6, Zenon DEF IInv, SessionOK, SessionTypes, TypeOK
<1> QED BY <1>1, SpecIInv, PTL

\* The flags say which blocks are live: no order of logins and logouts frees one
\* twice or uses one that is gone (client.c 54-64, 96-100, 243-252, 285-288, 556-561).
THEOREM MemorySafe == Spec => []FlagsMatchMemory
<1>1. IInv => FlagsMatchMemory
  BY Zenon DEF IInv, SessionOK
<1> QED BY <1>1, SpecIInv, PTL

\* A token is only ever sent with the cookie of its own session
\* (client.c 89-107, 273-303, 549-569).
THEOREM TokenNeverOutlives == Spec => []TokenOfSession
<1>1. IInv => TokenOfSession
  <2> SUFFICES ASSUME IInv PROVE TokenOfSession
    OBVIOUS
  <2>1. cookies_exist \in BOOLEAN /\ acces_token_exist \in BOOLEAN
    BY DEF IInv, SessionOK, SessionTypes
  <2>2. acces_token_exist => cookies_exist /\ acces_token = cookies
    BY Zenon DEF IInv, SessionOK, TokenInv
  <2> QED BY <2>1, <2>2, OwnCookie DEF TokenOfSession
<1> QED BY <1>1, SpecIInv, PTL

\* At the prompt the client and the server agree on the client's session, unless the
\* server closed it, named one in a refusal, or a reply was cut (client.c 32-107,
\* 212-272, 549-569).
THEOREM SessionsAgree == Spec => []AgreeUnlessLost
<1>1. IInv => AgreeUnlessLost
  <2> SUFFICES ASSUME IInv, pc = "prompt"
               PROVE  /\ (cookies_exist /\ cookies # Cut) =>
                           cookies \in DOMAIN live \cup expired \cup anonymous \cup lost
                      /\ \A n \in DOMAIN live : n \in lost \/ (cookies_exist /\ cookies = n)
    BY Zenon DEF AgreeUnlessLost
  <2>1. ~Replied /\ pc # "ended"
    BY DEF Replied
  <2> QED BY <2>1, Zenon DEF IInv, SessionOK, AgreeInv
<1> QED BY <1>1, SpecIInv, PTL
=============================================================================

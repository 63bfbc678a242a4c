----------------------------- MODULE HttpClient -----------------------------
(***************************************************************************)
(* The command loop of Tema_3/client.c: what a session is to the client    *)
(* (cookies, acces_token and their flags), its connections, and the        *)
(* commands.  A command opens a connection, may ask for more input, sends  *)
(* a request, receives the reply as HttpReceive does and handles it.  The  *)
(* server is HttpServer.                                                   *)
(***************************************************************************)
EXTENDS HttpServer, HttpReceive

CONSTANTS
  MaxCommands,   \* bound: commands typed that reach the server
  MaxMovies      \* bound: movies of a new collection

ASSUME ClientAssumption == MaxCommands \in Nat /\ MaxMovies \in Nat

\* Commands that differ only in their data, by the privilege they need.
AdminCommands == {"add_user", "get_users", "delete_user"}
MovieCommands == {"get_movies", "add_movie", "get_movie"}
MovieChanges == {"delete_movie", "update_movie"}
CollectionCommands == {"get_collections", "get_collection"}
\* These two neither close their connection nor continue.
CollectionChanges == {"add_movie_to_collection", "delete_movie_from_collection"}
LibraryCommands ==
  MovieCommands \cup MovieChanges \cup CollectionCommands \cup CollectionChanges
    \cup {"delete_collection", "add_collection"}
SessionCommands == {"login_admin", "login", "logout_admin", "logout", "get_access"}
Commands == AdminCommands \cup LibraryCommands \cup SessionCommands

\* Commands that look at their input after they have opened the connection.
Checked == {"add_movie", "update_movie", "add_collection"}

VARIABLES
  pc,            \* "prompt", "input", "request", "receive", "handle" or "ended"
  command,
  account,       \* the user name typed at a login
  cookies, cookies_exist, acces_token, acces_token_exist,
  cookie_mem, token_mem,     \* the blocks behind the pointers
  connections,   \* the number of descriptors open
  reply,         \* what the server answers
  num_movies, cnt, i,
  added,         \* the movies the server has put into the new collection
  said,          \* what the last command printed: "success", "error", "added" for a
                 \* new collection with its movies, or "none"
  commands,      \* the number of commands typed
  leaks,         \* how often a command left its connection open
  lost           \* sessions whose login or logout reply was cut short

session == <<cookies, cookies_exist, cookie_mem>>
access == <<acces_token, acces_token_exist, token_mem>>
adding == <<num_movies, cnt, i, added>>
history == <<commands, leaks, lost>>
vars == <<pc, command, account, session, access, connections, reply, adding, said, history,
          server, receiving>>

Init ==
  /\ ServerInit /\ ReceiveInit
  /\ pc = "prompt" /\ command = "none" /\ account = Admin
  /\ cookies = NoSession /\ cookies_exist = FALSE /\ cookie_mem = "unset"
  /\ acces_token = NoSession /\ acces_token_exist = FALSE /\ token_mem = "unset"
  /\ connections = 0 /\ reply = Refusal
  /\ num_movies = 0 /\ cnt = 0 /\ i = 0 /\ added = {}
  /\ said = "none" /\ commands = 0 /\ leaks = 0 /\ lost = {}

\* The end of a command: its result is printed and what is local to it is gone; Done
\* closes its connection too.
Finish(result) ==
  /\ pc' = "prompt" /\ said' = result
  /\ command' = "none" /\ account' = Admin /\ reply' = Refusal
  /\ reading' = "no" /\ size' = 0 /\ header_end' = 0 /\ content_length' = 0
  /\ naming' = Unnamed /\ closed' = FALSE
  /\ UNCHANGED <<adding, commands, server>>

Done(result) ==
  /\ Finish(result) /\ connections' = connections - 1
  /\ UNCHANGED leaks

-----------------------------------------------------------------------------
(* The command is typed. *)

Open(c) ==
  /\ pc = "prompt" /\ commands < MaxCommands
  /\ command' = c /\ commands' = commands + 1
  /\ connections' = connections + 1
  /\ pc' = IF c \in Checked THEN "input" ELSE "request"
  /\ num_movies' = 0 /\ cnt' = 0 /\ i' = 0 /\ added' = {} /\ said' = "none"
  /\ UNCHANGED <<session, access, reply, leaks, lost, server, receiving>>

\* Mutant: a second login is not refused.
LoginAgain(c, who) == Open(c) /\ account' = who

LoginAs(c, who) == ~cookies_exist /\ Open(c) /\ account' = who

login_admin == LoginAs("login_admin", Admin)
login == \E who \in Users : LoginAs("login", who)

RefuseLogin ==
  /\ pc = "prompt" /\ cookies_exist
  /\ said' = "error"
  /\ UNCHANGED <<pc, command, account, session, access, connections, reply, adding, history, server,
                 receiving>>

OtherCommand ==
  /\ \E c \in Commands \ {"login_admin", "login"} : Open(c)
  /\ UNCHANGED account

\* What has been typed is a number where one is needed; of movies it may be negative,
\* for which -1 stands.
ValidInput ==
  /\ pc = "input"
  /\ pc' = "request"
  /\ IF command = "add_collection"
     THEN num_movies' \in -1 .. MaxMovies /\ UNCHANGED <<cnt, i, added>>
     ELSE UNCHANGED adding
  /\ UNCHANGED <<command, account, session, access, connections, reply, said, history,
                 server, receiving>>

\* Mutant: the early continue leaves the connection open.
InvalidInputLeaks ==
  /\ pc = "input"
  /\ Finish("error")
  /\ UNCHANGED <<session, access, connections, lost, leaks>>

InvalidInput ==
  /\ pc = "input"
  /\ Done("error")
  /\ UNCHANGED <<session, access, lost>>

\* An array of a negative size is undefined.  As the Makefile builds it, one of -1 to -3
\* leaves the stack as it is (ValidInput), and a smaller one moves it over main's own
\* variables, which ends the program.
NegativeCount ==
  /\ pc = "input" /\ command = "add_collection"
  /\ pc' = "ended"
  /\ UNCHANGED <<command, account, session, access, connections, reply, adding, said, history,
                 server, receiving>>

\* The continue for an invalid movie id belongs to the inner loop: the request is
\* written to the descriptor that was closed, and error() ends the program; or the
\* second such id frees name twice, and the library does.
InvalidMovieId ==
  /\ pc = "input" /\ command = "add_collection"
  /\ pc' = "ended" /\ connections' = connections - 1 /\ said' = "error"
  /\ UNCHANGED <<command, account, session, access, reply, adding, history, server,
                 receiving>>

\* free: a block that is not live is freed a second time.
AfterFree(mem) == IF mem = "live" THEN "freed" ELSE "twice"

\* The flags decide what is freed.  The close of the last descriptor is left out: the
\* end of the process closes all that are open.
exit ==
  /\ pc = "prompt"
  /\ pc' = "ended" /\ command' = "exit"
  /\ cookies_exist' = FALSE
  /\ cookie_mem' = IF cookies_exist THEN AfterFree(cookie_mem) ELSE cookie_mem
  /\ acces_token_exist' = FALSE
  /\ token_mem' = IF acces_token_exist THEN AfterFree(token_mem) ELSE token_mem
  /\ UNCHANGED <<account, cookies, acces_token, connections, reply, adding, said, history,
                 server, receiving>>

\* connect, write or read fails: error() exits.
NetworkError ==
  /\ pc \in {"prompt", "request", "receive"}
  /\ pc' = "ended"
  /\ UNCHANGED <<command, account, session, access, connections, reply, adding, said,
                 history, server, receiving>>

-----------------------------------------------------------------------------
(* The request, and the server's answer to it. *)

Own == Headers(cookies, IF cookies_exist THEN 1 ELSE 0, acces_token, acces_token_exist)

\* The calls of main, by command; what follows a URL is an id the user typed.
TheRequest ==
  LET get(url, query) == compute_get_request(url, query, Own)
      delete(url, query) == compute_delete_request(url, query, Own)
      post(url, body) == compute_post_request(url, body, Own)
  IN  CASE command = "login_admin" -> post("admin/login", account)
        [] command = "login" -> post("user/login", account)
        [] command = "logout_admin" -> get("admin/logout", None)
        [] command = "logout" -> get("user/logout", None)
        [] command = "get_access" -> get("library/access", None)
        [] command = "add_user" -> post("admin/users", "user")
        [] command = "get_users" -> get("admin/users", None)
        [] command = "delete_user" -> delete("admin/users", "name")
        [] command = "get_movies" -> get("library/movies", None)
        [] command = "get_movie" -> get("library/movies", "id")
        [] command = "add_movie" -> post("library/movies", "movie")
        [] command = "delete_movie" -> delete("library/movies", "id")
        [] command = "update_movie" ->
             compute_put_request("library/movies", "id", "movie", Own)
        [] command = "get_collections" -> get("library/collections", None)
        [] command = "get_collection" -> get("library/collections", "id")
        [] command = "add_collection" -> post("library/collections", "title")
        [] command = "delete_collection" -> delete("library/collections", "id")
        [] command = "add_movie_to_collection" -> post("library/collections", "id")
        [] command = "delete_movie_from_collection" -> delete("library/collections", None)

Request ==
  /\ pc = "request" /\ pc' = "receive" /\ StartReceive
  /\ UNCHANGED <<command, account, session, access, connections, num_movies, cnt, i, said,
                 history>>

\* Everything but the movies of a new collection.
SendCommand ==
  /\ Request /\ ~(command = "add_collection" /\ i > 0)
  /\ UNCHANGED added
  /\ Answer(TheRequest, reply')

\* Movie i of the new collection, on the connection that carried the reply before.
\* A server that has closed answers nothing: read returns 0 at once.
SendMovie ==
  /\ pc = "request" /\ command = "add_collection" /\ i > 0
  /\ pc' = "receive"
  /\ IF closed \/ naming = Unnamed
     THEN /\ reply' = Refusal /\ UNCHANGED <<added, server>>
          /\ reading' = "header" /\ size' = 0 /\ header_end' = 0 /\ content_length' = 0
          /\ closed' = TRUE /\ UNCHANGED naming
     ELSE /\ StartReceive
          /\ Answer(TheRequest, reply')
          /\ added' = IF reply'.ok THEN added \cup {i} ELSE added
  /\ UNCHANGED <<command, account, session, access, connections, num_movies, cnt, i, said,
                 history>>

Receive ==
  /\ pc = "receive"
  /\ \/ Receiving /\ UNCHANGED pc
     \/ ReturnResponse /\ pc' = "handle"
  /\ UNCHANGED <<command, account, session, access, connections, reply, adding, said, history,
                 server>>

-----------------------------------------------------------------------------
(* The reply is handled.  strstr finds what has arrived. *)

Handle(c) == pc = "handle" /\ command \in c
SaysOk == reply.ok /\ size >= 1

Result == IF SaysOk THEN "success" ELSE "error"

\* Set-Cookie is there; without the ';' the rest of the buffer is the cookie.
HasCookie == reply.session # NoSession /\ size >= 2
KeepCookie ==
  IF HasCookie
  THEN /\ cookies' = IF size >= 3 THEN reply.session ELSE Cut
       /\ cookies_exist' = TRUE /\ cookie_mem' = "live"
  ELSE UNCHANGED session

\* What the login or logout of a session came to is lost with the end of the reply.
LostIf(n, cut) == lost' = IF cut /\ n # NoSession THEN lost \cup {n} ELSE lost

\* The cookie is kept whatever the status says.
LoggedInAdmin ==
  /\ Handle({"login_admin"}) /\ KeepCookie /\ LostIf(reply.session, size < 3)
  /\ Done(Result)
  /\ UNCHANGED access

LoggedInUser ==
  /\ Handle({"login"}) /\ LostIf(reply.session, size < 3)
  /\ IF SaysOk THEN KeepCookie ELSE UNCHANGED session
  /\ Done(Result)
  /\ UNCHANGED access

LoggedOut(c) ==
  /\ Handle({c}) /\ LostIf(Own.cookie, reply.ok /\ size < 1)
  /\ IF SaysOk THEN cookies_exist' = FALSE /\ cookie_mem' = AfterFree(cookie_mem)
               ELSE UNCHANGED <<cookies_exist, cookie_mem>>
  /\ Done(Result)
  /\ UNCHANGED cookies

\* Mutant: the flag stays set.
LoggedOutAdminKeepsFlag ==
  /\ Handle({"logout_admin"}) /\ LostIf(Own.cookie, reply.ok /\ size < 1)
  /\ cookie_mem' = IF SaysOk THEN AfterFree(cookie_mem) ELSE cookie_mem
  /\ Done(Result)
  /\ UNCHANGED <<cookies, cookies_exist, access>>

LoggedOutAdmin == LoggedOut("logout_admin") /\ UNCHANGED access

\* Mutant: only the cookie is given up.
LoggedOutUserKeepsToken == LoggedOut("logout") /\ UNCHANGED access

LoggedOutUser ==
  /\ LoggedOut("logout")
  /\ IF SaysOk
     THEN /\ token_mem' = IF acces_token_exist THEN AfterFree(token_mem) ELSE token_mem
          /\ acces_token_exist' = FALSE
     ELSE UNCHANGED <<acces_token_exist, token_mem>>
  /\ UNCHANGED acces_token

\* A token that is there before is leaked.
Access ==
  /\ Handle({"get_access"}) /\ (SaysOk => size = Whole)
  /\ IF SaysOk
     THEN acces_token' = reply.session /\ acces_token_exist' = TRUE /\ token_mem' = "live"
     ELSE UNCHANGED access
  /\ Done(Result)
  /\ UNCHANGED <<session, lost>>

\* The body is cut: no JSON value, no token, and strlen(NULL) ends the program.
AccessCrashes ==
  /\ Handle({"get_access"}) /\ SaysOk /\ size < Whole
  /\ pc' = "ended"
  /\ UNCHANGED <<command, account, session, access, connections, reply, adding, said, history,
                 server, receiving>>

Printed ==
  /\ Handle(AdminCommands \cup (LibraryCommands \ (CollectionChanges \cup {"add_collection"})))
  /\ Done(Result)
  /\ UNCHANGED <<session, access, lost>>

PrintedAndLeft ==
  /\ Handle(CollectionChanges)
  /\ Finish(Result) /\ leaks' = leaks + 1
  /\ UNCHANGED <<session, access, connections, lost>>

\* The collection is refused; or it was created, or movie i was answered, and the next
\* movie is sent; or there is none left.
CollectionRefused ==
  /\ Handle({"add_collection"}) /\ i = 0 /\ ~SaysOk
  /\ Done("error")
  /\ UNCHANGED <<session, access, lost>>

\* Mutant: every movie that is sent is counted.
CountSent == cnt + IF i > 0 THEN 1 ELSE 0

Count == cnt + IF i > 0 /\ SaysOk THEN 1 ELSE 0

\* Mutant: one movie more than there are.
OneMovieMore ==
  /\ Handle({"add_collection"}) /\ (i = 0 => SaysOk) /\ i <= num_movies
  /\ pc' = "request" /\ i' = i + 1 /\ cnt' = Count
  /\ UNCHANGED <<command, account, session, access, connections, reply, num_movies, added,
                 said, history, server, receiving>>

NextMovie ==
  /\ Handle({"add_collection"}) /\ (i = 0 => SaysOk) /\ i < num_movies
  /\ pc' = "request" /\ i' = i + 1 /\ cnt' = Count
  /\ UNCHANGED <<command, account, session, access, connections, reply, num_movies, added,
                 said, history, server, receiving>>

CollectionAdded ==
  /\ Handle({"add_collection"}) /\ (i = 0 => SaysOk) /\ i >= num_movies
  /\ Done(IF Count = num_movies THEN "added" ELSE "error")
  /\ UNCHANGED <<session, access, lost>>

-----------------------------------------------------------------------------
Typed ==
  \/ login_admin \/ login \/ RefuseLogin \/ OtherCommand
  \/ ValidInput \/ InvalidInput \/ NegativeCount \/ InvalidMovieId \/ exit

Handled ==
  \/ LoggedInAdmin \/ LoggedInUser \/ LoggedOutAdmin \/ LoggedOutUser
  \/ Access \/ AccessCrashes \/ Printed \/ PrintedAndLeft
  \/ CollectionRefused \/ NextMovie \/ CollectionAdded

SessionEnds ==
  /\ pc # "ended" /\ \E n \in DOMAIN live : Expire(n)
  /\ UNCHANGED <<pc, command, account, session, access, connections, reply, adding, said,
                 history, receiving>>

Next == Typed \/ NetworkError \/ SendCommand \/ SendMovie \/ Receive \/ Handled \/ SessionEnds

\* The server answers a request and the client runs; nobody has to type a command.
Spec == Init /\ [][Next]_vars /\ WF_vars(SendCommand \/ SendMovie \/ Receive \/ Handled)

-----------------------------------------------------------------------------
Sessions == 1 .. MaxSessions

TypeOK ==
  /\ DOMAIN live \subseteq Sessions /\ live \in [DOMAIN live -> Users \cup {Admin}]
  /\ issued \in 0 .. MaxSessions /\ expired \cup anonymous \cup lost \subseteq Sessions
  /\ pc \in {"prompt", "input", "request", "receive", "handle", "ended"}
  /\ command \in Commands \cup {"none", "exit"} /\ account \in Users \cup {Admin}
  /\ cookies \in Sessions \cup {NoSession, Cut} /\ acces_token \in Sessions \cup {NoSession}
  /\ cookies_exist \in BOOLEAN /\ acces_token_exist \in BOOLEAN
  /\ {cookie_mem, token_mem} \subseteq {"unset", "live", "freed", "twice"}
  /\ connections \in 0 .. MaxCommands /\ leaks \in 0 .. MaxCommands
  /\ commands \in 0 .. MaxCommands
  /\ num_movies \in -1 .. MaxMovies /\ cnt \in 0 .. MaxMovies /\ i \in 0 .. MaxMovies
  /\ added \subseteq 1 .. MaxMovies
  /\ said \in {"none", "success", "added", "error"}
  /\ reply \in [ok : BOOLEAN, session : Sessions \cup {NoSession}]
  /\ size \in 0 .. Whole /\ header_end \in {-1, 0, HeaderEnd}

\* cookies_exist and acces_token_exist say which blocks may be used and freed: no
\* command frees a block twice or leaves a flag on one that is gone, whatever the
\* order of logins and logouts (client.c 54-64, 96-100, 243-252, 285-288, 556-561).
FlagsMatchMemory ==
  /\ cookies_exist = (cookie_mem = "live") /\ cookie_mem # "twice"
  /\ acces_token_exist = (token_mem = "live") /\ token_mem # "twice"

\* No request carries the access token of another session than its cookie's: a token
\* never outlives the session it was given in, although logout_admin leaves it alone
\* (client.c 89-107, 273-303, 549-569).  It rests on HttpServer, which gives an
\* administrator no token and refuses the logout of the other kind.
TokenOfSession == Own.authorization \in {NoSession, Own.cookie}

\* Client and server disagree on a session only if the server closed it, gave its
\* cookie with a refusal, or a login's or logout's reply was cut short: no sequence
\* of commands leaves a session open that the client has no cookie for, or a cookie
\* without a session (client.c 32-107, 212-272, 549-569).
AgreeUnlessLost ==
  pc = "prompt" =>
    /\ cookies_exist /\ cookies # Cut =>
         cookies \in DOMAIN live \cup expired \cup anonymous \cup lost
    /\ \A n \in DOMAIN live : n \in lost \/ (cookies_exist /\ cookies = n)

\* Every path through a command closes the connection it opened, except the two
\* that change a collection (client.c 32-868).
OnlyTwoLeak == pc = "prompt" => connections = leaks

\* add_collection reports success only if the server has every movie, whatever was
\* cut or refused on the connection they share; never with a negative number of them
\* (client.c 707-745).
SuccessIsWhole ==
  said = "added" => num_movies \in Nat /\ added = 1 .. num_movies

\* A reply that is returned is whole unless the server closed early, with or without
\* a Content-Length and however it was split among reads (helpers.c 73-126).
WholeUnlessClosed == pc = "handle" => size = Whole \/ closed

\* A request that was sent gets the client back to its prompt, or ends it: no read
\* waits for bytes that do not come (helpers.c 80-123, client.c 32-856).
EveryCommandEnds == pc = "request" ~> pc \in {"prompt", "ended"}
=============================================================================

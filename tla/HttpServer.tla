----------------------------- MODULE HttpServer -----------------------------
(***************************************************************************)
(* The movie server, which is not in the repository: what the commands of  *)
(* Tema_3/client.c and the messages they print expect of it.  A session is *)
(* a number; its cookie and the access tokens given under it carry that    *)
(* number.                                                                 *)
(***************************************************************************)
EXTENDS Requests, Integers, FiniteSets

CONSTANTS
  Users,       \* the accounts that are not the administrator's
  MaxSessions  \* bound: cookies the server issues

Admin == "admin"

ASSUME ServerAssumption == Admin \notin Users /\ MaxSessions \in Nat

Cut == -1      \* a cookie of which only the first part arrived

VARIABLES
  live,       \* the open sessions: a function from their number to the account
  issued,     \* the last number given out
  expired,    \* the sessions the server has closed by itself
  anonymous   \* the cookies given with a refusal

server == <<live, issued, expired, anonymous>>

ServerInit == live = [n \in {} |-> Admin] /\ issued = 0 /\ expired = {} /\ anonymous = {}

IsAdmin(cookie) == cookie \in DOMAIN live /\ live[cookie] = Admin
IsUser(cookie) == cookie \in DOMAIN live /\ live[cookie] \in Users
LoggedIn(account) == \E n \in DOMAIN live : live[n] = account

\* A reply: its status is good or not, and the session its cookie or token names.
Reply(ok, session) == [ok |-> ok, session |-> session]
Refusal == Reply(FALSE, NoSession)

\* The login of an account: a new session with its cookie, or a refusal.  Nothing
\* says that a refusal carries no Set-Cookie, so it may.
Login(account, reply) ==
  \/ /\ ~LoggedIn(account) /\ issued < MaxSessions
     /\ issued' = issued + 1
     /\ live' = [n \in DOMAIN live \cup {issued'} |-> IF n = issued' THEN account ELSE live[n]]
     /\ reply = Reply(TRUE, issued')
     /\ UNCHANGED <<expired, anonymous>>
  \/ reply = Refusal /\ UNCHANGED server
  \/ /\ issued < MaxSessions /\ issued' = issued + 1
     /\ anonymous' = anonymous \cup {issued'}
     /\ reply = Reply(FALSE, issued')
     /\ UNCHANGED <<live, expired>>

Closed(n) == [m \in DOMAIN live \ {n} |-> live[m]]

\* A logout: allowed says whose session the URL is for.
Logout(cookie, allowed, reply) ==
  IF allowed
  THEN live' = Closed(cookie) /\ reply = Reply(TRUE, NoSession) /\ UNCHANGED <<issued, expired, anonymous>>
  ELSE reply = Refusal /\ UNCHANGED server

\* Any other request: refused, or served if it is allowed.
Serve(allowed, session, reply) ==
  /\ reply \in {Refusal} \cup (IF allowed THEN {Reply(TRUE, session)} ELSE {})
  /\ UNCHANGED server

\* What may be asked for: without a method that the URL has, nothing.
Resources ==
  {<<"POST", "admin/login">>, <<"POST", "user/login">>, <<"GET", "admin/logout">>,
   <<"GET", "user/logout">>, <<"GET", "library/access">>}
    \cup {"GET", "POST", "DELETE"} \X {"admin/users", "library/collections"}
    \cup {"GET", "POST", "DELETE", "PUT"} \X {"library/movies"}

MayUse(url, headers) ==
  CASE url \in {"admin/logout", "admin/users"} -> IsAdmin(headers.cookie)
    [] url \in {"user/logout", "library/access"} -> IsUser(headers.cookie)
    [] OTHER -> headers.authorization \in DOMAIN live

\* The answer to a request, by its URL.
Answer(request, reply) ==
  LET url == request.url
      allowed == <<request.method, url>> \in Resources /\ MayUse(url, request.headers)
  IN  CASE url \in {"admin/login", "user/login"} -> Login(request.body, reply)
        [] url \in {"admin/logout", "user/logout"} ->
             Logout(request.headers.cookie, allowed, reply)
        [] url = "library/access" -> Serve(allowed, request.headers.cookie, reply)
        [] OTHER -> Serve(allowed, NoSession, reply)

\* A session ends by itself, its token with it; that a token ends before its session
\* is among the refusals of Serve.
Expire(n) ==
  /\ n \in DOMAIN live
  /\ live' = Closed(n) /\ expired' = expired \cup {n}
  /\ UNCHANGED <<issued, anonymous>>
=============================================================================

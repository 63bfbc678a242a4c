------------------------------ MODULE Requests ------------------------------
(***************************************************************************)
(* Tema_3/requests.c: what the lines of a request say.  A cookie and a     *)
(* token are the number of their session.  The functions are given the     *)
(* address of cookies, which is never NULL: the Cookie line is always      *)
(* there, and with a count of 0 it names none.  Lines of LINELEN and       *)
(* messages of BUFLEN are taken to be long enough.                         *)
(***************************************************************************)

None == "none"
NoSession == 0

\* Cookie and Authorization, which all four write alike.
Headers(cookies, cookies_count, jwt_token, jwt_token_exists) ==
  [cookie |-> IF cookies_count = 0 THEN NoSession ELSE cookies,
   authorization |-> IF jwt_token_exists THEN jwt_token ELSE NoSession]

compute_get_request(url, query_params, headers) ==
  [method |-> "GET", url |-> url, query |-> query_params, body |-> None, headers |-> headers]

compute_delete_request(url, query_params, headers) ==
  [method |-> "DELETE", url |-> url, query |-> query_params, body |-> None, headers |-> headers]

\* With a body, whose Content-Length is its own.
compute_post_request(url, body_data, headers) ==
  [method |-> "POST", url |-> url, query |-> None, body |-> body_data, headers |-> headers]

compute_put_request(url, query_params, body_data, headers) ==
  [method |-> "PUT", url |-> url, query |-> query_params, body |-> body_data,
   headers |-> headers]
=============================================================================

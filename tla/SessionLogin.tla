---------------------------- MODULE SessionLogin ----------------------------
(***************************************************************************)
(* One browser and the session cookie of src/src/zeython/auth.py, with the *)
(* second factor of mfa.py, the OAuth flow of oauth.py and the CSRF cookie *)
(* of csrf.py.  The server keeps nothing: a request carries the session in *)
(* its cookie, Starlette's SessionMiddleware sends what the handler made   *)
(* of it back, and the responses of two tabs overwrite each other.         *)
(*                                                                         *)
(* What a session holds (a login, a challenge, an OAuth state) is numbered *)
(* in the order it was issued; 0 is its absence.  CSRF tokens likewise.    *)
(***************************************************************************)
EXTENDS Naturals

CONSTANTS Tabs,
          Users,
          WithSecondFactor, \* the users whose mfa_enabled is true
          MaxIssued,        \* bound on logins, challenges and OAuth states
          MaxTokens         \* bound on CSRF tokens

VARIABLES
  session,   \* the session cookie of the browser
  token,     \* its csrf_token cookie
  response,  \* of a tab: the response under way to it
  form,      \* of a tab: the CSRF token in the page it shows
  callback,  \* of a tab: the state in the callback URL that the provider sent it to
  issued,    \* how many things were numbered
  tokens,    \* how many CSRF tokens were made
  over,      \* what a received response has said is over
  shared,    \* what two requests carried at the same time
  split      \* two requests without a CSRF cookie were under way at a time

browserVars == <<session, token, form, callback>>
ghostVars == <<over, shared, split>>
vars == <<browserVars, ghostVars, response, issued, tokens>>

Sessions == [user : 0 .. MaxIssued, pending : 0 .. MaxIssued, state : 0 .. MaxIssued]
Empty == [user |-> 0, pending |-> 0, state |-> 0]
Held(s) == {s.user, s.pending, s.state} \ {0}

Responses == [kind : {"page", "redirect", "other"}, carried : Sessions, session : Sessions,
              token : 1 .. MaxTokens, setsToken : BOOLEAN, over : SUBSET (1 .. MaxIssued)]
NoResponse == [kind |-> "none"]
Busy == {t \in Tabs : response[t] # NoResponse}

TypeOK ==
  /\ session \in Sessions /\ token \in 0 .. MaxTokens
  /\ response \in [Tabs -> Responses \cup {NoResponse}]
  /\ form \in [Tabs -> 0 .. MaxTokens] /\ callback \in [Tabs -> 0 .. MaxIssued]
  /\ issued \in 0 .. MaxIssued /\ tokens \in 0 .. MaxTokens
  /\ over \in SUBSET (1 .. MaxIssued) /\ shared \in SUBSET (1 .. MaxIssued)
  /\ split \in BOOLEAN

Init ==
  /\ session = Empty /\ token = 0
  /\ response = [t \in Tabs |-> NoResponse]
  /\ form = [t \in Tabs |-> 0] /\ callback = [t \in Tabs |-> 0]
  /\ issued = 0 /\ tokens = 0
  /\ over = {} /\ shared = {} /\ split = FALSE

(***************************************************************************)
(* The server                                                              *)
(***************************************************************************)

(* CsrfMiddleware's token for a request: its cookie's, or a new one.       *)
TokenOfRequest == IF token # 0 THEN token ELSE tokens + 1

(* Mutant: each response brings a new token.                               *)
TokenAlwaysNew == tokens + 1

(* A POST passes CsrfMiddleware when it repeats the cookie in the header.  *)
PassesCsrf(t) == token # 0 /\ form[t] = token

(* A request of tab `t` is sent and handled: it leaves session `s`, and    *)
(* `done` is over with it.                                                 *)
Respond(t, kind, s, done) ==
  /\ response[t] = NoResponse
  /\ TokenOfRequest <= MaxTokens
  /\ tokens' = IF TokenOfRequest > tokens THEN TokenOfRequest ELSE tokens
  /\ response' = [response EXCEPT ![t] =
       [kind |-> kind, carried |-> session, session |-> s, token |-> TokenOfRequest,
        setsToken |-> TokenOfRequest # token, over |-> done \ {0}]]
  /\ shared' = shared \cup
       (Held(session) \cap UNION {Held(response[q].carried) : q \in Busy})
  /\ split' = (split \/ (token = 0 /\ Busy # {}))
  /\ UNCHANGED <<browserVars, over>>

(* The handler writes `new` number into the session that it issues.        *)
Issue(t, kind, s, done) ==
  issued < MaxIssued /\ issued' = issued + 1 /\ Respond(t, kind, s, done)

(* A page or any request that changes no session; also one that            *)
(* require_auth() or a wrong password has answered with 401.               *)
Page(t) == Respond(t, "page", session, {}) /\ UNCHANGED issued

(* attempt() has found the user and the password was right.  The handler   *)
(* of mfa.py:199-206: log in, or start the challenge.                      *)
Login(t, u) ==
  /\ PassesCsrf(t)
  /\ IF u \in WithSecondFactor
     THEN Issue(t, "other", [session EXCEPT !.pending = issued + 1], {session.pending})
     ELSE Issue(t, "other", [session EXCEPT !.user = issued + 1], {session.user})

(* Mutant: the pending challenge stays in the session.                     *)
CompleteKept(t) ==
  /\ PassesCsrf(t) /\ session.pending # 0
  /\ Issue(t, "other", [session EXCEPT !.user = issued + 1],
           {session.pending, session.user})

(* complete_challenge() with a right code; a wrong one is a Page.          *)
CompleteChallenge(t) ==
  /\ PassesCsrf(t) /\ session.pending # 0
  /\ Issue(t, "other", [session EXCEPT !.pending = 0, !.user = issued + 1],
           {session.pending, session.user})

Logout(t) ==
  /\ PassesCsrf(t)
  /\ Respond(t, "other", [session EXCEPT !.user = 0], {session.user})
  /\ UNCHANGED issued

RedirectUrl(t) ==
  Issue(t, "redirect", [session EXCEPT !.state = issued + 1], {session.state})

(* handle_callback() with the state of the URL, which may be visited again.*)
(* 403 for another state and 400 without a code take the state too.        *)
HandleCallback(t, consented) ==
  /\ callback[t] # 0
  /\ LET popped == [session EXCEPT !.state = 0]
     IN IF session.state = callback[t] /\ consented
        THEN Issue(t, "other", [popped EXCEPT !.user = issued + 1],
                   {session.state, session.user})
        ELSE Respond(t, "other", popped, {session.state}) /\ UNCHANGED issued

(***************************************************************************)
(* The browser                                                             *)
(***************************************************************************)

(* SessionMiddleware sends a cookie unless the session is and was empty.   *)
Receive(t) ==
  LET r == response[t] IN
  /\ r # NoResponse
  /\ response' = [response EXCEPT ![t] = NoResponse]
  /\ session' = IF r.session = Empty /\ r.carried = Empty THEN session ELSE r.session
  /\ token' = IF r.setsToken THEN r.token ELSE token
  /\ form' = IF r.kind = "page" THEN [form EXCEPT ![t] = r.token] ELSE form
  /\ callback' = IF r.kind = "redirect" THEN [callback EXCEPT ![t] = r.session.state]
                                        ELSE callback
  /\ over' = over \cup r.over
  /\ UNCHANGED <<issued, tokens, shared, split>>

(* The handler crashed (the 500 comes from outside both middlewares), or   *)
(* the tab was closed: no cookie is set.                                   *)
NoCookie(t) ==
  /\ response[t] # NoResponse
  /\ response' = [response EXCEPT ![t] = NoResponse]
  /\ UNCHANGED <<browserVars, ghostVars, issued, tokens>>

Next ==
  \E t \in Tabs :
    \/ Page(t) \/ CompleteChallenge(t) \/ Logout(t) \/ RedirectUrl(t)
    \/ \E u \in Users : Login(t, u)
    \/ \E consented \in BOOLEAN : HandleCallback(t, consented)
    \/ Receive(t) \/ NoCookie(t)

Spec == Init /\ [][Next]_vars

(***************************************************************************)
(* Properties                                                              *)
(***************************************************************************)

(* What the browser was told is over is over: a challenge that was         *)
(* completed, an OAuth state that was checked (docs/oauth.md:172-176), a   *)
(* login that was ended or replaced are not in its session again.          *)
(* Excepted is what another request carried at the same time, whose        *)
(* response brings it back.                                                *)
OverIsOver == Held(session) \cap over \subseteq shared

(* The form in every tab repeats the browser's cookie (csrf.py:95-98),     *)
(* whichever requests come between, but when the first two of a browser    *)
(* overlapped, which get a token each.                                     *)
FormsPass == \A t \in Tabs : form[t] \in {0, token} \/ split
=============================================================================

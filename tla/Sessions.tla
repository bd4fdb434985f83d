------------------------------ MODULE Sessions ------------------------------
(***************************************************************************)
(* How a browser stays signed in (proxy, lib/auth, lib/csrf,               *)
(* lib/client/token-bridge and session, server/handler): the opening from  *)
(* Bitrix24 sets cookies and puts the token in the redirect's URL; scripts *)
(* move it to the storage the tabs share and send it as a header, for the  *)
(* browsers that refuse the cookie; the proxy turns it into a cookie.      *)
(*                                                                         *)
(* A token remembers its user, which opening it is of ("n") and how long   *)
(* it is good.  Tabs are of one browser and one storage.                   *)
(***************************************************************************)
EXTENDS Integers

CONSTANTS
  NoToken,
  Visitors,    \* who opens the application in this browser
  Tabs,
  Life,        \* how long a token and its cookies live, 8 hours
  OperatorLife,\* how long the operator's cookie lives, 12 hours
  LastHour, MaxOpenings

ASSUME SessionsAssumption ==
  /\ {Life, OperatorLife, LastHour, MaxOpenings} \subseteq Nat
  /\ NoToken \notin [user : Visitors, n : Nat, until : Nat]

VARIABLES
  takesCookies, \* whether the browser keeps cookies set inside Bitrix24's frame
  hour,
  openings,
  jar,          \* the cookies: session, csrf and the operator's, with their ends
  store,        \* the token in localStorage
  tabs,         \* where a tab is, the token in its URL and the newest it was served as
  verdict       \* the answer to the last request, and whom it served

sessionVars == <<takesCookies, hour, openings, jar, store, tabs, verdict>>

NoCookie == [token |-> NoToken, until |-> 0]
Closed == [pc |-> "closed", url |-> NoToken, newest |-> 0]

SessionsInit ==
  /\ takesCookies \in BOOLEAN /\ hour = 0 /\ openings = 0
  /\ jar = [session |-> NoCookie, csrf |-> 0, operator |-> 0]
  /\ store = NoToken
  /\ tabs = [t \in Tabs |-> Closed]
  /\ verdict = [of |-> "none", token |-> NoToken, answer |-> "none"]

Cookie(token) == [token |-> token, until |-> hour + Life]

Alive(token) == token # NoToken /\ token.until > hour

OfSession(cookies) == IF cookies.session.until > hour THEN cookies.session.token ELSE NoToken

(* issueSession: both cookies and the token in the redirect.               *)
Issued_WhereNone(token) ==
  IF takesCookies /\ jar.session.until <= hour
    THEN [jar EXCEPT !.session = Cookie(token), !.csrf = hour + Life] ELSE jar

Issued(token) ==
  IF takesCookies THEN [jar EXCEPT !.session = Cookie(token), !.csrf = hour + Life] ELSE jar

NewToken(u) == [user |-> u, n |-> openings + 1, until |-> hour + Life]

OpenApp(t, u) ==
  /\ openings < MaxOpenings /\ openings' = openings + 1
  /\ jar' = Issued(NewToken(u))
  /\ tabs' = [tabs EXCEPT ![t] = [pc |-> "redirected", url |-> NewToken(u), newest |-> 0]]
  /\ verdict' = [of |-> "open", token |-> NewToken(u), answer |-> "redirect"]
  /\ UNCHANGED <<takesCookies, hour, store>>

(* The proxy: the cookie first, else the token of the URL or the header,   *)
(* which it also tries to make a cookie.                                   *)
Carried(url, header) == IF url # NoToken THEN url ELSE header

Bridged_TokenFirst(url, header) ==
  IF Carried(url, header) # NoToken
    THEN [token |-> Carried(url, header),
          jar |-> IF takesCookies THEN [jar EXCEPT !.session = Cookie(Carried(url, header))] ELSE jar]
    ELSE [token |-> OfSession(jar), jar |-> jar]

Bridged(url, header) ==
  IF OfSession(jar) = NoToken /\ Carried(url, header) # NoToken
    THEN [token |-> Carried(url, header),
          jar |-> IF takesCookies THEN [jar EXCEPT !.session = Cookie(Carried(url, header))] ELSE jar]
    ELSE [token |-> OfSession(jar), jar |-> jar]

CsrfOk == jar.csrf > hour

(* route(): the double-submitted token, unless the request carries its     *)
(* session itself; then the session.                                       *)
Gate_CsrfAlways(write, header, token) ==
  IF write /\ ~CsrfOk THEN "forbidden"
  ELSE IF ~Alive(token) THEN "unauthorized" ELSE "served"

Gate(write, header, token) ==
  IF write /\ header = NoToken /\ ~CsrfOk THEN "forbidden"
  ELSE IF ~Alive(token) THEN "unauthorized" ELSE "served"

Request(t, of, write, url, header) ==
  LET seen == Bridged(url, header)
      answer == Gate(write, header, seen.token) IN
    /\ jar' = seen.jar
    /\ verdict' = [of |-> of, token |-> seen.token, answer |-> answer]
    /\ tabs' = [tabs EXCEPT
         ![t].newest = IF answer = "served" THEN seen.token.n ELSE @,
         ![t].pc = IF of # "page" THEN @ ELSE IF answer = "served" THEN "loaded" ELSE "closed"]

(* The redirect's page, or a reload of one whose URL was cleaned.          *)
LoadPage(t) ==
  /\ tabs[t].pc \in {"redirected", "ready"}
  /\ Request(t, "page", FALSE, tabs[t].url, NoToken)
  /\ UNCHANGED <<takesCookies, hour, openings, store>>

(* The layout effect of SessionProvider, before any request of the page.   *)
BridgeToken(t) ==
  /\ tabs[t].pc = "loaded"
  /\ store' = Carried(tabs[t].url, store)
  /\ tabs' = [tabs EXCEPT ![t].pc = "ready", ![t].url = NoToken]
  /\ UNCHANGED <<takesCookies, hour, openings, jar, verdict>>

Fetch(t, write) ==
  /\ tabs[t].pc = "ready"
  /\ Request(t, "fetch", write, NoToken, store)
  /\ UNCHANGED <<takesCookies, hour, openings, store>>

(* The operator's own session shares the cookie of the CSRF token.         *)
OperatorLogin ==
  /\ jar' = [jar EXCEPT !.operator = hour + OperatorLife, !.csrf = hour + Life]
  /\ UNCHANGED <<takesCookies, hour, openings, store, tabs, verdict>>

OperatorLogout ==
  /\ jar' = [jar EXCEPT !.operator = 0, !.csrf = 0]
  /\ UNCHANGED <<takesCookies, hour, openings, store, tabs, verdict>>

OperatorWrite ==
  /\ verdict' = [of |-> "operator", token |-> NoToken,
                 answer |-> IF ~CsrfOk THEN "forbidden"
                            ELSE IF jar.operator <= hour THEN "unauthorized" ELSE "served"]
  /\ UNCHANGED <<takesCookies, hour, openings, jar, store, tabs>>

HourPasses ==
  /\ hour < LastHour /\ hour' = hour + 1
  /\ UNCHANGED <<takesCookies, openings, jar, store, tabs, verdict>>

SessionsNext ==
  \/ \E t \in Tabs :
       \/ (\E u \in Visitors : OpenApp(t, u)) \/ LoadPage(t) \/ BridgeToken(t)
       \/ \E write \in BOOLEAN : Fetch(t, write)
  \/ OperatorLogin \/ OperatorLogout \/ OperatorWrite \/ HourPasses

-----------------------------------------------------------------------------
(* Properties.                                                             *)

(* In a browser that keeps cookies a tab never goes back to being someone  *)
(* who opened the application before: what two tabs, the storage and the   *)
(* proxy's own cookie do to each other notwithstanding.                    *)
IdentityMovesForward ==
  takesCookies =>
    \A t \in Tabs : tabs[t].pc # "redirected" /\ tabs'[t].pc # "redirected"
                      => tabs'[t].newest >= tabs[t].newest

(* The page an opening leads to is served, and to the one who opened the   *)
(* application last among those the browser has cookies of, whatever       *)
(* tokens older tabs left behind.                                          *)
FreshOpeningServed ==
  \A t \in Tabs : LoadPage(t) /\ tabs[t].pc = "redirected" /\ Alive(tabs[t].url)
    => verdict'.answer = "served" /\ verdict'.token.n >= tabs[t].url.n

(* Whoever is signed in can write, with or without cookies: the check of   *)
(* the CSRF token never refuses the scripts of a page with a session.      *)
SignedInCanWrite == verdict.of = "fetch" /\ Alive(verdict.token) => verdict.answer # "forbidden"

(* A tab is served as the one who opened it, reading and writing.          *)
ServedAsOpened ==
  SignedInCanWrite /\ [][SignedInCanWrite' /\ IdentityMovesForward /\ FreshOpeningServed]_sessionVars
=============================================================================

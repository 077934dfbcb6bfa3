-------------------------------- MODULE Gate --------------------------------
(* Who sees which page: the edge proxy, which only looks whether there is a  *)
(* session cookie (proxy.ts), and the dashboard layout, which resolves the   *)
(* session (app/[locale]/(dashboard)/layout.tsx), each redirecting one       *)
(* browser that follows; between them next-intl may move a request without a *)
(* locale to the visitor's. The session may be revoked from another device,  *)
(* the cookie then stays.                                                    *)
EXTENDS Integers

CONSTANTS None, MaxHops     \* redirects after which the browser gives up (bound)

VARIABLES
  at,          \* the path requested or shown: a locale and a page
  stage,       \* where the request is
  hops,        \* redirects followed since the visitor last acted
  wanted,      \* the path the visitor asked for
  back,        \* the redirectTo the sign-in page was given
  negotiated,  \* next-intl has moved the visitor to another locale (ghost)
  lost,        \* the layout, which names no path to return to, sent the visitor away
  cookie,      \* a session cookie is there
  cached,      \* it carries a session young enough to be believed
  row          \* the session it names is in the database

auth == <<cookie, cached, row>>
vars == <<at, stage, hops, wanted, back, negotiated, lost, cookie, cached, row>>

Locale == {"en", "es"}      \* the default one has no prefix
Page == {"home", "login", "dashboard", "account", "notifications", "rsvp", "image"}
Path == Locale \X Page
Prefixed(path) == path[2] \in {"dashboard", "account"}     \* known to the proxy
Overlooked(path) == path[2] = "notifications"              \* under the layout all the same
Protected(path) == Prefixed(path) \/ Overlooked(path)
IsAuthPage(path) == path[2] = "login"

Init ==
  /\ at = <<"en", "home">> /\ stage = "shown" /\ hops = 0
  /\ wanted = at /\ back = None /\ negotiated = FALSE /\ lost = FALSE
  /\ cookie = FALSE /\ cached = FALSE /\ row = FALSE

Visit(path) ==
  /\ stage = "shown"
  /\ at' = path /\ wanted' = path /\ stage' = "edge"
  /\ hops' = 0 /\ back' = None /\ negotiated' = FALSE /\ lost' = FALSE
  /\ UNCHANGED auth

Redirect(path, redirectTo) ==
  /\ at' = path /\ back' = redirectTo
  /\ hops' = hops + 1
  /\ stage' = IF hops + 1 = MaxHops THEN "gaveUp" ELSE "edge"
  /\ UNCHANGED <<wanted, negotiated, auth>>

\* The request goes on to the page, or next-intl finds another locale for it
\* and redirects, query and all.
Pass ==
  \/ stage' = "render" /\ UNCHANGED <<at, hops, wanted, back, negotiated, lost, auth>>
  \/ /\ at[1] = "en" /\ at[2] # "image"
     /\ at' = <<"es", at[2]>> /\ negotiated' = TRUE
     /\ UNCHANGED <<stage, hops, wanted, back, lost, auth>>

\* proxy: the path is looked up without its locale, and the locale is kept.
Proxy ==
  /\ stage = "edge"
  /\ IF ~cookie /\ Prefixed(at)
     THEN Redirect(<<at[1], "login">>, at) /\ UNCHANGED lost
     ELSE IF cookie /\ IsAuthPage(at)
          THEN Redirect(<<at[1], "dashboard">>, None) /\ UNCHANGED lost
          ELSE Pass

Shows == stage' = "shown" /\ UNCHANGED <<at, hops, wanted, back, negotiated, lost, cookie, row>>

\* DashboardLayout: a session from the cookie's cache or from the database.
Render ==
  /\ stage = "render"
  /\ \/ ~Protected(at) /\ Shows /\ UNCHANGED cached
     \/ Protected(at) /\ cookie /\ (cached \/ row) /\ Shows /\ cached' = cached
     \/ Protected(at) /\ ~(cookie /\ (cached \/ row)) /\ lost' = TRUE
          /\ Redirect(<<"en", "login">>, None)

\* Signing in, then the page the visitor was sent away from, or the dashboard.
SignIn ==
  /\ stage = "shown" /\ IsAuthPage(at)
  /\ cookie' = TRUE /\ cached' = TRUE /\ row' = TRUE
  /\ at' = IF back = None THEN <<"en", "dashboard">> ELSE back
  /\ stage' = "edge" /\ hops' = 0 /\ back' = None
  /\ UNCHANGED <<wanted, negotiated, lost>>

SignOut ==
  /\ stage = "shown" /\ cookie
  /\ cookie' = FALSE /\ cached' = FALSE /\ row' = FALSE
  /\ UNCHANGED <<at, stage, hops, wanted, back, negotiated, lost>>

\* Revoked from another device, by a ban, or with the account.
RevokedElsewhere ==
  /\ row
  /\ row' = FALSE
  /\ UNCHANGED <<at, stage, hops, wanted, back, negotiated, lost, cookie, cached>>

\* Five minutes of the cookie cache have passed; a read of the row renews it.
CacheExpires ==
  /\ cached
  /\ cached' = FALSE
  /\ UNCHANGED <<at, stage, hops, wanted, back, negotiated, lost, cookie, row>>

CookieExpires ==
  /\ stage = "shown" /\ cookie
  /\ cookie' = FALSE /\ cached' = FALSE
  /\ UNCHANGED <<at, stage, hops, wanted, back, negotiated, lost, row>>

Next ==
  \/ \E path \in Path : Visit(path)
  \/ Proxy \/ Render \/ SignIn \/ SignOut \/ RevokedElsewhere \/ CacheExpires \/ CookieExpires

Spec == Init /\ [][Next]_vars

-----------------------------------------------------------------------------
(* Every variable stays in its domain.                                       *)
TypeOK ==
  /\ at \in Path /\ stage \in {"edge", "render", "shown", "gaveUp"}
  /\ hops \in 0..MaxHops /\ wanted \in Path /\ back \in Path \cup {None}
  /\ negotiated \in BOOLEAN /\ lost \in BOOLEAN /\ cookie \in BOOLEAN /\ cached \in BOOLEAN
  /\ row \in BOOLEAN

(* A visitor of a page the proxy knows ends where they were going, or at the *)
(* sign-in page on the way there, in the language they were going there in;  *)
(* next-intl's own choice of a language aside. Only of the page it overlooks *)
(* are visitors shown another in its place.                                  *)
LandsWhereAsked ==
  stage = "shown" /\ ~(lost /\ Overlooked(wanted)) /\ ~negotiated =>
    at \in {wanted, <<wanted[1], "login">>} \/ (IsAuthPage(wanted) /\ at[2] = "dashboard")

(* The two gates, which look at different things, disagree about a cookie    *)
(* that outlives its session, which alone is sent back and forth between the *)
(* two, and about a visitor without one of the page the proxy overlooks:     *)
(* nobody else is turned away by the layout, after the proxy.                *)
OnlyADeadCookieIsTurnedAway ==
  stage = "edge" =>
    /\ hops > 1 => cookie /\ ~row
    /\ lost /\ ~Overlooked(wanted) => cookie /\ ~row

(* proxy.ts:37-39 "every page rendered inside them ... is matched below":    *)
(* the layout is never the first to ask for a cookie.                        *)
EveryPageIsMatched == stage = "render" /\ Protected(at) => cookie

(* (dashboard)/layout.tsx:17-19 "THIS is the authoritative check - it        *)
(* resolves the real session (DB-backed) and redirects to /login if absent": *)
(* a visitor without a session reaches the sign-in page.                     *)
SignInIsReachable == stage # "gaveUp"
-----------------------------------------------------------------------------
(* Why they land where they asked: what every step keeps.                    *)
Bounds == MaxHops \in Nat \ {0} /\ None \notin Path

UnderWay == stage \in {"edge", "render"}

HopsAreLeft == stage # "gaveUp" => hops < MaxHops

\* The proxy has let the request through.
Admitted == stage = "render" => (Prefixed(at) => cookie) /\ (IsAuthPage(at) => ~cookie)

\* Nobody is led to the page the proxy overlooks, nor back to it.
OnlyAskedFor ==
  /\ Overlooked(at) => Overlooked(wanted)
  /\ back # None => Prefixed(back)

\* Where a visitor whom nobody led astray is, and where they go from there.
Trail ==
  ~lost /\ ~negotiated =>
    \/ at = wanted /\ back = None
    \/ /\ at = <<wanted[1], "login">> /\ back = wanted
       /\ UnderWay => ~cookie
    \/ /\ IsAuthPage(wanted) /\ at[2] = "dashboard" /\ back = None
       /\ UnderWay => cookie

\* One redirect is the proxy's, and the proxy is content with where it led.
OneRedirect ==
  UnderWay /\ hops > 0 /\ ~lost =>
    hops = 1 /\ at[2] = (IF cookie THEN "dashboard" ELSE "login")

Dead == cookie /\ ~row /\ ~cached

\* A visitor the layout turned away goes back and forth with a dead cookie, unless they had
\* none and were on the way to the overlooked page: they sign in, and see the dashboard.
LostForGood ==
  lost =>
    /\ back = None /\ at[2] \in {"login", "dashboard"}
    /\ ~Overlooked(wanted) => stage # "shown" /\ Dead
    /\ UnderWay => \/ Dead
                   \/ ~cookie /\ at[2] = "login" /\ hops <= 1
                   \/ cookie /\ at[2] = "dashboard" /\ hops = 0

GateInv ==
  /\ TypeOK /\ HopsAreLeft /\ Admitted /\ OnlyAskedFor /\ Trail /\ OneRedirect
  /\ LostForGood
=============================================================================

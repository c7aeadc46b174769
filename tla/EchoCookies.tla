---------------------------- MODULE EchoCookies -----------------------------
(***************************************************************************)
(* The cookie services of the web server, signed and encrypted (secure) or *)
(* merely encoded (insecure), against a browser's jar: what is set is what *)
(* is read, and what is deleted is gone, whichever way the requests come.  *)
(***************************************************************************)
EXTENDS Naturals, FiniteSets

CONSTANTS CookieNames, CookieValues,
          NoCookie         \* nothing under that name

VARIABLES sealing,   \* "secure" or "insecure"
          cookieJar, \* the browser's cookies by name; path and domain are the same for all
          written,   \* what the application ever wrote: name and value
          lastCookie \* the last operation and what came of it

cookieVars == <<sealing, cookieJar, written, lastCookie>>

Nothing == [op |-> "none"]

\* How a request may come: to the server in plain text or over TLS, or to a
\* proxy over TLS that says so, from a private address or not, or does not.
Hops == {"plain", "tls", "privateProxy", "publicProxy", "silentProxy"}
BrowserScheme(hop) == IF hop = "plain" THEN "http" ELSE "https"

\* echo's Context.Scheme believes a proxy only if its address is private.
Scheme(hop) == IF hop \in {"tls", "privateProxy"} THEN "https" ELSE "http"
ForwardedProto(hop) == IF hop \in {"privateProxy", "publicProxy"} THEN "https" ELSE ""

\* What a request asks for: Secure unset or given, and SameSite.
Asked == [Secure : {"unset", "yes", "no"}, SameSite : {"Lax", "None"}]

CookieInit ==
    /\ sealing \in {"secure", "insecure"}
    /\ cookieJar = [k \in CookieNames |-> NoCookie]
    /\ written = {}
    /\ lastCookie = Nothing

-----------------------------------------------------------------------------
(* The services.                                                           *)

\* Mutant: only a TLS connection to the server itself counts.
secureDefaultOwnTLS(hop, override) ==
    IF override # "unset" THEN override = "yes" ELSE hop = "tls"

secureDefault(hop, override) ==
    IF override # "unset" THEN override = "yes"
    ELSE Scheme(hop) = "https" \/ ForwardedProto(hop) = "https"

\* The browser: a secure cookie is neither set from nor overwritten by plain
\* text, nor overwritten by a cookie that is not secure; SameSite=None without
\* Secure is dropped.
Accepts(old, hop, secure, sameSite) ==
    /\ sameSite = "None" => secure
    /\ secure => BrowserScheme(hop) = "https"
    /\ old # NoCookie /\ old.secure => secure

\* Encode seals the value with the name; nobody else can.
Encoded(name, value, asked, hop) ==
    [name |-> name, value |-> value, old |-> FALSE, sealed |-> sealing = "secure",
     secure |-> secureDefault(hop, asked.Secure), asked |-> asked, hop |-> hop]

SetCookie(name, value, asked, hop) ==
    LET cookie == Encoded(name, value, asked, hop)
        old == cookieJar[name]
    IN  /\ lastCookie = Nothing
        /\ cookieJar' = IF Accepts(old, hop, cookie.secure, asked.SameSite)
                        THEN [cookieJar EXCEPT ![name] = cookie] ELSE cookieJar
        /\ written' = written \union {<<name, value>>}
        /\ UNCHANGED <<sealing, lastCookie>>

\* Decode: the seal must be of this name and not too old (30 days).
Decode(name, cookie) ==
    sealing = "secure" => cookie.sealed /\ ~cookie.old /\ cookie.name = name

\* A request carries its cookies; a secure one travels over TLS only.
GetCookie(name, hop) ==
    /\ lastCookie = Nothing
    /\ LET cookie == cookieJar[name]
           carried == cookie # NoCookie /\ (cookie.secure => BrowserScheme(hop) = "https")
       IN  lastCookie' =
             IF ~carried THEN [op |-> "get", name |-> name, code |-> "NotFound"]
             ELSE IF ~Decode(name, cookie) THEN [op |-> "get", name |-> name, code |-> "Internal"]
             ELSE [op |-> "get", name |-> name, code |-> "OK", value |-> cookie.value]
    /\ UNCHANGED <<sealing, cookieJar, written>>

\* DeleteCookie sends an expired cookie with the attributes it is given.
DeleteCookie(name, asked, hop) ==
    /\ lastCookie = Nothing
    /\ LET was == cookieJar[name]
           gone == Accepts(was, hop, secureDefault(hop, asked.Secure), asked.SameSite)
       IN  /\ cookieJar' = IF gone THEN [cookieJar EXCEPT ![name] = NoCookie] ELSE cookieJar
           /\ lastCookie' = [op |-> "delete", key |-> name, was |-> was, asked |-> asked, hop |-> hop]
    /\ UNCHANGED <<sealing, written>>

NextRequest ==
    /\ lastCookie # Nothing /\ lastCookie' = Nothing
    /\ UNCHANGED <<sealing, cookieJar, written>>

-----------------------------------------------------------------------------
(* The world around: the user moves a cookie to another name, and    *)
(* months pass.                                                            *)

MoveCookie(from, to) ==
    /\ lastCookie = Nothing /\ cookieJar[from] # NoCookie
    /\ cookieJar' = [cookieJar EXCEPT ![to] = cookieJar[from]]
    /\ UNCHANGED <<sealing, written, lastCookie>>

Months ==
    /\ lastCookie = Nothing
    /\ cookieJar' = [k \in CookieNames |-> IF cookieJar[k] = NoCookie THEN NoCookie
                                    ELSE [cookieJar[k] EXCEPT !.old = TRUE]]
    /\ UNCHANGED <<sealing, written, lastCookie>>

CookieNext ==
    \/ \E n \in CookieNames, hop \in Hops :
         \/ \E a \in Asked, v \in CookieValues : SetCookie(n, v, a, hop)
         \/ \E a \in Asked : DeleteCookie(n, a, hop)
         \/ GetCookie(n, hop)
    \/ NextRequest \/ Months
    \/ \E from, to \in CookieNames : MoveCookie(from, to)

CookieSpec == CookieInit /\ [][CookieNext]_cookieVars

-----------------------------------------------------------------------------
(* Properties                                                              *)

\* Two requests look the same to the application if the browser made them with
\* the same scheme and no proxy on the way is silent about it.
SameSide(a, b) == a = b \/ (BrowserScheme(a) = BrowserScheme(b) /\ "silentProxy" \notin {a, b})

\* A cookie the browser holds is gone once it is deleted with the Secure and
\* SameSite it was set with ("either way the cookie would silently survive"),
\* even if the two requests came through different proxies; and a value read
\* from a secure cookie is one the application wrote under that very name
\* (secureDefault, SetCookie, GetCookie, DeleteCookie).
CookiesKeepTheirWord ==
    /\ (lastCookie.op = "delete" /\ lastCookie.was # NoCookie
          /\ lastCookie.was.asked = lastCookie.asked /\ SameSide(lastCookie.was.hop, lastCookie.hop)) =>
          cookieJar[lastCookie.key] = NoCookie
    /\ (lastCookie.op = "get" /\ sealing = "secure" /\ lastCookie.code = "OK") =>
          <<lastCookie.name, lastCookie.value>> \in written
=============================================================================
